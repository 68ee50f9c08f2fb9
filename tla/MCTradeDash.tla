----------------------------- MODULE MCTradeDash -----------------------------
(***************************************************************************)
(* Small instances of TradeDash for TLC.                                   *)
(***************************************************************************)
EXTENDS TradeDash, TLC

CONSTANTS a, b

\* A webhook about one symbol, and one about two.
OneSymbol == {<<a>>}
EitherSymbol == {<<a>>, <<b>>}
OneOrTwo == {<<a>>, <<a, b>>}
UpToTwo == {<<a>>, <<b>>, <<a, b>>}
Batch == {<<a, b>>}

Weekday == {"monitor", "force"}
Sunday == {"cleanup"}
NoJob == {}

AllPrices == {"positive", "zero", "guarded", "missing"}
GoodPrices == {"positive", "guarded"}

\* Keys are opaque: any two are alike (safety runs only).
KeySymmetry == Permutations(Trade) \cup Permutations(Signal)
=============================================================================
