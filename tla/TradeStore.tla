------------------------------ MODULE TradeStore ------------------------------
(***************************************************************************)
(* The rows of PostgreSQL's `trades` and `signals` tables that the trading *)
(* code reads and writes, and the transactions that change them.  Every    *)
(* transaction below is one commit of the code: PostgreSQL makes it atomic.*)
(*                                                                         *)
(* Trade and Signal are pools of primary keys (uuid4, never used twice): a *)
(* key is "unborn" until a row carries it and "deleted" once that row is   *)
(* gone.  All rows are of one trading day, so that the daily number in     *)
(* TRD-YYYYMMDD-NNN and SIG-YYYYMMDD-NNN identifies them.                  *)
(*                                                                         *)
(* A definition X_Y is X with a plausible bug Y in it, which one of the    *)
(* checked properties must notice; no specification uses it.               *)
(***************************************************************************)
EXTENDS Naturals, FiniteSets

CONSTANTS Trade, Signal, Symbol, FallbackId, None

ASSUME StoreAssumption ==
    /\ IsFiniteSet(Trade)
    /\ IsFiniteSet(Signal)
    /\ None \notin Signal \cup Symbol
    /\ FallbackId \cap Nat = {}

VARIABLES trades, signals

store == <<trades, signals>>

Final == {"target-hit", "sl-hit", "trailing-sl-hit", "exited"}
Live == {"pending", "entered"} \cup Final
RowStatus == {"unborn", "deleted"} \cup Live

NoTrade(status) == [status |-> status, tid |-> 0, sig |-> None]
NoSignal(status) == [status |-> status, sid |-> 0, sym |-> None]

\* Cut of signals.signal_id: a daily number, or a timestamp suffix.
SignalNumber == Nat \cup FallbackId

StoreTypeOK ==
    /\ trades \in [Trade -> [status : RowStatus \ {"pending"}, tid : Nat,
                             sig : Signal \cup {None}]]
    /\ signals \in [Signal -> [status : RowStatus, sid : SignalNumber,
                               sym : Symbol \cup {None}]]

LiveTrades == {t \in Trade : trades[t].status \in Live}
LiveSignals == {s \in Signal : signals[s].status \in Live}
OpenTrades == {t \in Trade : trades[t].status = "entered"}
Linked(s) == {t \in LiveTrades : trades[t].sig = s}

\* UNIQUE constraints of trades.trade_id and signals.signal_id.
TradeIdTaken(tid) == \E t \in LiveTrades : trades[t].tid = tid
SignalIdTaken(sid) == \E s \in LiveSignals : signals[s].sid = sid

NextTradeId_CountsOpen == Cardinality(OpenTrades) + 1

\* generate_trade_id(): today's rows plus one, with no look at the numbers in use.
NextTradeId == Cardinality(LiveTrades) + 1

\* generate_signal_id()'s candidate: today's rows plus one.
NextSignalId == Cardinality(LiveSignals) + 1

-----------------------------------------------------------------------------
\* Transactions.

\* The signal a trade names, if its row is still there, takes `status`.
Relabelled(sig, status) ==
    IF sig \in LiveSignals
    THEN [signals EXCEPT ![sig].status = status]
    ELSE signals

\* receive_webhook: db.add(signal) .. commit.
InsertSignal(s, sid, sym) ==
    /\ signals[s].status = "unborn"
    /\ ~SignalIdTaken(sid)
    /\ signals' = [signals EXCEPT ![s] =
                      [status |-> "pending", sid |-> sid, sym |-> sym]]
    /\ UNCHANGED trades

\* open_trade: the new row and its signal's status, in one commit.  The
\* foreign key refuses a signal that is not there.
InsertTrade(t, tid, sig) ==
    /\ trades[t].status = "unborn"
    /\ ~TradeIdTaken(tid)
    /\ sig \in LiveSignals \cup {None}
    /\ trades' = [trades EXCEPT ![t] =
                     [status |-> "entered", tid |-> tid, sig |-> sig]]
    /\ signals' = Relabelled(sig, "entered")

ExitTrade_ForgetsSignal(t, final) ==
    /\ t \in LiveTrades
    /\ trades' = [trades EXCEPT ![t].status = final]
    /\ UNCHANGED signals

\* close_trade: the row's final status and its signal's, in one commit.  The
\* UPDATE needs the row to exist and nothing else: its status is not read again.
ExitTrade(t, final) ==
    /\ t \in LiveTrades
    /\ trades' = [trades EXCEPT ![t].status = final]
    /\ signals' = Relabelled(trades[t].sig, final)

\* weekly_cleanup: DELETE FROM trades.
DeleteAllTrades ==
    /\ trades' = [t \in Trade |-> IF t \in LiveTrades THEN NoTrade("deleted")
                                                      ELSE trades[t]]
    /\ UNCHANGED signals

\* DELETE FROM signals WHERE ..: trades.signal_id is ON DELETE SET NULL.
DeleteSignals(S) ==
    /\ signals' = [s \in Signal |-> IF s \in S \cap LiveSignals
                                    THEN NoSignal("deleted") ELSE signals[s]]
    /\ trades' = [t \in Trade |-> IF trades[t].sig \in S \cap LiveSignals
                                  THEN [trades[t] EXCEPT !.sig = None]
                                  ELSE trades[t]]

StoreInit ==
    /\ trades = [t \in Trade |-> NoTrade("unborn")]
    /\ signals = [s \in Signal |-> NoSignal("unborn")]

StoreNext ==
    \/ \E s \in Signal, sid \in SignalNumber, sym \in Symbol :
          InsertSignal(s, sid, sym)
    \/ \E t \in Trade, tid \in Nat, sig \in Signal \cup {None} :
          InsertTrade(t, tid, sig)
    \/ \E t \in Trade, final \in Final : ExitTrade(t, final)
    \/ DeleteAllTrades
    \/ \E S \in SUBSET Signal : DeleteSignals(S)

StoreSpec == StoreInit /\ [][StoreNext]_store

-----------------------------------------------------------------------------
\* A live signal with trades of its own shows the status of one of them, and a
\* signal that still says "pending" has none: close_trade and open_trade write
\* the two rows in one commit ("Sync linked Signal status to match trade
\* outcome"), so no interleaving of requests and jobs can part them.
SignalFollowsTrade ==
    \A s \in LiveSignals :
        Linked(s) # {} => \E t \in Linked(s) : trades[t].status = signals[s].status

\* The ledger's promise (TradeBook), over these rows.
Position(t) ==
    CASE trades[t].status = "unborn"  -> "unborn"
      [] trades[t].status = "entered" -> "open"
      [] trades[t].status = "deleted" -> "gone"
      [] OTHER                        -> "closed"

Book == INSTANCE TradeBook WITH position <- [t \in Trade |-> Position(t)]

\* Trades are opened once, closed after that, never reopened, and disappear only
\* all together.
KeepsTheBook == Book!BookSpec
=============================================================================
