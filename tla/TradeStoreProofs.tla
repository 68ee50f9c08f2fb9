-------------------------- MODULE TradeStoreProofs --------------------------
(***************************************************************************)
(* What the transactions of TradeStore keep, for any number of trades,     *)
(* signals and symbols and in any order: the types, the foreign key, the   *)
(* agreement of signals with their trades, and the abstract TradeBook.     *)
(***************************************************************************)
EXTENDS TradeStore, TLAPS

\* No trade names a signal whose row is gone or was never there.
LinksSound == \A t \in Trade : trades[t].sig \in LiveSignals \cup {None}

\* The inductive invariant: a fresh signal must be known to have no trades.
StoreInv == StoreTypeOK /\ LinksSound /\ SignalFollowsTrade

\* How the status sets lie in one another.
LEMMA StatusSets ==
    /\ Final \subseteq Live
    /\ "entered" \in Live /\ "pending" \in Live
    /\ "unborn" \notin Live /\ "deleted" \notin Live
    /\ Live \subseteq RowStatus
    /\ "entered" \notin Final /\ "pending" \notin Final
BY DEF Final, Live, RowStatus

\* Relabelling writes the status of one live signal and nothing else; no signal
\* appears or disappears.
LEMMA RelabelKeepsLive ==
    ASSUME StoreTypeOK, NEW sig, NEW status \in Live
    PROVE  /\ Relabelled(sig, status) \in
                 [Signal -> [status : RowStatus, sid : SignalNumber,
                             sym : Symbol \cup {None}]]
           /\ \A s \in Signal :
                 /\ Relabelled(sig, status)[s].status \in Live <=> s \in LiveSignals
                 /\ s # sig => Relabelled(sig, status)[s] = signals[s]
                 /\ s = sig /\ s \in LiveSignals =>
                       Relabelled(sig, status)[s].status = status
<1>1. CASE sig \in LiveSignals
  <2>1. sig \in Signal
    BY <1>1 DEF LiveSignals
  <2> DEFINE new == [signals EXCEPT ![sig].status = status]
  <2>2. Relabelled(sig, status) = new
    BY <1>1 DEF Relabelled
  <2>3. new \in [Signal -> [status : RowStatus, sid : SignalNumber,
                            sym : Symbol \cup {None}]]
    BY <2>1, StatusSets DEF StoreTypeOK
  <2>4. \A s \in Signal : s # sig => new[s] = signals[s]
    BY <2>1 DEF StoreTypeOK
  <2>5. new[sig].status = status
    BY <2>1 DEF StoreTypeOK
  <2> QED
    BY <1>1, <2>1, <2>2, <2>3, <2>4, <2>5 DEF LiveSignals
<1>2. CASE sig \notin LiveSignals
  BY <1>2 DEF Relabelled, LiveSignals, StoreTypeOK
<1> QED
  BY <1>1, <1>2

-----------------------------------------------------------------------------
\* The rows keep their shape under every transaction.
LEMMA StoreTyping ==
    ASSUME StoreTypeOK, [StoreNext]_store
    PROVE  StoreTypeOK'
<1>1. ASSUME NEW s \in Signal, NEW sid \in SignalNumber, NEW sym \in Symbol,
             InsertSignal(s, sid, sym)
      PROVE  StoreTypeOK'
  BY <1>1, StatusSets DEF InsertSignal, StoreTypeOK
<1>2. ASSUME NEW t \in Trade, NEW tid \in Nat, NEW sig \in Signal \cup {None},
             InsertTrade(t, tid, sig)
      PROVE  StoreTypeOK'
  <2>1. trades' \in [Trade -> [status : RowStatus \ {"pending"}, tid : Nat,
                               sig : Signal \cup {None}]]
    BY <1>2 DEF InsertTrade, StoreTypeOK, RowStatus, Live
  <2> QED
    BY <1>2, <2>1, RelabelKeepsLive, StatusSets DEF InsertTrade, StoreTypeOK
<1>3. ASSUME NEW t \in Trade, NEW final \in Final, ExitTrade(t, final)
      PROVE  StoreTypeOK'
  <2>1. trades' \in [Trade -> [status : RowStatus \ {"pending"}, tid : Nat,
                               sig : Signal \cup {None}]]
    BY <1>3 DEF ExitTrade, StoreTypeOK, RowStatus, Live, Final
  <2>2. signals' = Relabelled(trades[t].sig, final)
    BY <1>3 DEF ExitTrade
  <2>3. final \in Live
    BY StatusSets
  <2> QED
    BY <2>1, <2>2, <2>3, RelabelKeepsLive DEF StoreTypeOK
<1>4. ASSUME DeleteAllTrades
      PROVE  StoreTypeOK'
  BY <1>4 DEF DeleteAllTrades, StoreTypeOK, NoTrade, RowStatus, Live
<1>5. ASSUME NEW S \in SUBSET Signal, DeleteSignals(S)
      PROVE  StoreTypeOK'
  BY <1>5 DEF DeleteSignals, StoreTypeOK, NoSignal, RowStatus, SignalNumber
<1>6. ASSUME UNCHANGED store
      PROVE  StoreTypeOK'
  BY <1>6 DEF store, StoreTypeOK
<1> QED
  BY <1>1, <1>2, <1>3, <1>4, <1>5, <1>6 DEF StoreNext

-----------------------------------------------------------------------------
\* Foreign key and agreement survive every transaction.  The invariant needs the
\* foreign key: a key that carries no row yet has no trades to agree with.
LEMMA StoreInduction ==
    ASSUME StoreInv, [StoreNext]_store
    PROVE  StoreInv'
<1> USE DEF StoreInv
<1>0. StoreTypeOK'
  BY StoreTyping
<1>1. ASSUME NEW s \in Signal, NEW sid \in SignalNumber, NEW sym \in Symbol,
             InsertSignal(s, sid, sym)
      PROVE  LinksSound' /\ SignalFollowsTrade'
  <2>1. LiveSignals' = LiveSignals \cup {s} /\ s \notin LiveSignals
    BY <1>1, StatusSets DEF InsertSignal, LiveSignals, StoreTypeOK
  <2>2. LinksSound'
    BY <1>1, <2>1 DEF InsertSignal, LinksSound
  <2>3. Linked(s)' = {}
    BY <1>1, <2>1, StoreAssumption DEF InsertSignal, LinksSound, Linked, LiveTrades
  <2>4. ASSUME NEW x \in LiveSignals
        PROVE  Linked(x)' = Linked(x) /\ signals'[x] = signals[x]
    BY <1>1, <2>1 DEF InsertSignal, Linked, LiveTrades, LiveSignals, StoreTypeOK
  <2> QED
    BY <1>1, <2>1, <2>2, <2>3, <2>4 DEF SignalFollowsTrade, InsertSignal
<1>2. ASSUME NEW t \in Trade, NEW tid \in Nat, NEW sig \in Signal \cup {None},
             InsertTrade(t, tid, sig)
      PROVE  LinksSound' /\ SignalFollowsTrade'
  <2>1. /\ LiveSignals' = LiveSignals
        /\ \A x \in LiveSignals \ {sig} : signals'[x] = signals[x]
        /\ sig \in LiveSignals => signals'[sig].status = "entered"
    BY <1>2, RelabelKeepsLive, StatusSets DEF InsertTrade, LiveSignals
  <2>2. /\ trades'[t].status = "entered" /\ trades'[t].sig = sig
        /\ \A u \in Trade \ {t} : trades'[u] = trades[u]
        /\ t \notin LiveTrades
    BY <1>2, StatusSets DEF InsertTrade, StoreTypeOK, LiveTrades
  <2>3. LinksSound'
    BY <1>2, <2>1, <2>2 DEF LinksSound, InsertTrade
  <2>4. ASSUME NEW x \in LiveSignals, x # sig
        PROVE  Linked(x)' = Linked(x) /\ t \notin Linked(x)
    BY <2>2, <2>4 DEF Linked, LiveTrades
  <2>5. ASSUME sig \in LiveSignals
        PROVE  t \in Linked(sig)'
    BY <2>2, StatusSets DEF Linked, LiveTrades
  <2>6. ASSUME NEW x \in LiveSignals, Linked(x)' # {}
        PROVE  \E u \in Linked(x)' : trades'[u].status = signals'[x].status
    <3>1. CASE x = sig
      BY <3>1, <2>1, <2>2, <2>5
    <3>2. CASE x # sig
      <4>1. PICK u \in Linked(x) : trades[u].status = signals[x].status
        BY <3>2, <2>4, <2>6 DEF SignalFollowsTrade
      <4> QED
        BY <3>2, <4>1, <2>1, <2>2, <2>4 DEF Linked, LiveTrades
    <3> QED
      BY <3>1, <3>2
  <2> QED
    BY <2>1, <2>3, <2>6 DEF SignalFollowsTrade
<1>3. ASSUME NEW t \in Trade, NEW final \in Final, ExitTrade(t, final)
      PROVE  LinksSound' /\ SignalFollowsTrade'
  <2> DEFINE sig == trades[t].sig
  <2>1. /\ LiveSignals' = LiveSignals
        /\ \A x \in LiveSignals \ {sig} : signals'[x] = signals[x]
        /\ sig \in LiveSignals => signals'[sig].status = final
    BY <1>3, RelabelKeepsLive, StatusSets DEF ExitTrade, LiveSignals
  <2>2. /\ trades'[t].status = final /\ trades'[t].sig = sig
        /\ \A u \in Trade \ {t} : trades'[u] = trades[u]
        /\ LiveTrades' = LiveTrades /\ t \in LiveTrades
    BY <1>3, StatusSets DEF ExitTrade, StoreTypeOK, LiveTrades
  <2>3. LinksSound'
    BY <2>1, <2>2 DEF LinksSound
  <2>4. ASSUME NEW x \in Signal
        PROVE  Linked(x)' = Linked(x)
    BY <2>2 DEF Linked, LiveTrades
  <2>5. ASSUME NEW x \in LiveSignals, Linked(x)' # {}
        PROVE  \E u \in Linked(x)' : trades'[u].status = signals'[x].status
    <3>0. x \in Signal
      BY DEF LiveSignals
    <3>1. CASE x = sig
      BY <3>0, <3>1, <2>1, <2>2, <2>4 DEF Linked
    <3>2. CASE x # sig
      <4>1. PICK u \in Linked(x) : trades[u].status = signals[x].status
        BY <3>0, <2>4, <2>5 DEF SignalFollowsTrade
      <4>2. u # t
        BY <3>2, <4>1 DEF Linked
      <4> QED
        BY <3>0, <3>2, <4>1, <4>2, <2>1, <2>2, <2>4 DEF Linked, LiveTrades
    <3> QED
      BY <3>1, <3>2
  <2> QED
    BY <2>1, <2>3, <2>5 DEF SignalFollowsTrade
<1>4. ASSUME DeleteAllTrades
      PROVE  LinksSound' /\ SignalFollowsTrade'
  <2>1. LiveTrades' = {}
    BY <1>4, StatusSets DEF DeleteAllTrades, LiveTrades, NoTrade
  <2>2. LinksSound'
    BY <1>4 DEF DeleteAllTrades, LinksSound, NoTrade, LiveSignals
  <2> QED
    BY <2>1, <2>2 DEF SignalFollowsTrade, Linked
<1>5. ASSUME NEW S \in SUBSET Signal, DeleteSignals(S)
      PROVE  LinksSound' /\ SignalFollowsTrade'
  <2>1. /\ LiveSignals' = LiveSignals \ S
        /\ \A x \in LiveSignals \ S : signals'[x] = signals[x]
    BY <1>5, StatusSets DEF DeleteSignals, LiveSignals, NoSignal
  <2>2. \A t \in Trade :
           /\ trades'[t].status = trades[t].status
           /\ trades[t].sig \in S \cap LiveSignals => trades'[t].sig = None
           /\ trades[t].sig \notin S \cap LiveSignals => trades'[t] = trades[t]
    BY <1>5 DEF DeleteSignals, StoreTypeOK
  <2>3. LinksSound'
    BY <2>1, <2>2 DEF LinksSound
  <2>4. ASSUME NEW x \in LiveSignals \ S
        PROVE  Linked(x)' = Linked(x)
    BY <2>2, StoreAssumption DEF Linked, LiveTrades, LiveSignals
  <2> QED
    BY <2>1, <2>2, <2>3, <2>4 DEF SignalFollowsTrade, Linked, LiveTrades
<1>6. ASSUME UNCHANGED store
      PROVE  LinksSound' /\ SignalFollowsTrade'
  BY <1>6 DEF store, LinksSound, SignalFollowsTrade, Linked, LiveTrades, LiveSignals
<1> QED
  BY <1>0, <1>1, <1>2, <1>3, <1>4, <1>5, <1>6 DEF StoreNext

\* Before the first row everything agrees.
LEMMA StoreStarts ==
    ASSUME StoreInit
    PROVE  StoreInv
BY StatusSets DEF StoreInit, StoreInv, StoreTypeOK, LinksSound, SignalFollowsTrade,
   NoTrade, NoSignal, RowStatus, SignalNumber, LiveSignals

\* Signals follow their trades, whatever transactions the code issues.
THEOREM StoreAgreement == StoreSpec => []SignalFollowsTrade
<1>1. StoreInit => StoreInv
  BY StoreStarts
<1>2. StoreInv /\ [StoreNext]_store => StoreInv'
  BY StoreInduction
<1>3. StoreInv => SignalFollowsTrade
  BY DEF StoreInv
<1> QED
  BY <1>1, <1>2, <1>3, PTL DEF StoreSpec

-----------------------------------------------------------------------------
\* The store implements the book.

LEMMA StoreStartsBook ==
    ASSUME StoreInit
    PROVE  Book!BookInit
BY DEF StoreInit, Book!BookInit, Position, NoTrade

\* Each transaction is one step of the book, or none that it can see.
LEMMA StoreStepsBook ==
    ASSUME StoreTypeOK, [StoreNext]_store
    PROVE  [Book!BookNext]_([t \in Trade |-> Position(t)])
<1> DEFINE position == [t \in Trade |-> Position(t)]
<1>1. ASSUME NEW s \in Signal, NEW sid \in SignalNumber, NEW sym \in Symbol,
             InsertSignal(s, sid, sym)
      PROVE  position' = position
  BY <1>1 DEF InsertSignal, Position
<1>2. ASSUME NEW t \in Trade, NEW tid \in Nat, NEW sig \in Signal \cup {None},
             InsertTrade(t, tid, sig)
      PROVE  Book!Open(t)
  BY <1>2 DEF InsertTrade, Book!Open, Position, StoreTypeOK
<1>3. ASSUME NEW t \in Trade, NEW final \in Final, ExitTrade(t, final)
      PROVE  Book!Close(t)
  <2>1. /\ trades'[t].status = final
        /\ \A u \in Trade \ {t} : trades'[u] = trades[u]
        /\ trades[t].status \in Final \cup {"entered"}
    BY <1>3 DEF ExitTrade, StoreTypeOK, LiveTrades, Live
  <2> QED
    BY <2>1 DEF Book!Close, Position, Final
<1>4. ASSUME DeleteAllTrades
      PROVE  Book!Wipe
  BY <1>4 DEF DeleteAllTrades, Book!Wipe, Position, NoTrade, LiveTrades, StoreTypeOK,
              RowStatus, Live, Final
<1>5. ASSUME NEW S \in SUBSET Signal, DeleteSignals(S)
      PROVE  position' = position
  BY <1>5 DEF DeleteSignals, Position, StoreTypeOK
<1>6. ASSUME UNCHANGED store
      PROVE  position' = position
  BY <1>6 DEF store, Position
<1> QED
  BY <1>1, <1>2, <1>3, <1>4, <1>5, <1>6 DEF StoreNext, Book!BookNext

\* The database's rows, seen as positions, behave as the abstract ledger.
THEOREM StoreKeepsTheBook == StoreSpec => KeepsTheBook
<1>1. StoreInit => StoreTypeOK /\ Book!BookInit
  BY StoreStarts, StoreStartsBook DEF StoreInv
<1>2. StoreTypeOK /\ [StoreNext]_store =>
         StoreTypeOK' /\ [Book!BookNext]_([t \in Trade |-> Position(t)])
  BY StoreTyping, StoreStepsBook
<1> QED
  BY <1>1, <1>2, PTL DEF StoreSpec, KeepsTheBook, Book!BookSpec
=============================================================================
