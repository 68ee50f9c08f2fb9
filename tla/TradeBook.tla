------------------------------ MODULE TradeBook ------------------------------
(***************************************************************************)
(* What the trade ledger promises to the people who read it, with none of  *)
(* its machinery: a position is opened once, is closed after that, never   *)
(* opens again, and disappears only when the whole book is wiped.  Closing *)
(* an already closed position is allowed (its outcome is overwritten): the *)
(* code does not forbid it.                                                *)
(***************************************************************************)
CONSTANT Trade

VARIABLE position

Stages == {"unborn", "open", "closed", "gone"}

BookTypeOK == position \in [Trade -> Stages]

BookInit == position = [t \in Trade |-> "unborn"]

Open(t) ==
    /\ position[t] = "unborn"
    /\ position' = [position EXCEPT ![t] = "open"]

Close(t) ==
    /\ position[t] \in {"open", "closed"}
    /\ position' = [position EXCEPT ![t] = "closed"]

\* Everything that was ever opened goes at once.
Wipe ==
    position' = [t \in Trade |->
                    IF position[t] = "unborn" THEN "unborn" ELSE "gone"]

BookNext == Wipe \/ \E t \in Trade : Open(t) \/ Close(t)

BookSpec == BookInit /\ [][BookNext]_position
=============================================================================
