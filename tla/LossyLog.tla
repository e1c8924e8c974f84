------------------------------ MODULE LossyLog ------------------------------
(***************************************************************************)
(* What internal/audit promises of the audit_logs table: entries reach it  *)
(* in the order in which they were accepted, in whole batches, each at     *)
(* most once; a batch may be lost, an entry that was not accepted never    *)
(* shows up.                                                               *)
(***************************************************************************)
EXTENDS Naturals, Sequences

CONSTANT Entry

VARIABLES
    waiting,    \* accepted, not yet written or lost
    stored      \* the table

Init == waiting = <<>> /\ stored = <<>>

Accept(e) == waiting' = Append(waiting, e) /\ UNCHANGED stored

First(n) == SubSeq(waiting, 1, n)
Rest(n)  == SubSeq(waiting, n + 1, Len(waiting))

Write(n) == waiting' = Rest(n) /\ stored' = stored \o First(n)

Lose(n) == waiting' = Rest(n) /\ UNCHANGED stored

Next ==
    \/ \E e \in Entry : Accept(e)
    \/ \E n \in 1..Len(waiting) : Write(n) \/ Lose(n)

Spec == Init /\ [][Next]_<<waiting, stored>>
=============================================================================
