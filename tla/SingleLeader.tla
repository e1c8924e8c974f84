---------------------------- MODULE SingleLeader ----------------------------
(***************************************************************************)
(* What the background jobs of cmd/server want from leaderlease: at any    *)
(* time at most one instance leads a job, and a new one leads only after   *)
(* the previous one has stopped leading.                                   *)
(***************************************************************************)
CONSTANTS Instance, NoOne

VARIABLE leader

TypeOK == leader \in Instance \cup {NoOne}

Init == leader = NoOne

Elect(i) == leader = NoOne /\ leader' = i

StepDown == leader' = NoOne

Next == StepDown \/ \E i \in Instance : Elect(i)

Spec == Init /\ [][Next]_leader
=============================================================================
