-------------------------- MODULE LeaderLeaseProofs --------------------------
(***************************************************************************)
(* Proofs about LeaderLease, for every set of instances, lease duration,   *)
(* call length, clock spread and mode of the database.                     *)
(***************************************************************************)
EXTENDS LeaderLease, TLAPS

\* The actions of Next other than Tick, for an instance i.
InstanceStep(i) == Boot(i) \/ Crash(i) \/ TryAcquire(i) \/ CallFails(i)

\* A running call will write a later expiry than the lease it renews has: it has
\* read the clock after that lease was won.
RenewalExtends ==
    \A i \in Instance : Calling(i) => lease[i] <= AtLeast(-1, Duration - age[i])

\* What every step preserves: the types, that a leader's row is there and outlives
\* its lease, and that a renewal does not shorten it.  OneLeader alone is not
\* inductive: it is the row, by its single holder_id, that keeps leaders apart.
IInv == TypeOK /\ LeaderHoldsRow /\ RenewalExtends

LEMMA FloorType == Floor \in Int /\ Floor < 0
  BY LeaseAssumption DEF Floor

LEMMA AtLeastType ==
    ASSUME NEW f \in Int, NEW t \in Int
    PROVE  /\ AtLeast(f, t) \in Int
           /\ AtLeast(f, t) >= f /\ AtLeast(f, t) >= t
           /\ AtLeast(f, t) > f => AtLeast(f, t) = t
  BY DEF AtLeast

\* The expiry a call writes lies between the floor and the longest lease.
LEMMA ExpiresAtType ==
    ASSUME TypeOK, NEW i \in Instance
    PROVE  ExpiresAt(i) \in Floor..(Duration + Spread)
  BY LeaseAssumption DEF TypeOK, ExpiresAt, Floor

LEMMA InitTypes == Init => TypeOK
  BY LeaseAssumption, FloorType DEF Init, TypeOK, Floor

LEMMA TickTypes == TypeOK /\ Tick => TypeOK'
  <1> SUFFICES ASSUME TypeOK, Tick PROVE TypeOK'
    OBVIOUS
  <1>1. left' \in Floor..(Duration + Spread)
    BY LeaseAssumption DEF TypeOK, Tick, AtLeast, Floor
  <1>2. age' \in [Instance -> 0..MaxCall]
    <2>1. \A i \in Instance : (IF Calling(i) THEN age[i] + 1 ELSE age[i]) \in 0..MaxCall
      BY LeaseAssumption DEF TypeOK, Tick, Calling
    <2> QED BY <2>1 DEF Tick
  <1>3. lease' \in [Instance -> -1..Duration]
    <2>1. \A i \in Instance : AtLeast(-1, lease[i] - 1) \in -1..Duration
      BY LeaseAssumption DEF TypeOK, AtLeast
    <2> QED BY <2>1 DEF Tick
  <1> QED BY <1>1, <1>2, <1>3 DEF Tick, TypeOK

LEMMA InstanceTypes ==
    ASSUME TypeOK, NEW i \in Instance, InstanceStep(i)
    PROVE  TypeOK'
  <1>e. ExpiresAt(i) \in Floor..(Duration + Spread)
    BY ExpiresAtType
  <1>l. AtLeast(-1, Duration - age[i]) \in -1..Duration
    BY LeaseAssumption DEF TypeOK, AtLeast
  <1>f. Floor \in Floor..(Duration + Spread) /\ 0 \in 0..MaxCall /\ -1 \in -1..Duration
    BY LeaseAssumption DEF Floor
  <1>1. CASE Boot(i)
    BY <1>1 DEF Boot, TypeOK
  <1>2. CASE Crash(i)
    BY <1>2, <1>f DEF Crash, TypeOK
  <1>3. CASE Begin(i)
    BY <1>3, <1>f DEF Begin, TypeOK
  <1>4. CASE Delete(i)
    BY <1>4, <1>f DEF Delete, TypeOK
  <1>5. CASE Insert(i)
    BY <1>5, <1>e DEF Insert, TypeOK
  <1>6. CASE Update(i)
    BY <1>6, <1>e, <1>f, <1>l DEF Update, TypeOK
  <1>7. CASE CallFails(i)
    BY <1>7, <1>e, <1>f DEF CallFails, TypeOK
  <1> QED BY <1>1, <1>2, <1>3, <1>4, <1>5, <1>6, <1>7 DEF InstanceStep, TryAcquire

LEMMA UnchangedIInv == IInv /\ UNCHANGED vars => IInv'
  BY DEF IInv, TypeOK, LeaderHoldsRow, RenewalExtends, Calling, Leads, vars

\* While time passes a lease and its row lose the same, the row staying ahead.
LEMMA TickRow == IInv /\ Tick => LeaderHoldsRow'
  <1> SUFFICES ASSUME IInv, Tick, NEW i \in Instance, Leads(i)'
               PROVE  holder' = i /\ left' >= lease'[i] + skew'[i]
    BY DEF LeaderHoldsRow
  <1>1. lease'[i] = AtLeast(-1, lease[i] - 1)
    BY DEF Tick, IInv, TypeOK
  <1>2. lease'[i] = lease[i] - 1 /\ Leads(i)
    BY <1>1, LeaseAssumption DEF AtLeast, Leads, IInv, TypeOK
  <1>3. holder = i /\ left >= lease[i] + skew[i]
    BY <1>2 DEF IInv, LeaderHoldsRow
  <1>4. left' >= left - 1
    BY LeaseAssumption DEF Tick, AtLeast, Floor, IInv, TypeOK
  <1>5. holder' = holder /\ skew' = skew
    BY DEF Tick
  <1>6. lease[i] \in Int /\ skew[i] \in Int /\ left \in Int /\ left' \in Int
    BY FloorType, AtLeastType, LeaseAssumption DEF Tick, IInv, TypeOK
  <1> QED BY <1>2, <1>3, <1>4, <1>5, <1>6

\* No statement of one instance takes the row of a leader.
LEMMA InstanceRow ==
    ASSUME IInv, NEW i \in Instance, InstanceStep(i)
    PROVE  LeaderHoldsRow'
  <1> USE LeaseAssumption
  <1>1. CASE Boot(i)
    BY <1>1 DEF Boot, IInv, LeaderHoldsRow, Leads
  <1>2. CASE Crash(i)
    <2> SUFFICES ASSUME NEW j \in Instance, Leads(j)'
                 PROVE  holder' = j /\ left' >= lease'[j] + skew'[j]
      BY DEF LeaderHoldsRow
    <2>1. j # i
      BY <1>2 DEF Crash, Leads, IInv, TypeOK
    <2> QED BY <1>2, <2>1 DEF Crash, IInv, LeaderHoldsRow, Leads, TypeOK
  <1>3. CASE Begin(i)
    BY <1>3 DEF Begin, IInv, LeaderHoldsRow, Leads
  <1>4. CASE Delete(i)
    <2> SUFFICES ASSUME NEW j \in Instance, Leads(j)'
                 PROVE  holder' = j /\ left' >= lease'[j] + skew'[j]
      BY DEF LeaderHoldsRow
    <2>1. Leads(j) /\ holder = j /\ left >= lease[j] + skew[j]
      BY <1>4 DEF Delete, IInv, LeaderHoldsRow, Leads
    \* The deleter's clock, even read just now, is at most Spread ahead.
    <2>2. ~(left < skew[i] - age[i])
      BY <2>1 DEF Leads, IInv, TypeOK
    <2> QED BY <1>4, <2>1, <2>2 DEF Delete
  <1>5. CASE Insert(i)
    <2> SUFFICES ASSUME NEW j \in Instance, Leads(j)'
                 PROVE  holder' = j /\ left' >= lease'[j] + skew'[j]
      BY DEF LeaderHoldsRow
    <2>1. Leads(j) /\ holder = j /\ left >= lease[j] + skew[j]
      BY <1>5 DEF Insert, IInv, LeaderHoldsRow, Leads
    <2>2. holder # NoOne
      BY <2>1
    <2> QED BY <1>5, <2>1, <2>2 DEF Insert
  <1>6. CASE Update(i)
    <2> SUFFICES ASSUME NEW j \in Instance, Leads(j)'
                 PROVE  holder' = j /\ left' >= lease'[j] + skew'[j]
      BY DEF LeaderHoldsRow
    <2>1. CASE j = i /\ Affected(i)
      <3>1. holder = i /\ left' = ExpiresAt(i) /\ holder' = holder /\ skew' = skew
        BY <1>6, <2>1 DEF Update, Affected
      <3>2. lease'[i] = AtLeast(-1, Duration - age[i])
        BY <1>6, <2>1 DEF Update, IInv, TypeOK
      <3>3. lease'[i] = Duration - age[i]
        BY <2>1, <3>2 DEF AtLeast, Leads, IInv, TypeOK
      <3> QED BY <2>1, <3>1, <3>3 DEF ExpiresAt, IInv, TypeOK
    <2>2. CASE j # i \/ ~Affected(i)
      <3>1. lease'[j] = lease[j]
        BY <1>6, <2>2 DEF Update, IInv, TypeOK
      <3>2. Leads(j) /\ holder = j /\ left >= lease[j] + skew[j]
        BY <3>1 DEF IInv, LeaderHoldsRow, Leads
      <3>3. left' = left
        <4>1. CASE j # i
          BY <1>6, <3>2, <4>1 DEF Update
        <4>2. CASE j = i
          <5>1. driver = "changed" /\ left = ExpiresAt(i)
            BY <2>2, <3>2, <4>2 DEF Affected
          <5> QED BY <1>6, <3>2, <4>2, <5>1 DEF Update
        <4> QED BY <4>1, <4>2
      <3> QED BY <1>6, <3>1, <3>2, <3>3 DEF Update
    <2> QED BY <2>1, <2>2
  <1>7. CASE CallFails(i)
    <2> SUFFICES ASSUME NEW j \in Instance, Leads(j)'
                 PROVE  holder' = j /\ left' >= lease'[j] + skew'[j]
      BY DEF LeaderHoldsRow
    <2>1. Leads(j) /\ holder = j /\ left >= lease[j] + skew[j]
      BY <1>7 DEF CallFails, IInv, LeaderHoldsRow, Leads
    <2>2. left' # left => j = i /\ left' = ExpiresAt(i) /\ Calling(i)
      BY <1>7, <2>1 DEF CallFails, Calling
    <2>3. left' # left => left' >= lease[i] + skew[i]
      BY <2>1, <2>2 DEF IInv, RenewalExtends, ExpiresAt, AtLeast, Leads, TypeOK
    <2> QED BY <1>7, <2>1, <2>2, <2>3 DEF CallFails
  <1> QED BY <1>1, <1>2, <1>3, <1>4, <1>5, <1>6, <1>7 DEF InstanceStep, TryAcquire

\* A lease and the age of a running call move in step.
LEMMA TickRenewal == IInv /\ Tick => RenewalExtends'
  <1> SUFFICES ASSUME IInv, Tick, NEW i \in Instance, Calling(i)'
               PROVE  lease'[i] <= AtLeast(-1, Duration - age'[i])
    BY DEF RenewalExtends
  <1>1. Calling(i)
    BY DEF Tick, Calling
  <1>2. lease'[i] = AtLeast(-1, lease[i] - 1) /\ age'[i] = age[i] + 1
    BY <1>1 DEF Tick, IInv, TypeOK
  <1>3. lease[i] <= AtLeast(-1, Duration - age[i])
    BY <1>1 DEF IInv, RenewalExtends
  <1> QED BY <1>2, <1>3, LeaseAssumption DEF AtLeast, IInv, TypeOK

\* A call begins with an age of nought, and no lease is longer than Duration.
LEMMA InstanceRenewal ==
    ASSUME IInv, NEW i \in Instance, InstanceStep(i)
    PROVE  RenewalExtends'
  <1> SUFFICES ASSUME NEW j \in Instance, Calling(j)'
               PROVE  lease'[j] <= AtLeast(-1, Duration - age'[j])
    BY DEF RenewalExtends
  <1> USE LeaseAssumption
  <1>1. CASE j # i
    <2>1. lease'[j] = lease[j] /\ age'[j] = age[j] /\ pc'[j] = pc[j]
      BY <1>1 DEF InstanceStep, TryAcquire, Boot, Crash, Begin, Delete, Insert, Update,
                  CallFails, IInv, TypeOK
    <2> QED BY <2>1 DEF IInv, RenewalExtends, Calling
  <1>2. CASE j = i
    <2>1. CASE Begin(i)
      BY <1>2, <2>1 DEF Begin, AtLeast, IInv, TypeOK
    <2>2. CASE Delete(i) \/ Insert(i)
      BY <1>2, <2>2 DEF Delete, Insert, Calling, IInv, RenewalExtends
    <2>3. CASE Boot(i) \/ Crash(i) \/ Update(i) \/ CallFails(i)
      BY <1>2, <2>3 DEF Boot, Crash, Update, CallFails, Calling, IInv, TypeOK
    <2> QED BY <2>1, <2>2, <2>3 DEF InstanceStep, TryAcquire
  <1> QED BY <1>1, <1>2

\* The inductive invariant holds in every reachable state.
LEMMA Invariance == Spec => []IInv
  <1>1. Init => IInv
    BY InitTypes, LeaseAssumption
       DEF IInv, Init, LeaderHoldsRow, RenewalExtends, Leads, Calling
  <1>2. IInv /\ [Next]_vars => IInv'
    <2> SUFFICES ASSUME IInv, [Next]_vars PROVE IInv'
      OBVIOUS
    <2>1. CASE Tick
      BY <2>1, TickTypes, TickRow, TickRenewal DEF IInv
    <2>2. ASSUME NEW i \in Instance, InstanceStep(i) PROVE IInv'
      <3>1. TypeOK
        BY DEF IInv
      <3> QED BY <2>2, <3>1, InstanceTypes, InstanceRow, InstanceRenewal DEF IInv
    <2>3. CASE UNCHANGED vars
      BY <2>3, UnchangedIInv
    <2> QED BY <2>1, <2>2, <2>3 DEF Next, InstanceStep
  <1> QED BY <1>1, <1>2, PTL DEF Spec

\* The row and the times of TryAcquire keep their types (leaderlease.go).
THEOREM TypeCorrect == Spec => []TypeOK
  BY Invariance, PTL DEF IInv

\* However many instances call TryAcquire, and however their statements
\* interleave, at most one leads.
THEOREM AtMostOneLeader == Spec => []OneLeader
  <1>1. IInv => OneLeader
    BY DEF IInv, LeaderHoldsRow, OneLeader
  <1> QED BY <1>1, Invariance, PTL

\* A leader's row stays in leader_leases for as long as its lease lasts.
THEOREM RowOutlivesLease == Spec => []LeaderHoldsRow
  BY Invariance, PTL DEF IInv

-----------------------------------------------------------------------------
(* What a call returns.                                                    *)

\* Between the clock reading and the UPDATE a call has not answered: so what an INSERT
\* makes of the row belies no answer.
NotYetAnswered == \A i \in Instance : Calling(i) => answer[i] = "none"

\* The answers stay true, whichever instance does something.
LEMMA AnswersHold ==
    ASSUME TypeOK, AnswerIsTruth, NotYetAnswered, [Next]_vars
    PROVE  AnswerIsTruth' /\ NotYetAnswered'
  <1>1. CASE Tick \/ UNCHANGED vars
    BY <1>1 DEF Tick, vars, AnswerIsTruth, NotYetAnswered, Calling
  <1>2. ASSUME NEW i \in Instance, Boot(i) \/ Begin(i)
        PROVE  AnswerIsTruth' /\ NotYetAnswered'
    BY <1>2 DEF Boot, Begin, TypeOK, AnswerIsTruth, NotYetAnswered, Calling
  <1>3. ASSUME NEW i \in Instance, Crash(i)
        PROVE  AnswerIsTruth' /\ NotYetAnswered'
    BY <1>3, LeaseAssumption DEF Crash, TypeOK, AnswerIsTruth, NotYetAnswered, Calling
  <1>4. ASSUME NEW i \in Instance, Delete(i) \/ Insert(i)
        PROVE  AnswerIsTruth' /\ NotYetAnswered'
    <2>1. /\ answer' = answer /\ pc' = [pc EXCEPT ![i] = pc'[i]] /\ Calling(i)
          /\ driver' = driver
          /\ holder' \in {holder, NoOne, i}
      BY <1>4 DEF Delete, Insert, Calling, TypeOK
    <2>2. answer[i] = "none"
      BY <2>1 DEF NotYetAnswered
    <2> QED BY <2>1, <2>2, LeaseAssumption DEF TypeOK, AnswerIsTruth, NotYetAnswered, Calling
  <1>5. ASSUME NEW i \in Instance, Update(i) \/ CallFails(i)
        PROVE  AnswerIsTruth' /\ NotYetAnswered'
    <2>1. /\ holder' = holder /\ pc' = [pc EXCEPT ![i] = "idle"]
          /\ \A j \in Instance \ {i} : answer'[j] = answer[j]
          /\ answer'[i] = "lost" /\ holder = i => driver = "changed"
          /\ driver' = driver
      BY <1>5 DEF Update, CallFails, Affected, TypeOK
    <2> QED BY <2>1 DEF TypeOK, AnswerIsTruth, NotYetAnswered, Calling
  <1> QED BY <1>1, <1>2, <1>3, <1>4, <1>5 DEF Next, TryAcquire

\* With Postgres, SQL Server and SQLite, whose drivers count the rows an UPDATE matched,
\* an instance whose call returned false does not hold the row, whatever statements of
\* whichever calls were executed since; an instance that holds it all the same is one
\* that runs on MySQL (leaderlease.go:59).
THEOREM LosersHoldNothing == Spec => []AnswerIsTruth
  <1>1. Init => AnswerIsTruth /\ NotYetAnswered
    BY DEF Init, AnswerIsTruth, NotYetAnswered, Calling
  <1>2. TypeOK /\ AnswerIsTruth /\ NotYetAnswered /\ [Next]_vars
          => AnswerIsTruth' /\ NotYetAnswered'
    BY AnswersHold
  <1> QED BY <1>1, <1>2, TypeCorrect, PTL DEF Spec

-----------------------------------------------------------------------------
(* Refinement of SingleLeader.                                             *)

\* With a single leader, Leader is it.
LEMMA LeaderIs ==
    ASSUME IInv, NEW i \in Instance, Leads(i)
    PROVE  Leader = i
  BY DEF IInv, LeaderHoldsRow, Leader

LEMMA LeaderIsNoOne ==
    ASSUME \A i \in Instance : ~Leads(i)
    PROVE  Leader = NoOne
  BY DEF Leader

\* A step that makes nobody a leader who was not one maps to a stutter or to
\* StepDown.
LEMMA NoNewLeader ==
    ASSUME IInv, IInv', \A i \in Instance : Leads(i)' => Leads(i)
    PROVE  Leader' = Leader \/ Leader' = NoOne
  <1>1. CASE \E i \in Instance : Leads(i)'
    <2>1. PICK i \in Instance : Leads(i)'
      BY <1>1
    <2>2. Leader = i
      BY <2>1, LeaderIs
    <2>3. Leader' = i
      BY <2>1 DEF IInv, LeaderHoldsRow, Leader, Leads
    <2> QED BY <2>2, <2>3
  <1>2. CASE ~\E i \in Instance : Leads(i)'
    BY <1>2 DEF Leader, Leads
  <1> QED BY <1>1, <1>2

\* Only a won UPDATE makes a leader, and it does so while nobody else leads.
LEMMA StepImplements ==
    ASSUME IInv, IInv', [Next]_vars
    PROVE  [Leadership!Next]_Leader
  <1> USE LeaseAssumption
  <1>1. CASE \A i \in Instance : Leads(i)' => Leads(i)
    BY <1>1, NoNewLeader DEF Leadership!Next, Leadership!StepDown
  <1>2. CASE \E i \in Instance : Leads(i)' /\ ~Leads(i)
    <2>1. PICK i \in Instance : Leads(i)' /\ ~Leads(i)
      BY <1>2
    <2>2. Leader' = i
      BY <2>1 DEF IInv, LeaderHoldsRow, Leader, Leads
    <2>3. lease'[i] # lease[i] /\ lease'[i] >= 0
      BY <2>1 DEF Leads, IInv, TypeOK
    <2>4. ~Tick
      BY <2>1 DEF Tick, AtLeast, Leads, IInv, TypeOK
    <2>5. PICK k \in Instance : InstanceStep(k)
      BY <2>3, <2>4 DEF Next, vars, InstanceStep
    <2>6. Update(k) /\ k = i /\ holder = i
      BY <2>3, <2>5 DEF InstanceStep, TryAcquire, Boot, Crash, Begin, Delete, Insert,
                        Update, Affected, CallFails, IInv, TypeOK
    <2>7. \A j \in Instance : ~Leads(j)
      BY <2>1, <2>6 DEF IInv, LeaderHoldsRow
    <2>8. Leader = NoOne
      BY <2>7, LeaderIsNoOne
    <2> QED BY <2>2, <2>8 DEF Leadership!Next, Leadership!Elect
  <1> QED BY <1>1, <1>2

\* TryAcquire implements SingleLeader: leadership passes from one instance to
\* another only through a time without a leader.
THEOREM Implementation == Spec => ImplementsSingleLeader
  <1>1. Init => Leadership!Init
    BY LeaseAssumption DEF Init, Leadership!Init, Leader, Leads
  <1>2. IInv /\ IInv' /\ [Next]_vars => [Leadership!Next]_Leader
    BY StepImplements
  <1> QED BY <1>1, <1>2, Invariance, PTL DEF Spec, ImplementsSingleLeader, Leadership!Spec
=============================================================================
