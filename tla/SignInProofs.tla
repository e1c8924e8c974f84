---------------------------- MODULE SignInProofs ----------------------------
(***************************************************************************)
(* Theorems about signing in: LoginSession, for any number of requests,    *)
(* passwords and attempts, with and without a second factor, and           *)
(* SecondFactor, for every set of requests and keys and any number of      *)
(* enrolments and registrations. The two share no name.                    *)
(***************************************************************************)
EXTENDS LoginSession, SecondFactor, FiniteSetTheorems, TLAPS

-----------------------------------------------------------------------------
(* Counting requests.                                                      *)

\* The requests whose label under f is one of L.
At(f, L) == {q \in Request : f[q] \in L}

\* How their number changes when one request moves.
LEMMA CountMoves ==
  ASSUME NEW f, NEW g, NEW L, NEW p \in Request,
         \A q \in Request \ {p} : g[q] = f[q]
  PROVE  /\ Cardinality(At(f, L)) \in Nat
         /\ Cardinality(At(f, L)) <= Cardinality(Request)
         /\ (f[p] \in L <=> g[p] \in L) => Cardinality(At(g, L)) = Cardinality(At(f, L))
         /\ f[p] \notin L /\ g[p] \in L =>
              Cardinality(At(g, L)) = Cardinality(At(f, L)) + 1
         /\ f[p] \in L /\ g[p] \notin L =>
              Cardinality(At(g, L)) = Cardinality(At(f, L)) - 1
<1>1. /\ IsFiniteSet(At(f, L)) /\ Cardinality(At(f, L)) <= Cardinality(Request)
      /\ IsFiniteSet(At(g, L))
  BY LoginAssumption, FS_Subset DEF At
<1>2. Cardinality(At(f, L)) \in Nat
  BY <1>1, FS_CardinalityType
<1>3. (f[p] \in L <=> g[p] \in L) => At(g, L) = At(f, L)
  BY DEF At
<1>4. ASSUME f[p] \notin L, g[p] \in L
      PROVE  Cardinality(At(g, L)) = Cardinality(At(f, L)) + 1
  <2>1. At(g, L) = At(f, L) \cup {p} /\ p \notin At(f, L)
    BY <1>4 DEF At
  <2> QED BY <1>1, <2>1, FS_AddElement
<1>5. ASSUME f[p] \in L, g[p] \notin L
      PROVE  Cardinality(At(g, L)) = Cardinality(At(f, L)) - 1
  <2>1. At(g, L) = At(f, L) \ {p} /\ p \in At(f, L)
    BY <1>5 DEF At
  <2> QED BY <1>1, <2>1, FS_RemoveElement
<1> QED BY <1>1, <1>2, <1>3, <1>4, <1>5

\* Requests at labels of disjoint sets are different requests.
LEMMA CountApart ==
  ASSUME NEW f, NEW L, NEW M, L \cap M = {}
  PROVE  Cardinality(At(f, L)) + Cardinality(At(f, M)) <= Cardinality(Request)
<1>1. IsFiniteSet(At(f, L)) /\ IsFiniteSet(At(f, M)) /\ IsFiniteSet(Request)
  BY LoginAssumption, FS_Subset DEF At
<1>2. At(f, L) \cap At(f, M) = {} /\ At(f, L) \cup At(f, M) \subseteq Request
  BY DEF At
<1>3. Cardinality(At(f, L) \cup At(f, M)) <= Cardinality(Request)
  BY <1>1, <1>2, FS_Subset
<1>4. Cardinality(At(f, L) \cup At(f, M))
        = Cardinality(At(f, L)) + Cardinality(At(f, M)) - Cardinality(At(f, L) \cap At(f, M))
  BY <1>1, FS_Union
<1>5. /\ Cardinality(At(f, L) \cap At(f, M)) = 0
      /\ Cardinality(At(f, L)) \in Nat /\ Cardinality(At(f, M)) \in Nat
      /\ Cardinality(Request) \in Nat
  BY <1>1, <1>2, FS_EmptySet, FS_CardinalityType
<1> QED BY <1>3, <1>4, <1>5

\* Requests at fewer labels are no more.
LEMMA CountPart ==
  ASSUME NEW f, NEW L, NEW M, L \subseteq M
  PROVE  Cardinality(At(f, L)) <= Cardinality(At(f, M))
<1>1. IsFiniteSet(At(f, M)) /\ At(f, L) \subseteq At(f, M)
  BY LoginAssumption, FS_Subset DEF At
<1> QED BY <1>1, FS_Subset

-----------------------------------------------------------------------------
(* The invariant.                                                          *)

\* The shape of a request at a label.
Shape(label) ==
  IF label = "idle" THEN {NoRequest}
  ELSE IF label \in {"current", "set", "unflag"} THEN ChangeRequest
  ELSE LoginRequest

Label == {"idle", "hash", "user", "code", "count", "lock", "clear", "create",
          "current", "set", "unflag"}

\* Every request has its parameters.
Served == req = [p \in Request |-> req[p]]

\* TypeOK, and that every request has its parameters.
Typed ==
  /\ password \in Password /\ force \in BOOLEAN
  /\ status \in Status
  /\ failures \in Nat /\ locked \in BOOLEAN
  /\ session \in [Session -> {"none", "must", "free"}] /\ logins \in 0..MaxSessions
  /\ \A s \in Session : Live(s) => s <= logins
  /\ pc \in [Request -> Label]
  /\ Served /\ \A p \in Request : req[p] \in Shape(pc[p])
  /\ guesses \in Nat /\ faults \in Nat /\ suspect \subseteq ended /\ ended \subseteq 1..logins
  /\ owing \in BOOLEAN /\ proved \subseteq Request /\ exposed \in BOOLEAN

LEMMA TypeParts == Typed => TypeOK
<1> SUFFICES ASSUME Typed PROVE TypeOK
  OBVIOUS
<1>1. \A p \in Request :
        req[p] \in CASE pc[p] = "idle" -> {NoRequest}
                     [] Changing(p) -> ChangeRequest
                     [] OTHER -> LoginRequest
  BY DEF Typed, Shape, Changing
<1> QED BY <1>1 DEF Typed, TypeOK, Label

Examining == {"hash", "user", "code"}  \* past accountLocked, nothing wrong found yet
Counting == {"count", "lock"}          \* a wrong guess was examined and is being counted

\* A wrong guess is in the counter, about to be, or the cache failed to count it. While
\* the account is not locked, all but MaxAttempts - 1 of them belong to requests still
\* counting; once it is, those that may still add one are the requests that were let
\* past accountLocked before. Each call of the cache that failed makes it one more.
Guessing ==
  /\ guesses <= failures + Cardinality(At(pc, {"count"})) + faults
  /\ ~locked => guesses <= MaxAttempts - 1 + Cardinality(At(pc, Counting)) + faults
  /\ locked => guesses + Cardinality(At(pc, Examining))
                 <= MaxAttempts - 1 + Cardinality(Request) + faults

\* A change of the password came with a session that was created.
ChangesOfSessions == \A p \in Request : Changing(p) => req[p].session <= logins

\* Once a logout has ended a session, no change of the password has still to write to it.
NobodyBringsBack == \A s \in ended \ suspect : ~Live(s) /\ ~ChangedWith(s)

\* While a reset stands, whoever is about to overwrite the password knows what it was
\* reset to.
ResetStands ==
  owing /\ ~exposed => force /\ \A p \in Request : pc[p] = "set" => p \in proved

IInv == Typed /\ Guessing /\ ChangesOfSessions /\ NobodyBringsBack /\ ResetStands

\* Nothing has happened yet.
LEMMA InitHolds == Init => IInv
<1> SUFFICES ASSUME Init PROVE IInv
  OBVIOUS
<1>1. Typed
  <2>1. \A s \in Session : ~Live(s)
    BY DEF Init, Live
  <2>2. /\ pc \in [Request -> Label] /\ \A p \in Request : req[p] \in Shape(pc[p])
    BY DEF Init, Label, Shape
  <2>3. /\ session \in [Session -> {"none", "must", "free"}] /\ logins \in 0..MaxSessions
        /\ password \in Password
    BY LoginAssumption DEF Init
  <2>4. Served
    BY DEF Init, Served
  <2>5. status \in Status
    BY LoginAssumption DEF Init
  <2> QED BY <2>1, <2>2, <2>3, <2>4, <2>5 DEF Init, Typed
<1>2. Guessing
  <2>1. /\ Cardinality(At(pc, {"count"})) \in Nat /\ Cardinality(At(pc, Counting)) \in Nat
    BY LoginAssumption, FS_Subset, FS_CardinalityType DEF At
  <2> QED BY <2>1, LoginAssumption DEF Init, Guessing
<1>3. ChangesOfSessions /\ NobodyBringsBack /\ ResetStands
  BY DEF Init, ChangesOfSessions, NobodyBringsBack, ResetStands, Changing
<1> QED BY <1>1, <1>2, <1>3 DEF IInv

-----------------------------------------------------------------------------
(* The number of guesses.                                                  *)

\* The numbers of requests Guessing is about are numbers, and those examining a guess
\* and those counting one are not the same.
LEMMA Counts ==
  /\ Cardinality(At(pc, {"count"})) \in Nat /\ Cardinality(At(pc, Counting)) \in Nat
  /\ Cardinality(At(pc, Examining)) \in Nat /\ Cardinality(Request) \in Nat
  /\ Cardinality(At(pc, {"count"})) <= Cardinality(At(pc, Counting))
  /\ Cardinality(At(pc, Examining)) + Cardinality(At(pc, Counting)) <= Cardinality(Request)
<1>1. \A L : IsFiniteSet(At(pc, L))
  BY LoginAssumption, FS_Subset DEF At
<1>2. Examining \cap Counting = {} /\ {"count"} \subseteq Counting
  BY DEF Examining, Counting
<1> QED BY <1>1, <1>2, LoginAssumption, FS_CardinalityType, CountApart, CountPart

\* CountMoves, for the requests at labels of L before and after a step.
LEMMA StepMoves ==
  ASSUME NEW p \in Request, \A q \in Request \ {p} : pc'[q] = pc[q], NEW L
  PROVE  /\ Cardinality(At(pc, L)) \in Nat
         /\ (pc[p] \in L <=> pc'[p] \in L) => Cardinality(At(pc', L)) = Cardinality(At(pc, L))
         /\ pc[p] \notin L /\ pc'[p] \in L =>
              Cardinality(At(pc', L)) = Cardinality(At(pc, L)) + 1
         /\ pc[p] \in L /\ pc'[p] \notin L =>
              Cardinality(At(pc', L)) = Cardinality(At(pc, L)) - 1
  BY CountMoves

\* A step that examines no guess, counts none and forgets none.
LEMMA GuessesKept ==
  ASSUME IInv, NEW p \in Request, UNCHANGED lockout,
         \A q \in Request \ {p} : pc'[q] = pc[q],
         pc[p] \notin Counting, pc'[p] \notin Counting,
         pc'[p] \in Examining => pc[p] \in Examining \/ ~locked
  PROVE  Guessing'
<1>1. Cardinality(At(pc', {"count"})) = Cardinality(At(pc, {"count"}))
  BY StepMoves DEF Counting
<1>2. Cardinality(At(pc', Counting)) = Cardinality(At(pc, Counting))
  BY StepMoves
<1>3. ASSUME locked
      PROVE  Cardinality(At(pc', Examining)) <= Cardinality(At(pc, Examining))
  <2>1. CASE pc[p] \in Examining <=> pc'[p] \in Examining
    <3>1. Cardinality(At(pc', Examining)) = Cardinality(At(pc, Examining))
      BY <2>1, StepMoves
    <3> QED BY <3>1, Counts
  <2>2. CASE pc[p] \in Examining /\ pc'[p] \notin Examining
    BY <2>2, StepMoves, Counts
  <2> QED BY <1>3, <2>1, <2>2
<1>4. Cardinality(At(pc', Examining)) \in Nat
  BY LoginAssumption, FS_Subset, FS_CardinalityType DEF At
<1>5. failures' = failures /\ locked' = locked /\ guesses' = guesses /\ faults' = faults
  BY DEF lockout
<1> QED BY <1>1, <1>2, <1>3, <1>4, <1>5, Counts, LoginAssumption DEF IInv, Guessing, Typed

\* A guess is examined and goes to be counted; no guess was, where a query failed.
LEMMA WrongGuess ==
  ASSUME IInv, NEW p \in Request, UNCHANGED <<failures, locked, faults>>,
         guesses' \in {guesses, guesses + 1},
         \A q \in Request \ {p} : pc'[q] = pc[q],
         pc[p] \in Examining, pc'[p] = "count"
  PROVE  Guessing'
<1>1. Cardinality(At(pc', {"count"})) = Cardinality(At(pc, {"count"})) + 1
  BY StepMoves DEF Examining
<1>2. Cardinality(At(pc', Counting)) = Cardinality(At(pc, Counting)) + 1
  BY StepMoves DEF Examining, Counting
<1>3. Cardinality(At(pc', Examining)) = Cardinality(At(pc, Examining)) - 1
  BY StepMoves DEF Examining
<1> QED BY <1>1, <1>2, <1>3, Counts, LoginAssumption DEF IInv, Guessing, Typed

\* A wrong guess is counted, ...
LEMMA Counted ==
  ASSUME IInv, NEW p \in Request, Count(p)
  PROVE  Guessing'
<1>0. /\ pc[p] = "count" /\ failures' = failures + 1 /\ UNCHANGED <<locked, guesses, faults>>
      /\ pc'[p] = IF failures' < MaxAttempts THEN "idle" ELSE "lock"
      /\ \A q \in Request \ {p} : pc'[q] = pc[q]
  BY DEF Count, Goto, IInv, Typed
<1>1. Cardinality(At(pc', {"count"})) = Cardinality(At(pc, {"count"})) - 1
  BY <1>0, StepMoves
<1>2. Cardinality(At(pc', Examining)) = Cardinality(At(pc, Examining))
  <2>1. pc[p] \notin Examining /\ pc'[p] \notin Examining
    BY <1>0 DEF Examining
  <2> QED BY <1>0, <2>1, StepMoves
<1>3. CASE failures' < MaxAttempts
  <2>1. Cardinality(At(pc', {"count"})) <= Cardinality(At(pc', Counting))
    BY CountPart DEF Counting
  <2>2. Cardinality(At(pc', Counting)) = Cardinality(At(pc, Counting)) - 1
    BY <1>0, <1>3, StepMoves DEF Counting
  <2> QED BY <1>0, <1>1, <1>2, <1>3, <2>1, <2>2, Counts, LoginAssumption
          DEF IInv, Guessing, Typed
<1>4. CASE ~(failures' < MaxAttempts)
  <2>0. pc[p] \in Counting /\ pc'[p] \in Counting
    BY <1>0, <1>4 DEF Counting
  <2>1. Cardinality(At(pc', Counting)) = Cardinality(At(pc, Counting))
    BY <1>0, <2>0, StepMoves
  <2> QED BY <1>0, <1>1, <1>2, <2>1, Counts, LoginAssumption DEF IInv, Guessing, Typed
<1> QED BY <1>3, <1>4

\* ... and the account locked.
LEMMA Locked ==
  ASSUME IInv, NEW p \in Request, Lock(p)
  PROVE  Guessing'
<1>0. /\ pc[p] = "lock" /\ locked' = TRUE /\ UNCHANGED <<failures, guesses, faults>>
      /\ pc'[p] = "idle" /\ \A q \in Request \ {p} : pc'[q] = pc[q]
  BY DEF Lock, Goto, IInv, Typed
<1>1. Cardinality(At(pc', {"count"})) = Cardinality(At(pc, {"count"}))
  BY <1>0, StepMoves
<1>2. Cardinality(At(pc', Examining)) = Cardinality(At(pc, Examining))
  BY <1>0, StepMoves DEF Examining
<1> QED BY <1>0, <1>1, <1>2, Counts, LoginAssumption DEF IInv, Guessing, Typed

\* A guess stays uncounted or the account unlocked, for a call that failed.
LEMMA NotCounted ==
  ASSUME IInv, NEW p \in Request, CountFails(p) \/ LockFails(p)
  PROVE  Guessing'
<1>0. /\ pc[p] \in {"count", "lock"} /\ pc'[p] = "idle" /\ UNCHANGED guesses
      /\ faults' = faults + 1 /\ failures' \in {failures, failures + 1}
      /\ locked' \in {locked, TRUE}
      /\ pc[p] = "count" => locked' = locked
      /\ \A q \in Request \ {p} : pc'[q] = pc[q]
  BY DEF CountFails, LockFails, Fault, Goto, IInv, Typed
<1>1. /\ Cardinality(At(pc', {"count"})) \in Nat
      /\ Cardinality(At(pc', {"count"})) >= Cardinality(At(pc, {"count"})) - 1
  <2>1. CASE pc[p] = "count"
    <3>1. Cardinality(At(pc', {"count"})) = Cardinality(At(pc, {"count"})) - 1
      BY <1>0, <2>1, StepMoves
    <3>2. Cardinality(At(pc', {"count"})) \in Nat
      BY LoginAssumption, FS_Subset, FS_CardinalityType DEF At
    <3> QED BY <3>1, <3>2
  <2>2. CASE pc[p] = "lock"
    <3>1. Cardinality(At(pc', {"count"})) = Cardinality(At(pc, {"count"}))
      BY <1>0, <2>2, StepMoves
    <3> QED BY <3>1, Counts
  <2> QED BY <1>0, <2>1, <2>2
<1>2. Cardinality(At(pc', Counting)) = Cardinality(At(pc, Counting)) - 1
  BY <1>0, StepMoves DEF Counting
<1>3. Cardinality(At(pc', Examining)) = Cardinality(At(pc, Examining))
  BY <1>0, StepMoves DEF Examining
<1>4. guesses \in Nat /\ failures \in Nat /\ faults \in Nat /\ MaxAttempts \in Nat
  BY LoginAssumption DEF IInv, Typed
<1>5. CASE pc[p] = "count"
  BY <1>0, <1>1, <1>2, <1>3, <1>4, <1>5, Counts DEF IInv, Guessing
<1>6. CASE pc[p] = "lock"
  <2>1. guesses' <= failures' + Cardinality(At(pc', {"count"})) + faults'
    <3>1. Cardinality(At(pc', {"count"})) = Cardinality(At(pc, {"count"}))
      BY <1>0, <1>6, StepMoves
    <3> QED BY <1>0, <1>4, <3>1, Counts DEF IInv, Guessing
  <2>2. CASE ~locked
    <3>1. guesses <= MaxAttempts - 1 + Cardinality(At(pc, Counting)) + faults
      BY <2>2 DEF IInv, Guessing
    <3> QED BY <1>0, <1>2, <1>3, <1>4, <2>1, <2>2, <3>1, Counts DEF Guessing
  <2>3. CASE locked
    <3>1. guesses + Cardinality(At(pc, Examining)) <= MaxAttempts - 1 + Cardinality(Request) + faults
      BY <2>3 DEF IInv, Guessing
    <3>2. locked'
      BY <1>0, <2>3
    <3> QED BY <1>0, <1>3, <1>4, <2>1, <2>3, <3>1, <3>2, Counts DEF Guessing
  <2>4. locked \in BOOLEAN
    BY DEF IInv, Typed
  <2> QED BY <2>2, <2>3, <2>4
<1> QED BY <1>0, <1>5, <1>6

\* A request is let past the lock, since looking at it failed.
LEMMA LetPast ==
  ASSUME IInv, NEW p \in Request, UNCHANGED <<failures, locked, guesses>>, faults' = faults + 1,
         \A q \in Request \ {p} : pc'[q] = pc[q],
         pc[p] = "idle", pc'[p] = "hash"
  PROVE  Guessing'
<1>1. Cardinality(At(pc', {"count"})) = Cardinality(At(pc, {"count"}))
  BY StepMoves
<1>2. Cardinality(At(pc', Counting)) = Cardinality(At(pc, Counting))
  BY StepMoves DEF Counting
<1>3. Cardinality(At(pc', Examining)) = Cardinality(At(pc, Examining)) + 1
  BY StepMoves DEF Examining
<1> QED BY <1>1, <1>2, <1>3, Counts, LoginAssumption DEF IInv, Guessing, Typed

\* Nothing is left of the guesses.
LEMMA Forgotten ==
  ASSUME IInv, guesses' = 0, failures' \in Nat, faults' \in Nat, locked' => UNCHANGED <<locked, pc>>
  PROVE  Guessing'
<1>1. /\ Cardinality(At(pc', {"count"})) \in Nat /\ Cardinality(At(pc', Counting)) \in Nat
      /\ Cardinality(At(pc', Examining)) \in Nat
  BY LoginAssumption, FS_Subset, FS_CardinalityType DEF At
<1>2. locked' => Cardinality(At(pc', Examining)) = Cardinality(At(pc, Examining)) /\ locked
  OBVIOUS
<1> QED BY <1>1, <1>2, Counts, LoginAssumption DEF IInv, Guessing, Typed

-----------------------------------------------------------------------------
(* Steps of a login.                                                       *)

\* A step by which no change of the password begins and no reset is made good.
LEMMA NoChangeBegins ==
  ASSUME IInv, NEW p \in Request, pc'[p] \notin {"current", "set", "unflag"},
         \A q \in Request \ {p} : pc'[q] = pc[q] /\ req'[q] = req[q],
         proved \ {p} \subseteq proved', logins' \in {logins, logins + 1},
         UNCHANGED <<ended, suspect, force, owing, exposed>>,
         \A s \in ended \ suspect : ~Live(s)'
  PROVE  ChangesOfSessions' /\ NobodyBringsBack' /\ ResetStands'
<1>1. \A q \in Request : Changing(q)' => q # p /\ Changing(q) /\ req'[q] = req[q]
  BY DEF Changing
<1>2. ChangesOfSessions'
  <2>1. \A q \in Request : Changing(q) => req[q].session \in Nat
    <3>1. \A q \in Request : Changing(q) => req[q] \in ChangeRequest
      BY DEF IInv, Changing, Shape, Typed
    <3> QED BY <3>1, LoginAssumption DEF ChangeRequest, Session
  <2> QED BY <1>1, <2>1 DEF IInv, ChangesOfSessions, Typed
<1>3. NobodyBringsBack'
  BY <1>1 DEF IInv, NobodyBringsBack, ChangedWith
<1>4. ResetStands'
  BY DEF IInv, ResetStands
<1> QED BY <1>2, <1>3, <1>4

\* Where a request goes on.
LEMMA GotoMoves ==
  ASSUME IInv, NEW p \in Request, NEW label \in Label, Goto(p, label),
         label = "idle" \/ req[p] \in Shape(label)
  PROVE  /\ pc' = [pc EXCEPT ![p] = label] /\ pc'[p] = label
         /\ \A q \in Request \ {p} : pc'[q] = pc[q] /\ req'[q] = req[q]
         /\ req'[p] \in Shape(label) /\ Served'
         /\ proved \ {p} \subseteq proved' /\ proved' \subseteq proved
<1>1. pc \in [Request -> Label] /\ req = [q \in Request |-> req[q]]
  BY DEF IInv, Typed, Served
<1> QED BY <1>1 DEF Goto, Shape, Served

\* A step of one request that leaves the account and the sessions alone.
LEMMA LoginStep ==
  ASSUME IInv, NEW p \in Request, NEW label \in Label \ {"current", "set", "unflag"},
         pc' = [pc EXCEPT ![p] = label], pc'[p] = label, Served',
         \A q \in Request \ {p} : pc'[q] = pc[q] /\ req'[q] = req[q],
         req'[p] \in Shape(label),
         proved \ {p} \subseteq proved', proved' \subseteq proved,
         UNCHANGED <<row, sessions, reset>>,
         failures' \in Nat, locked' \in BOOLEAN, guesses' \in Nat, faults' \in Nat, Guessing'
  PROVE  IInv'
<1>0. UNCHANGED <<password, force, status, session, logins, ended, suspect, owing, exposed>>
  BY DEF row, sessions, reset
<1>1. Typed'
  <2>1. pc' \in [Request -> Label]
    BY DEF IInv, Typed
  <2>2. \A q \in Request : req'[q] \in Shape(pc'[q])
    BY DEF IInv, Typed
  <2>3. \A s \in Session : Live(s)' => s <= logins'
    BY <1>0 DEF IInv, Live, Typed
  <2> QED BY <1>0, <2>1, <2>2, <2>3 DEF IInv, Typed
<1>2. \A s \in ended \ suspect : ~Live(s)'
  BY <1>0 DEF IInv, NobodyBringsBack, Live
<1>3. ChangesOfSessions' /\ NobodyBringsBack' /\ ResetStands'
  BY <1>0, <1>2, NoChangeBegins
<1> QED BY <1>1, <1>3 DEF IInv

\* A login is let past accountLocked.
LEMMA BeginLoginHolds ==
  ASSUME IInv, NEW p \in Request, BeginLogin(p)
  PROVE  IInv'
<1>1. /\ pc[p] = "idle"
      /\ pc' = [pc EXCEPT ![p] = "hash"] /\ pc'[p] = "hash"
      /\ UNCHANGED <<row, failures, locked, guesses, sessions, reset, proved>>
      /\ \/ ~locked /\ faults' = faults
         \/ locked /\ faults' = faults + 1
  BY DEF BeginLogin, Fault, IInv, Typed
<1>2. /\ Served' /\ req'[p] = [force |-> FALSE]
      /\ \A q \in Request \ {p} : req'[q] = req[q] /\ pc'[q] = pc[q]
  BY <1>1 DEF BeginLogin, IInv, Typed, Served
<1>3. req'[p] \in Shape("hash")
  BY <1>2 DEF Shape, LoginRequest
<1>4. Guessing'
  <2>1. CASE ~locked /\ faults' = faults
    BY <1>1, <1>2, <2>1, GuessesKept DEF Counting, lockout
  <2>2. CASE faults' = faults + 1
    BY <1>1, <1>2, <2>2, LetPast
  <2> QED BY <1>1, <2>1, <2>2
<1>5. failures' \in Nat /\ locked' \in BOOLEAN /\ guesses' \in Nat /\ faults' \in Nat
  BY <1>1 DEF IInv, Typed
<1> QED BY <1>1, <1>2, <1>3, <1>4, <1>5, LoginStep DEF Label

\* The password or the code is right, or the guess is put down to be counted, as is an
\* error of a query.
LEMMA ExamineHolds ==
  ASSUME IInv, NEW p \in Request,
         \/ \E pw \in Password : VerifyPassword(p, pw)
         \/ \E code \in {"right", "wrong"} : VerifyCode(p, code)
         \/ LoginFails(p) /\ pc[p] \in {"hash", "code"}
  PROVE  IInv'
<1>1. /\ pc[p] \in {"hash", "code"}
      /\ UNCHANGED <<row, failures, locked, faults, sessions, reset>>
      /\ \/ \E label \in {"user", "clear"} : Goto(p, label) /\ UNCHANGED guesses
         \/ Goto(p, "count") /\ guesses' \in {guesses, guesses + 1}
  BY DEF VerifyPassword, VerifyCode, LoginFails, lockout
<1>2. \A label \in {"user", "clear", "count"} : req[p] \in Shape(label) /\ label \in Label
  BY <1>1 DEF IInv, Shape, Label, Typed
<1>3. ASSUME NEW label \in {"user", "clear"}, Goto(p, label), UNCHANGED guesses
      PROVE  IInv'
  <2>1. /\ pc' = [pc EXCEPT ![p] = label] /\ pc'[p] = label
        /\ \A q \in Request \ {p} : pc'[q] = pc[q] /\ req'[q] = req[q]
        /\ req'[p] \in Shape(label) /\ Served'
        /\ proved \ {p} \subseteq proved' /\ proved' \subseteq proved
    BY <1>2, <1>3, GotoMoves
  <2>2. Guessing'
    BY <1>1, <1>3, <2>1, GuessesKept DEF Counting, Examining, lockout
  <2> QED BY <1>1, <1>2, <1>3, <2>1, <2>2, LoginStep DEF IInv, Typed
<1>4. ASSUME Goto(p, "count"), guesses' \in {guesses, guesses + 1}
      PROVE  IInv'
  <2>1. /\ pc' = [pc EXCEPT ![p] = "count"] /\ pc'[p] = "count"
        /\ \A q \in Request \ {p} : pc'[q] = pc[q] /\ req'[q] = req[q]
        /\ req'[p] \in Shape("count") /\ Served'
        /\ proved \ {p} \subseteq proved' /\ proved' \subseteq proved
    BY <1>2, <1>4, GotoMoves
  <2>2. Guessing'
    BY <1>1, <1>4, <2>1, WrongGuess DEF Examining
  <2>3. "count" \in Label \ {"current", "set", "unflag"}
    BY DEF Label
  <2>4. failures' \in Nat /\ locked' \in BOOLEAN /\ guesses' \in Nat /\ faults' \in Nat
    BY <1>1, <1>4 DEF IInv, Typed
  <2> QED BY <1>1, <2>1, <2>2, <2>3, <2>4, LoginStep
<1> QED BY <1>1, <1>3, <1>4

\* The flags of the account are read.
LEMMA GetUserHolds ==
  ASSUME IInv, NEW p \in Request, GetUser(p)
  PROVE  IInv'
<1> DEFINE label == IF MFA THEN "code" ELSE "clear"
<1>1. /\ pc[p] = "user" /\ pc' = [pc EXCEPT ![p] = label] /\ pc'[p] = label
      /\ UNCHANGED <<row, lockout, sessions, reset, proved>>
      /\ req' = [req EXCEPT ![p].force = force]
  BY DEF GetUser, IInv, Typed
<1>2. req[p] \in LoginRequest /\ force \in BOOLEAN
  BY <1>1 DEF IInv, Shape, Typed
<1>3. /\ Served' /\ req'[p] = [req[p] EXCEPT !.force = force]
      /\ \A q \in Request \ {p} : req'[q] = req[q] /\ pc'[q] = pc[q]
  BY <1>1 DEF IInv, Typed, Served
<1>4. label \in {"code", "clear"}
  OBVIOUS
<1>5. req'[p] \in LoginRequest
  BY <1>2, <1>3 DEF LoginRequest
<1> HIDE DEF label
<1>6. req'[p] \in Shape(label) /\ label \in Label
  BY <1>4, <1>5 DEF Shape, Label
<1>7. Guessing'
  BY <1>1, <1>3, <1>4, GuessesKept DEF Counting, Examining
<1> QED BY <1>1, <1>3, <1>4, <1>6, <1>7, LoginStep DEF lockout, IInv, Typed

\* A request answered without writing anything.
LEMMA AnsweredHolds ==
  ASSUME IInv, NEW p \in Request, pc[p] \notin Counting, Goto(p, "idle"),
         UNCHANGED <<row, lockout, sessions, reset>>
  PROVE  IInv'
<1>1. /\ pc' = [pc EXCEPT ![p] = "idle"] /\ pc'[p] = "idle"
      /\ \A q \in Request \ {p} : pc'[q] = pc[q] /\ req'[q] = req[q]
      /\ req'[p] \in Shape("idle") /\ Served'
      /\ proved \ {p} \subseteq proved' /\ proved' \subseteq proved
  BY GotoMoves DEF Label
<1>2. Guessing'
  BY <1>1, GuessesKept DEF Counting, Examining
<1>3. "idle" \in Label \ {"current", "set", "unflag"}
  BY DEF Label
<1>4. failures' \in Nat /\ locked' \in BOOLEAN /\ guesses' \in Nat /\ faults' \in Nat
  BY DEF lockout, IInv, Typed
<1> QED BY <1>1, <1>2, <1>3, <1>4, LoginStep

\* The counter and the lock are written, or a call of the cache fails.
LEMMA LockoutHolds ==
  ASSUME IInv, NEW p \in Request,
         Count(p) \/ Lock(p) \/ CountFails(p) \/ LockFails(p) \/ ClearFailures(p)
  PROVE  IInv'
<1>1. failures' \in Nat /\ locked' \in BOOLEAN /\ guesses' \in Nat /\ faults' \in Nat
  <2>1. failures \in Nat /\ locked \in BOOLEAN /\ guesses \in Nat /\ faults \in Nat
    BY DEF IInv, Typed
  <2>2. CASE Count(p)
    BY <2>1, <2>2 DEF Count
  <2>3. CASE Lock(p)
    BY <2>1, <2>3 DEF Lock
  <2>4. CASE ClearFailures(p)
    <3>1. CASE failures' = 0 /\ locked' = FALSE /\ guesses' = 0 /\ faults' = 0
      BY <3>1
    <3>2. CASE UNCHANGED lockout
      BY <2>1, <3>2 DEF lockout
    <3> QED BY <2>4, <3>1, <3>2 DEF ClearFailures
  <2>5. CASE CountFails(p)
    BY <2>1, <2>5 DEF CountFails, Fault
  <2>6. CASE LockFails(p)
    <3>1. locked' \in {locked, TRUE} /\ failures' = failures /\ guesses' = guesses
      BY <2>6 DEF LockFails
    <3>2. locked' \in BOOLEAN
      BY <2>1, <3>1
    <3> QED BY <2>1, <2>6, <3>1, <3>2 DEF LockFails, Fault
  <2> QED BY <2>2, <2>3, <2>4, <2>5, <2>6
<1>2. /\ UNCHANGED <<row, sessions, reset>> /\ pc[p] \in {"count", "lock", "clear"}
      /\ \E label \in {"idle", "lock", "create"} : Goto(p, label)
  BY DEF Count, Lock, CountFails, LockFails, ClearFailures
<1>g. Guessing'
  <2>1. CASE Count(p)
    BY <2>1, Counted
  <2>2. CASE Lock(p)
    BY <2>2, Locked
  <2>3. CASE CountFails(p) \/ LockFails(p)
    BY <2>3, NotCounted
  <2>4. CASE ClearFailures(p) /\ guesses' = 0
    <3>1. CASE ~locked'
      BY <1>1, <2>4, <3>1, Forgotten
    <3>2. CASE locked'
      <4>1. /\ UNCHANGED lockout /\ pc[p] = "clear" /\ pc'[p] = "create"
            /\ \A q \in Request \ {p} : pc'[q] = pc[q]
        BY <2>4, <3>2 DEF ClearFailures, Goto, IInv, Typed
      <4> QED BY <4>1, GuessesKept DEF Counting, Examining
    <3> QED BY <3>1, <3>2
  <2>5. CASE ClearFailures(p) /\ guesses' # 0
    <3>1. /\ UNCHANGED lockout /\ pc[p] = "clear" /\ pc'[p] = "create"
          /\ \A q \in Request \ {p} : pc'[q] = pc[q]
      BY <2>5 DEF ClearFailures, Goto, IInv, Typed
    <3> QED BY <3>1, GuessesKept DEF Counting, Examining
  <2> QED BY <2>1, <2>2, <2>3, <2>4, <2>5
<1>3. ASSUME NEW label \in {"idle", "lock", "create"}, Goto(p, label)
      PROVE  IInv'
  <2>1. req[p] \in Shape(label) \/ label = "idle"
    BY <1>2 DEF IInv, Shape, Typed
  <2>2. label \in Label
    BY DEF Label
  <2>3. /\ pc' = [pc EXCEPT ![p] = label] /\ pc'[p] = label
        /\ \A q \in Request \ {p} : pc'[q] = pc[q] /\ req'[q] = req[q]
        /\ req'[p] \in Shape(label) /\ Served'
        /\ proved \ {p} \subseteq proved' /\ proved' \subseteq proved
    BY <1>3, <2>1, <2>2, GotoMoves
  <2> QED BY <1>1, <1>g, <1>2, <2>2, <2>3, LoginStep
<1> QED BY <1>2, <1>3

\* The session of a login is one that no logout and no change knows.
LEMMA CreateHolds ==
  ASSUME IInv, NEW p \in Request, CreateSession(p)
  PROVE  IInv'
<1>0. /\ pc[p] = "create" /\ logins < MaxSessions /\ logins' = logins + 1 /\ logins \in Nat
      /\ UNCHANGED <<password, force, status, failures, locked, guesses, faults>>
      /\ UNCHANGED <<ended, suspect, owing, exposed>>
      /\ Goto(p, "idle")
  BY LoginAssumption DEF CreateSession, row, lockout, reset, IInv, Typed
<1>1. /\ pc' = [pc EXCEPT ![p] = "idle"] /\ pc'[p] = "idle"
      /\ \A q \in Request \ {p} : pc'[q] = pc[q] /\ req'[q] = req[q]
      /\ req'[p] \in Shape("idle") /\ Served'
      /\ proved \ {p} \subseteq proved' /\ proved' \subseteq proved
  BY <1>0, GotoMoves DEF Label
<1>2. PICK v \in {"must", "free"} : session' = [session EXCEPT ![logins + 1] = v]
  BY <1>0 DEF CreateSession
<1>3. /\ session' \in [Session -> {"none", "must", "free"}]
      /\ \A s \in Session : s # logins + 1 => session'[s] = session[s]
  BY <1>2 DEF IInv, Typed
<1>4. Typed'
  <2>1. pc' \in [Request -> Label]
    BY <1>1 DEF IInv, Label, Typed
  <2>2. \A q \in Request : req'[q] \in Shape(pc'[q])
    BY <1>1 DEF IInv, Typed
  <2>3. \A s \in Session : Live(s)' => s <= logins'
    BY <1>0, <1>3, LoginAssumption DEF IInv, Live, Session, Typed
  <2>4. logins' \in 0..MaxSessions /\ ended' \subseteq 1..logins'
    BY <1>0, LoginAssumption DEF IInv, Typed
  <2> QED BY <1>0, <1>1, <1>3, <2>1, <2>2, <2>3, <2>4 DEF IInv, Typed
<1>5. Guessing'
  BY <1>0, <1>1, GuessesKept DEF Counting, Examining, lockout
<1>6. \A s \in ended \ suspect : ~Live(s)'
  <2>1. logins + 1 \notin ended /\ ended \subseteq Session
    BY <1>0, LoginAssumption DEF IInv, Session, Typed
  <2> QED BY <1>3, <2>1 DEF IInv, NobodyBringsBack, Live
<1>7. ChangesOfSessions' /\ NobodyBringsBack' /\ ResetStands'
  BY <1>0, <1>1, <1>6, NoChangeBegins
<1> QED BY <1>1, <1>4, <1>5, <1>7 DEF IInv

-----------------------------------------------------------------------------
(* Steps of a change of the password.                                      *)

\* A session a change names is one of those created, and not one a logout has ended.
LEMMA ChangeSession ==
  ASSUME IInv, NEW p \in Request, Changing(p)
  PROVE  /\ req[p] \in ChangeRequest /\ req[p].session \in Session
         /\ req[p].session <= logins /\ logins \in Nat
         /\ req[p].session \notin ended \ suspect
<1>1. req[p] \in ChangeRequest
  BY DEF IInv, Typed, Shape, Changing
<1>2. req[p].session \notin ended \ suspect
  BY DEF IInv, NobodyBringsBack, ChangedWith
<1> QED BY <1>1, <1>2, LoginAssumption DEF IInv, ChangeRequest, ChangesOfSessions, Typed

\* A change begins with a session that is valid, so it was not logged out.
LEMMA BeginChangeHolds ==
  ASSUME IInv, NEW p \in Request, NEW s \in Session, BeginChange(p, s)
  PROVE  IInv'
<1>1. /\ pc[p] = "idle" /\ Live(s)
      /\ pc' = [pc EXCEPT ![p] = "current"] /\ pc'[p] = "current"
      /\ UNCHANGED <<row, lockout, sessions, reset, proved>>
  BY DEF BeginChange, IInv, Typed
<1>u. /\ UNCHANGED <<password, force, status, failures, locked, guesses, faults>>
      /\ UNCHANGED <<session, logins, ended, suspect, owing, exposed, proved>>
  BY <1>1 DEF row, lockout, sessions, reset
<1>2. /\ Served' /\ req'[p] = [session |-> s]
      /\ \A q \in Request \ {p} : req'[q] = req[q] /\ pc'[q] = pc[q]
  BY <1>1 DEF BeginChange, IInv, Typed, Served
<1>3. req'[p] \in ChangeRequest /\ req'[p].session = s
  BY <1>2 DEF ChangeRequest
<1>4. Typed'
  <2>1. pc' \in [Request -> Label]
    BY <1>1 DEF IInv, Typed, Label
  <2>2. \A q \in Request : req'[q] \in Shape(pc'[q])
    BY <1>1, <1>2, <1>3 DEF IInv, Typed, Shape
  <2>3. \A t \in Session : Live(t)' => t <= logins'
    BY <1>u DEF IInv, Live, Typed
  <2> QED BY <1>u, <1>2, <2>1, <2>2, <2>3 DEF IInv, Typed
<1>5. Guessing'
  BY <1>1, <1>2, GuessesKept DEF Counting, Examining
<1>6. ASSUME NEW q \in Request, Changing(q)'
      PROVE  req'[q].session <= logins /\ req'[q].session \notin ended \ suspect
  <2>1. CASE q = p
    <3>1. s <= logins
      BY <1>1 DEF IInv, Typed
    <3>2. s \notin ended \ suspect
      BY <1>1 DEF IInv, NobodyBringsBack
    <3> QED BY <1>3, <2>1, <3>1, <3>2
  <2>2. CASE q # p
    <3>1. Changing(q) /\ req'[q] = req[q]
      BY <1>2, <1>6, <2>2 DEF Changing
    <3> QED BY <3>1, ChangeSession
  <2> QED BY <2>1, <2>2
<1>7. ChangesOfSessions' /\ NobodyBringsBack'
  <2>1. \A t \in ended \ suspect : ~Live(t)'
    BY <1>u DEF IInv, NobodyBringsBack, Live
  <2> QED BY <1>u, <1>6, <2>1 DEF ChangesOfSessions, NobodyBringsBack, ChangedWith
<1>8. ResetStands'
  <2>1. \A q \in Request : pc'[q] = "set" => pc[q] = "set"
    BY <1>1, <1>2
  <2> QED BY <1>u, <2>1 DEF IInv, ResetStands
<1> QED BY <1>4, <1>5, <1>7, <1>8 DEF IInv

\* A change goes on with the session it came with, or ends.
LEMMA ChangeGoesOn ==
  ASSUME IInv, NEW p \in Request, Changing(p), NEW label \in {"set", "unflag", "idle"},
         pc' = [pc EXCEPT ![p] = label], Served', req'[p] \in Shape(label),
         \A q \in Request \ {p} : req'[q] = req[q], label # "idle" => req'[p] = req[p],
         UNCHANGED <<session, logins, ended, suspect, lockout, exposed>>,
         password' \in Password, force' \in BOOLEAN, status' = status, owing' \in BOOLEAN,
         proved' \subseteq Request, ResetStands'
  PROVE  IInv'
<1>0. UNCHANGED <<failures, locked, guesses, faults>>
  BY DEF lockout
<1>1. /\ pc'[p] = label /\ \A q \in Request \ {p} : pc'[q] = pc[q]
      /\ pc' \in [Request -> Label]
  BY DEF IInv, Typed, Label
<1>2. Typed'
  <2>1. \A q \in Request : req'[q] \in Shape(pc'[q])
    BY <1>1 DEF IInv, Typed
  <2>2. \A t \in Session : Live(t)' => t <= logins'
    BY DEF IInv, Live, Typed
  <2> QED BY <1>0, <1>1, <2>1, <2>2 DEF IInv, Typed
<1>3. Guessing'
  BY <1>1, GuessesKept DEF Counting, Examining, Changing
<1>4. \A q \in Request : Changing(q)' => Changing(q) /\ req'[q] = req[q]
  <2>1. label = "idle" => ~Changing(p)'
    BY <1>1 DEF Changing
  <2> QED BY <1>1, <2>1 DEF Changing
<1>5. ChangesOfSessions'
  BY <1>4 DEF IInv, ChangesOfSessions
<1>6. NobodyBringsBack'
  BY <1>4 DEF IInv, NobodyBringsBack, ChangedWith, Live
<1> QED BY <1>2, <1>3, <1>5, <1>6 DEF IInv

\* The current password is checked, ...
LEMMA VerifyCurrentHolds ==
  ASSUME IInv, NEW p \in Request, NEW current \in Password, VerifyCurrent(p, current)
  PROVE  IInv'
<1>1. pc[p] = "current" /\ Changing(p) /\ UNCHANGED <<row, lockout, sessions, reset>>
  BY DEF VerifyCurrent, Changing
<1>2. CASE Goto(p, "idle")
  BY <1>1, <1>2, AnsweredHolds DEF Counting
<1>3. CASE ~Goto(p, "idle")
  <2>1. /\ pc' = [pc EXCEPT ![p] = "set"] /\ proved' = proved \cup {p} /\ req' = req
    BY <1>3 DEF VerifyCurrent
  <2>2. UNCHANGED <<password, force, status, session, logins, ended, suspect, owing, exposed>>
    BY <1>1 DEF row, sessions, reset
  <2>3. ResetStands'
    <3>1. \A q \in Request : pc'[q] = "set" => q = p \/ pc[q] = "set"
      BY <2>1 DEF IInv, Typed
    <3> QED BY <2>1, <2>2, <3>1 DEF IInv, ResetStands
  <2>4. Served' /\ req'[p] \in Shape("set")
    <3>1. Served'
      BY <2>1 DEF IInv, Typed, Served
    <3> QED BY <1>1, <2>1, <3>1, ChangeSession DEF Shape
  <2>5. password' \in Password /\ force' \in BOOLEAN /\ owing' \in BOOLEAN /\ proved' \subseteq Request
    BY <2>1, <2>2 DEF IInv, Typed
  <2> QED BY <1>1, <2>1, <2>2, <2>3, <2>4, <2>5, ChangeGoesOn
<1> QED BY <1>2, <1>3

\* Whoever overwrites the password while a reset stands makes it good.
LEMMA OverwriteMakesGood ==
  ASSUME IInv, NEW p \in Request, NEW new \in Password, pc[p] = "set", Overwrite(p, new),
         exposed' = exposed
  PROVE  /\ password' \in Password /\ force' \in BOOLEAN /\ owing' \in BOOLEAN
         /\ proved' \subseteq Request /\ ResetStands'
<1>1. owing /\ ~exposed => p \in proved
  BY DEF IInv, ResetStands
<1> QED BY <1>1 DEF Overwrite, ResetStands, IInv, Typed

\* ... the new one written, which pays what the reset left owing if the one before was
\* known, ...
LEMMA SetPasswordHolds ==
  ASSUME IInv, NEW p \in Request, NEW new \in Password, SetPassword(p, new)
  PROVE  IInv'
<1>1. /\ pc[p] = "set" /\ Changing(p) /\ Overwrite(p, new)
      /\ pc' = [pc EXCEPT ![p] = "unflag"]
      /\ UNCHANGED <<status, lockout, session, logins, ended, suspect, req, exposed>>
  BY DEF SetPassword, Changing, sessions
<1>2. Served' /\ req'[p] \in Shape("unflag")
  <2>1. Served'
    BY <1>1 DEF IInv, Typed, Served
  <2> QED BY <1>1, <2>1, ChangeSession DEF Shape
<1> QED BY <1>1, <1>2, OverwriteMakesGood, ChangeGoesOn

\* ... and the session's flag cleared, which revives none that was logged out.
LEMMA ClearMustChangeHolds ==
  ASSUME IInv, NEW p \in Request, ClearMustChange(p)
  PROVE  IInv'
<1>1. /\ pc[p] = "unflag" /\ Changing(p) /\ Goto(p, "idle")
      /\ session' \in {session, [session EXCEPT ![req[p].session] = "free"]}
      /\ UNCHANGED <<password, force, status, lockout, logins, ended, suspect, owing, exposed>>
  BY DEF ClearMustChange, Changing, row, reset
<1>2. /\ pc' = [pc EXCEPT ![p] = "idle"] /\ pc'[p] = "idle"
      /\ \A q \in Request \ {p} : pc'[q] = pc[q] /\ req'[q] = req[q]
      /\ req'[p] \in Shape("idle") /\ Served'
      /\ proved \ {p} \subseteq proved' /\ proved' \subseteq proved
  BY <1>1, GotoMoves DEF Label
<1>3. /\ session' \in [Session -> {"none", "must", "free"}]
      /\ \A s \in Session : s # req[p].session => session'[s] = session[s]
  BY <1>1, ChangeSession DEF IInv, Typed
<1>4. Typed'
  <2>1. pc' \in [Request -> Label]
    BY <1>2 DEF IInv, Typed, Label
  <2>2. \A q \in Request : req'[q] \in Shape(pc'[q])
    BY <1>2 DEF IInv, Typed
  <2>3. \A s \in Session : Live(s)' => s <= logins'
    BY <1>1, <1>3, ChangeSession DEF IInv, Typed, Live
  <2>4. UNCHANGED <<failures, locked, guesses, faults>>
    BY <1>1 DEF lockout
  <2> QED BY <1>1, <1>2, <1>3, <2>1, <2>2, <2>3, <2>4 DEF IInv, Typed
<1>5. Guessing'
  BY <1>1, <1>2, GuessesKept DEF Counting, Examining
<1>6. \A s \in ended \ suspect : ~Live(s)'
  <2>1. ended \subseteq Session
    BY LoginAssumption DEF IInv, Typed, Session
  <2> QED BY <1>1, <1>3, <2>1, ChangeSession DEF IInv, NobodyBringsBack, Live
<1>7. ChangesOfSessions' /\ NobodyBringsBack' /\ ResetStands'
  BY <1>1, <1>2, <1>6, NoChangeBegins
<1> QED BY <1>4, <1>5, <1>7 DEF IInv

\* A query of the change fails, before or after it is executed.
LEMMA ChangeFailsHolds ==
  ASSUME IInv, NEW p \in Request, ChangeFails(p)
  PROVE  IInv'
<1>1. CASE Goto(p, "idle") /\ UNCHANGED <<password, force, owing>>
  BY <1>1, AnsweredHolds DEF ChangeFails, Counting, row, reset
<1>2. CASE ~(Goto(p, "idle") /\ UNCHANGED <<password, force, owing>>)
  <2>1. PICK new \in Password : Overwrite(p, new)
    BY <1>2 DEF ChangeFails
  <2>2. /\ pc[p] = "set" /\ Changing(p)
        /\ pc' = [pc EXCEPT ![p] = "idle"] /\ req' = [req EXCEPT ![p] = NoRequest]
        /\ UNCHANGED <<status, lockout, session, logins, ended, suspect, exposed>>
    BY <1>2 DEF ChangeFails, Changing, sessions
  <2>3. /\ Served' /\ req'[p] \in Shape("idle")
        /\ \A q \in Request \ {p} : req'[q] = req[q]
    BY <2>2 DEF IInv, Typed, Served, Shape
  <2> QED BY <2>1, <2>2, <2>3, OverwriteMakesGood, ChangeGoesOn
<1> QED BY <1>1, <1>2

-----------------------------------------------------------------------------
(* Steps that move no request.                                             *)

\* A step that moves no request and begins no session.
LEMMA NobodyMoves ==
  ASSUME IInv, UNCHANGED <<pc, req, logins>>,
         password' \in Password, force' \in BOOLEAN, status' \in Status,
         owing' \in BOOLEAN, exposed' \in BOOLEAN, proved' \subseteq Request,
         failures' \in Nat, locked' \in BOOLEAN, guesses' \in Nat, faults' \in Nat, Guessing',
         session' \in [Session -> {"none", "must", "free"}],
         \A s \in Session : Live(s)' => Live(s),
         ended' \subseteq 1..logins, suspect' \subseteq ended',
         NobodyBringsBack', ResetStands'
  PROVE  IInv'
<1>1. Typed'
  <2>1. \A s \in Session : Live(s)' => s <= logins'
    BY DEF IInv, Typed
  <2>2. Served' /\ \A p \in Request : req'[p] \in Shape(pc'[p])
    BY DEF IInv, Typed, Served
  <2> QED BY <2>1, <2>2 DEF IInv, Typed
<1>2. ChangesOfSessions'
  BY DEF IInv, ChangesOfSessions, Changing
<1> QED BY <1>1, <1>2 DEF IInv

\* Logouts, carried out or not, and sessions that expire.
LEMMA SessionEnds ==
  ASSUME IInv, NEW s \in Session,
         ExpireSession(s) \/ \E p \in Request : Logout(p, s)
  PROVE  IInv'
<1>1. /\ session' \in {session, [session EXCEPT ![s] = "none"]}
      /\ UNCHANGED <<pc, req, logins, proved, owing, exposed>>
      /\ UNCHANGED <<password, force, status, failures, locked, guesses, faults>>
  BY DEF ExpireSession, Logout, row, lockout, reset
<1>2. session \in [Session -> {"none", "must", "free"}]
  BY DEF IInv, Typed
<1>3. /\ session' \in [Session -> {"none", "must", "free"}]
      /\ \A t \in Session : Live(t)' => Live(t)
  BY <1>1, <1>2 DEF Live
<1>4. Guessing'
  BY <1>1 DEF IInv, Guessing
<1>5. \A t \in Session : ChangedWith(t)' <=> ChangedWith(t)
  BY <1>1 DEF ChangedWith, Changing
<1>6. /\ ended' = ended \/ (ended' = ended \cup {s} /\ s <= logins)
      /\ suspect' \subseteq ended'
      /\ \A t \in ended' \ suspect' :
            t \in ended \ suspect \/ (t = s /\ ~Live(s)' /\ ~ChangedWith(s))
  <2>0. suspect \subseteq ended
    BY DEF IInv, Typed
  <2>1. CASE ExpireSession(s)
    BY <2>0, <2>1 DEF ExpireSession
  <2>2. ASSUME NEW p \in Request, Logout(p, s)
        PROVE  /\ s <= logins /\ ended' = ended \cup {s} /\ suspect' \subseteq ended'
               /\ \A t \in ended' \ suspect' :
                    t \in ended \ suspect \/ (t = s /\ ~Live(s)' /\ ~ChangedWith(s))
    <3>1. CASE /\ session' = [session EXCEPT ![s] = "none"]
               /\ suspect' = IF ChangedWith(s) THEN suspect \cup {s} ELSE suspect \ {s}
      <4>1. ~Live(s)'
        BY <1>2, <3>1 DEF Live
      <4> QED BY <2>0, <2>2, <3>1, <4>1 DEF Logout
    <3>2. CASE suspect' = suspect \cup {s}
      BY <2>0, <2>2, <3>2 DEF Logout
    <3> QED BY <2>2, <3>1, <3>2 DEF Logout
  <2> QED BY <2>1, <2>2
<1>7. ended' \subseteq 1..logins
  <2>1. s \in Nat /\ 1 <= s /\ logins \in Nat /\ ended \subseteq 1..logins
    BY LoginAssumption DEF IInv, Typed, Session
  <2>2. s <= logins => s \in 1..logins
    BY <2>1
  <2> QED BY <1>6, <2>1, <2>2
<1>8. NobodyBringsBack'
  <2>1. ended \subseteq Session
    BY LoginAssumption DEF IInv, Typed, Session
  <2>2. ASSUME NEW t \in ended' \ suspect'
        PROVE  ~Live(t)' /\ ~ChangedWith(t)'
    <3>1. CASE t \in ended \ suspect
      BY <1>3, <1>5, <2>1, <3>1 DEF IInv, NobodyBringsBack
    <3>2. CASE t = s /\ ~Live(s)' /\ ~ChangedWith(s)
      <4>1. ~ChangedWith(s)'
        BY <1>5, <3>2
      <4>2. ~Live(t)'
        BY <3>2
      <4>3. ~ChangedWith(t)'
        BY <3>2, <4>1
      <4> QED BY <4>2, <4>3
    <3> QED BY <1>6, <3>1, <3>2
  <2> QED BY <2>2 DEF NobodyBringsBack
<1>9. ResetStands'
  BY <1>1 DEF IInv, ResetStands
<1> QED BY <1>1, <1>3, <1>4, <1>6, <1>7, <1>8, <1>9, NobodyMoves DEF IInv, Typed

\* The administrator's reset and changes of the status.
LEMMA AdministratorHolds ==
  ASSUME IInv, NEW p \in Request, ResetPassword(p) \/ \E st \in Status : SetStatus(p, st)
  PROVE  IInv'
<1>1. /\ UNCHANGED <<pc, req, session, logins, ended, suspect, failures, locked, guesses, faults>>
      /\ password' \in {password, Default} /\ force' \in {force, TRUE}
      /\ status' \in Status
      /\ owing' \in {owing, TRUE} /\ proved' \subseteq Request /\ exposed' \in BOOLEAN
  <2>1. CASE ResetPassword(p)
    BY <2>1 DEF ResetPassword, Checked, lockout, sessions, IInv, Typed
  <2>2. CASE \E st \in Status : SetStatus(p, st)
    BY <2>2 DEF SetStatus, lockout, sessions, reset, IInv, Typed
  <2> QED BY <2>1, <2>2
<1>2. ResetStands'
  <2>1. CASE ResetPassword(p)
    BY <2>1 DEF ResetPassword, Checked, ResetStands
  <2>2. CASE \E st \in Status : SetStatus(p, st)
    BY <2>2 DEF SetStatus, reset, IInv, ResetStands
  <2> QED BY <2>1, <2>2
<1>3. NobodyBringsBack'
  BY <1>1 DEF IInv, NobodyBringsBack, Live, ChangedWith, Changing
<1>4. Guessing' /\ \A s \in Session : Live(s)' => Live(s)
  BY <1>1 DEF IInv, Guessing, Live
<1>5. password' \in Password /\ force' \in BOOLEAN /\ owing' \in BOOLEAN
  BY <1>1, LoginAssumption DEF IInv, Typed
<1> QED BY <1>1, <1>2, <1>3, <1>4, <1>5, NobodyMoves DEF IInv, Typed

\* The entries of the counter and the lock expire.
LEMMA LockoutExpires ==
  ASSUME IInv, ExpireFailures \/ ExpireLock
  PROVE  IInv'
<1>1. /\ UNCHANGED <<password, force, status, session, logins, ended, suspect>>
      /\ UNCHANGED <<pc, req, owing, exposed, proved>>
      /\ failures' \in {failures, 0} /\ locked' \in {locked, FALSE}
      /\ guesses' = 0 /\ faults' = 0
      /\ locked' => locked' = locked
  BY DEF ExpireFailures, ExpireLock, row, sessions, reset
<1>2. failures' \in Nat /\ locked' \in BOOLEAN /\ guesses' \in Nat /\ faults' \in Nat
  <2>1. failures \in Nat /\ locked \in BOOLEAN
    BY DEF IInv, Typed
  <2>2. failures' \in Nat /\ guesses' \in Nat /\ faults' \in Nat
    BY <1>1, <2>1
  <2>3. locked' \in BOOLEAN
    <3>1. CASE locked' = locked
      BY <2>1, <3>1
    <3>2. CASE locked' # locked
      BY <1>1, <3>2
    <3> QED BY <3>1, <3>2
  <2> QED BY <2>2, <2>3
<1>3. Guessing'
  BY <1>1, <1>2, Forgotten
<1>4. NobodyBringsBack' /\ ResetStands'
  BY <1>1 DEF IInv, NobodyBringsBack, Live, ChangedWith, Changing, ResetStands
<1>5. \A s \in Session : Live(s)' => Live(s)
  BY <1>1 DEF Live
<1> QED BY <1>1, <1>2, <1>3, <1>4, <1>5, NobodyMoves DEF IInv, Typed

-----------------------------------------------------------------------------
\* An error ends a login.
LEMMA LoginFailsHolds ==
  ASSUME IInv, NEW p \in Request, LoginFails(p)
  PROVE  IInv'
<1>1. CASE pc[p] \in {"hash", "code"}
  BY <1>1, ExamineHolds
<1>2. CASE pc[p] \in {"user", "create"}
  BY <1>2, AnsweredHolds DEF LoginFails, Counting
<1> QED BY <1>1, <1>2 DEF LoginFails

\* Every step keeps the invariant.
LEMMA StepHolds ==
  ASSUME IInv, [Next]_vars
  PROVE  IInv'
<1>1. ASSUME NEW p \in Request, Serve(p)
      PROVE  IInv'
  BY <1>1, BeginLoginHolds, ExamineHolds, GetUserHolds, LockoutHolds, CreateHolds,
     LoginFailsHolds, SessionEnds, BeginChangeHolds, VerifyCurrentHolds, SetPasswordHolds,
     ClearMustChangeHolds, ChangeFailsHolds, AdministratorHolds DEF Serve
<1>2. CASE ExpireFailures \/ ExpireLock
  BY <1>2, LockoutExpires
<1>3. ASSUME NEW s \in Session, ExpireSession(s)
      PROVE  IInv'
  BY <1>3, SessionEnds
<1>4. CASE UNCHANGED vars
  <2>1. /\ UNCHANGED <<password, force, status, failures, locked, guesses, faults, session>>
        /\ UNCHANGED <<logins, ended, suspect, pc, req, owing, exposed, proved>>
    BY <1>4 DEF vars, row, lockout, sessions, reset
  <2>2. Guessing' /\ \A s \in Session : Live(s)' => Live(s)
    BY <2>1 DEF IInv, Guessing, Live
  <2>3. NobodyBringsBack' /\ ResetStands'
    BY <2>1 DEF IInv, NobodyBringsBack, Live, ChangedWith, Changing, ResetStands
  <2> QED BY <2>1, <2>2, <2>3, NobodyMoves DEF IInv, Typed
<1> QED BY <1>1, <1>2, <1>3, <1>4 DEF Next

\* The invariant holds in every state.
LEMMA Invariance == Spec => []IInv
  BY InitHolds, StepHolds, PTL DEF Spec

\* The row, the cache and the requests keep their types; a valid session is one that
\* a login created (auth_handlers.go, session.go).
THEOREM TypeCorrect == Spec => []TypeOK
<1>1. IInv => TypeOK
  BY TypeParts DEF IInv
<1> QED BY Invariance, <1>1, PTL

\* Any number of sign-ins that guess at once get no more than MaxAttempts wrong guesses
\* examined before the account is locked, one more for each other of them, and one more
\* for each call of the cache that failed (auth_handlers.go:23 and 31, which go on
\* without it).
THEOREM GuessesAreFew == Spec => []GuessesBounded
<1>1. IInv => GuessesBounded
  <2> SUFFICES ASSUME IInv PROVE GuessesBounded
    OBVIOUS
  <2>1. CASE locked
    BY <2>1, Counts, LoginAssumption DEF IInv, Guessing, Typed, GuessesBounded
  <2>2. CASE ~locked
    BY <2>2, Counts, LoginAssumption DEF IInv, Guessing, Typed, GuessesBounded
  <2> QED BY <2>1, <2>2
<1> QED BY Invariance, <1>1, PTL

\* A session whose logout was carried out while no change of the password made with it
\* was under way is never valid again: clearMustChangePassword (session.go:64), which
\* writes whether or not there is a session, finds none of those to bring back.
THEOREM NoSessionRevived == Spec => []LoggedOutStaysOut
<1>1. IInv => LoggedOutStaysOut
  BY DEF IInv, NobodyBringsBack, LoggedOutStaysOut
<1> QED BY Invariance, <1>1, PTL

\* An account that was reset while no change of the password stood between its check and
\* its UPDATE asks for a change until somebody who knew what it was reset to made one
\* (users/repository.go:94).
THEOREM ResetIsHeeded == Spec => []ResetForcesChange
<1>1. IInv => ResetForcesChange
  BY DEF IInv, ResetStands, ResetForcesChange
<1> QED BY Invariance, <1>1, PTL

-----------------------------------------------------------------------------
(* The second factors. *)

\* The requests that sign in know whether the factors were off meanwhile: the
\* flag they have yet to read is set, or they are among those in `off'.
OffIsKnown == \A q \in AtStage("flag") : enabled \/ q \in off

\* What every step preserves, whatever overlaps.
FactorInv == FactorTypeOK /\ OffIsKnown /\ FactorAsked

\* Between the check of a code and the UPDATE there is a secret to enable, unless a
\* disabling fell in between.
SecretToEnable == \A q \in Confirming \ undone : secret # NoSecret

\* What a registration will write back lacks only keys that appeared since it read.
ListsRead == \A q \in AtStage("save") : keys \subseteq loaded[q] \cup missed[q]

\* What every step preserves of the factors.
FlagInv == FactorTypeOK /\ EnabledHasFactor /\ SecretToEnable /\ ListsRead

-----------------------------------------------------------------------------
(* Types. *)

\* What a request does next keeps the types of what it has.
LEMMA MoveTypes ==
    ASSUME FactorTypeOK, NEW q \in Handler,
           NEW label \in {"idle", "code"}, MoveTo(q, label),
           label = "code" => q \notin Finishing
    PROVE  /\ stage' \in [Handler -> {"idle", "enable", "load", "save", "flag", "code"}]
           /\ sent' \in [Handler -> Key \cup {NoKey}]
           /\ \A p \in Handler : sent'[p] \in IF p \in Finishing' THEN Key ELSE {NoKey}
           /\ loaded' \in [Handler -> SUBSET Key]
           /\ undone \ {q} \subseteq Confirming'
  <1> DEFINE Labels == {"idle", "enable", "load", "save", "flag", "code"}
  <1>1. stage' \in [Handler -> Labels]
    BY DEF FactorTypeOK, MoveTo
  <1>2. sent' \in [Handler -> Key \cup {NoKey}]
    BY DEF FactorTypeOK, MoveTo
  <1>3. loaded' \in [Handler -> SUBSET Key]
    BY DEF FactorTypeOK, MoveTo
  <1>4. ASSUME NEW p \in Handler
        PROVE  sent'[p] \in IF p \in Finishing' THEN Key ELSE {NoKey}
    <2>1. CASE p = q
      BY <2>1 DEF FactorTypeOK, MoveTo, Finishing, AtStage
    <2>2. CASE p # q
      <3>1. sent'[p] = sent[p] /\ stage'[p] = stage[p]
        BY <2>2 DEF FactorTypeOK, MoveTo
      <3> QED BY <3>1 DEF FactorTypeOK, Finishing, AtStage
    <2> QED BY <2>1, <2>2
  <1>5. undone \ {q} \subseteq Confirming'
    BY DEF FactorTypeOK, MoveTo, Confirming, AtStage
  <1> QED BY <1>1, <1>2, <1>3, <1>4, <1>5

LEMMA InitTypes == FactorInit => FactorTypeOK
  <1> SUFFICES ASSUME FactorInit PROVE FactorTypeOK
    OBVIOUS
  <1>1. Finishing = {}
    BY DEF FactorInit, Finishing, AtStage
  <1>2. /\ 0 \in 0..enrolments /\ 0 \in 0..begun
        /\ enrolments \in 0..MaxSecrets /\ begun \in 0..MaxCeremonies
    BY FactorAssumption DEF FactorInit
  <1> QED BY <1>1, <1>2 DEF FactorInit, FactorTypeOK, NoSecret, NoCeremony

LEMMA ServeTypes ==
    ASSUME FactorTypeOK, NEW q \in Handler, Handle(q)
    PROVE  FactorTypeOK'
  <1> USE DEF FactorTypeOK, columns, counters, history, setters, Finishing, Confirming, AtStage
  <1>1. CASE CheckCode(q)
    BY <1>1 DEF CheckCode
  <1>2. CASE EnableTotp(q)
    <2>1. MoveTo(q, "idle") /\ undone' = undone \ {q}
      BY <1>2 DEF EnableTotp
    <2>2. off' \subseteq Handler
      BY <1>2 DEF EnableTotp, SetEnabled, SigningIn
    <2> QED BY <1>2, <2>1, <2>2, MoveTypes DEF EnableTotp, SetEnabled
  <1>3. CASE \E k \in Key, challenge \in Ceremony : FinishRegistration(q, k, challenge)
    BY <1>3 DEF FinishRegistration
  <1>4. CASE Load(q)
    BY <1>4 DEF Load
  <1>5. CASE Save(q)
    <2>1. MoveTo(q, "idle") /\ undone' = undone \ {q}
      BY <1>5 DEF Save
    <2>2. off' \subseteq Handler /\ keys' \subseteq Key
      BY <1>5 DEF Save, SetEnabled, SigningIn
    <2>3. missed' \in [Handler -> SUBSET Key]
      BY <1>5, <2>2 DEF Save
    <2> QED BY <1>5, <2>1, <2>2, <2>3, MoveTypes DEF Save, SetEnabled
  <1>6. CASE BeginSignIn(q)
    BY <1>6 DEF BeginSignIn
  <1>7. CASE ReadFlag(q)
    <2>1. PICK label \in {"idle", "code"} : MoveTo(q, label)
      BY <1>7 DEF ReadFlag, SignedIn
    <2>2. accepted' \subseteq Handler /\ unasked' \in BOOLEAN
      BY <1>7 DEF ReadFlag, SignedIn
    <2>3. q \notin Finishing /\ undone' = undone \ {q}
      BY <1>7 DEF ReadFlag
    <2> QED BY <1>7, <2>1, <2>2, <2>3, MoveTypes DEF ReadFlag
  <1>8. CASE \E c \in 0..enrolments : Verify(q, c)
    <2>1. MoveTo(q, "idle") /\ undone' = undone \ {q}
      BY <1>8 DEF Verify, SignedIn, Refused
    <2>2. accepted' \subseteq Handler /\ unasked' \in BOOLEAN
      BY <1>8 DEF Verify, SignedIn, Refused
    <2> QED BY <1>8, <2>1, <2>2, MoveTypes DEF Verify
  <1>9. CASE Fail(q)
    <2>1. MoveTo(q, "idle") /\ undone' = undone \ {q}
      BY <1>9 DEF Fail
    <2> QED BY <1>9, <2>1, MoveTypes DEF Fail
  <1> QED BY <1>1, <1>2, <1>3, <1>4, <1>5, <1>6, <1>7, <1>8, <1>9 DEF Handle

LEMMA UserTypes ==
  FactorTypeOK /\ (Enroll \/ Disable \/ BeginRegistration \/ ExpireCeremony) => FactorTypeOK'
  <1> SUFFICES ASSUME FactorTypeOK, Enroll \/ Disable \/ BeginRegistration \/ ExpireCeremony
               PROVE  FactorTypeOK'
    OBVIOUS
  <1> USE FactorAssumption DEF FactorTypeOK, columns, counters, history, setters, Finishing,
                               Confirming, AtStage
  <1>1. CASE Enroll
    BY <1>1 DEF Enroll
  <1>2. CASE Disable
    <2>1. off' \subseteq Handler
      BY <1>2 DEF Disable, SetEnabled, SigningIn
    <2>2. secret' \in 0..enrolments'
      BY <1>2 DEF Disable, NoSecret
    <2> QED BY <1>2, <2>1, <2>2 DEF Disable, SetEnabled
  <1>3. CASE BeginRegistration
    BY <1>3 DEF BeginRegistration
  <1>4. CASE ExpireCeremony
    BY <1>4 DEF ExpireCeremony, NoCeremony
  <1> QED BY <1>1, <1>2, <1>3, <1>4

LEMMA NextTypes == FactorTypeOK /\ [FactorNext]_factorVars => FactorTypeOK'
  <1>1. FactorTypeOK /\ UNCHANGED factorVars => FactorTypeOK'
    BY DEF factorVars, columns, counters, history, setters, FactorTypeOK, Finishing,
           Confirming, AtStage
  <1> QED BY <1>1, ServeTypes, UserTypes DEF FactorNext

\* The columns, the challenge, the requests and the history keep their types, and
\* only generated secrets and challenges are ever stored.
THEOREM FactorTypes == FactorSpec => []FactorTypeOK
  <1> QED BY InitTypes, NextTypes, PTL DEF FactorSpec

-----------------------------------------------------------------------------
(* Sign-ins. *)

\* A change of the flag leaves no sign-in in doubt: those under way learn of it.
LEMMA SetEnabledKnown ==
    ASSUME NEW value \in BOOLEAN, NEW by, SetEnabled(value, by), OffIsKnown,
           \A p \in AtStage("flag")' : p \in AtStage("flag")
    PROVE  OffIsKnown'
  BY DEF SetEnabled, OffIsKnown, SigningIn

LEMMA ServeKnown ==
    ASSUME FactorInv, NEW q \in Handler, Handle(q)
    PROVE  OffIsKnown' /\ FactorAsked'
  <1> USE DEF FactorInv, columns, counters, history
  <1>1. CASE CheckCode(q)
    BY <1>1 DEF CheckCode, FactorTypeOK, OffIsKnown, FactorAsked, AtStage
  <1>2. CASE EnableTotp(q)
    <2>1. \A p \in AtStage("flag")' : p \in AtStage("flag")
      BY <1>2 DEF EnableTotp, MoveTo, FactorTypeOK, AtStage
    <2> QED BY <1>2, <2>1, SetEnabledKnown DEF EnableTotp, SetEnabled, FactorAsked
  <1>3. CASE \E k \in Key, challenge \in Ceremony : FinishRegistration(q, k, challenge)
    BY <1>3 DEF FinishRegistration, FactorTypeOK, OffIsKnown, FactorAsked, AtStage
  <1>4. CASE Load(q)
    BY <1>4 DEF Load, FactorTypeOK, OffIsKnown, FactorAsked, AtStage
  <1>5. CASE Save(q)
    <2>1. \A p \in AtStage("flag")' : p \in AtStage("flag")
      BY <1>5 DEF Save, MoveTo, FactorTypeOK, AtStage
    <2> QED BY <1>5, <2>1, SetEnabledKnown DEF Save, SetEnabled, FactorAsked
  <1>6. CASE BeginSignIn(q)
    BY <1>6 DEF BeginSignIn, FactorTypeOK, OffIsKnown, FactorAsked, AtStage
  <1>7. CASE ReadFlag(q)
    <2>1. q \in AtStage("flag")
      BY <1>7 DEF ReadFlag, AtStage
    <2>2. OffIsKnown'
      BY <1>7 DEF ReadFlag, SignedIn, MoveTo, FactorTypeOK, OffIsKnown, AtStage
    <2>3. FactorAsked'
      BY <1>7, <2>1 DEF ReadFlag, SignedIn, OffIsKnown, FactorAsked
    <2> QED BY <2>2, <2>3
  <1>8. CASE \E c \in 0..enrolments : Verify(q, c)
    <2>1. OffIsKnown'
      BY <1>8 DEF Verify, SignedIn, Refused, MoveTo, FactorTypeOK, OffIsKnown, AtStage
    <2>2. FactorAsked'
      BY <1>8 DEF Verify, SignedIn, Refused, FactorAsked
    <2> QED BY <2>1, <2>2
  <1>9. CASE Fail(q)
    BY <1>9 DEF Fail, MoveTo, FactorTypeOK, OffIsKnown, FactorAsked, AtStage
  <1> QED BY <1>1, <1>2, <1>3, <1>4, <1>5, <1>6, <1>7, <1>8, <1>9 DEF Handle

LEMMA NextKnown == FactorInv /\ [FactorNext]_factorVars => FactorInv'
  <1> SUFFICES ASSUME FactorInv, [FactorNext]_factorVars PROVE OffIsKnown' /\ FactorAsked'
    BY NextTypes DEF FactorInv
  <1>1. CASE Enroll \/ BeginRegistration \/ ExpireCeremony
    BY <1>1 DEF Enroll, BeginRegistration, ExpireCeremony, columns, history, FactorInv,
        OffIsKnown, FactorAsked, AtStage
  <1>2. CASE Disable
    <2>1. \A p \in AtStage("flag")' : p \in AtStage("flag")
      BY <1>2 DEF Disable, AtStage
    <2> QED BY <1>2, <2>1, SetEnabledKnown DEF Disable, SetEnabled, FactorInv, FactorAsked
  <1>3. CASE \E q \in Handler : Handle(q)
    BY <1>3, ServeKnown
  <1>4. CASE UNCHANGED factorVars
    BY <1>4 DEF factorVars, columns, history, FactorInv, OffIsKnown, FactorAsked, AtStage
  <1> QED BY <1>1, <1>2, <1>3, <1>4 DEF FactorNext

\* handleLogin reads the flag and the secret with two queries; a sign-in gets
\* through with a code of the secret stored when it is verified, or because the
\* factors were off at some time while it ran, however the requests interleave.
THEOREM FactorIsAsked == FactorSpec => []FactorAsked
  <1>1. FactorInit => FactorInv
    BY InitTypes DEF FactorInit, FactorInv, OffIsKnown, FactorAsked, AtStage
  <1>2. FactorInv => FactorAsked
    BY DEF FactorInv
  <1> QED BY <1>1, <1>2, NextKnown, PTL DEF FactorSpec

-----------------------------------------------------------------------------
(* The flag and the keys. *)

\* Where a request goes idle, the others stay where they are.
LEMMA GoesIdle ==
    ASSUME FactorTypeOK, NEW q \in Handler, MoveTo(q, "idle")
    PROVE  /\ Confirming' = Confirming \ {q}
           /\ AtStage("save")' = AtStage("save") \ {q}
           /\ \A p \in AtStage("save")' : loaded'[p] = loaded[p]
  BY DEF FactorTypeOK, MoveTo, Confirming, AtStage

\* A request that writes neither column nor history of a registration, and comes to
\* neither UPDATE.
LEMMA PassesBy ==
    ASSUME FlagInv, UNCHANGED <<enabled, secret, keys, setBy>>,
           Confirming' \ undone' \subseteq Confirming \ undone,
           AtStage("save")' \subseteq AtStage("save"),
           \A p \in AtStage("save")' : loaded'[p] = loaded[p] /\ missed'[p] = missed[p]
    PROVE  EnabledHasFactor' /\ SecretToEnable' /\ ListsRead'
  <1>1. EnabledHasFactor'
    BY DEF FlagInv, EnabledHasFactor
  <1>2. SecretToEnable'
    BY DEF FlagInv, SecretToEnable
  <1>3. ListsRead'
    BY DEF FlagInv, ListsRead
  <1> QED BY <1>1, <1>2, <1>3

LEMMA ServeFlag ==
    ASSUME FlagInv, NEW q \in Handler, Handle(q)
    PROVE  EnabledHasFactor' /\ SecretToEnable' /\ ListsRead'
  <1> USE DEF columns, counters, history, setters
  <1>t. FactorTypeOK
    BY DEF FlagInv
  <1>1. CASE CheckCode(q)
    <2>1. /\ UNCHANGED <<enabled, secret, keys, setBy, undone, missed, loaded>>
          /\ secret # NoSecret
      BY <1>1 DEF CheckCode
    <2>2. AtStage("save")' = AtStage("save")
      BY <1>1, <1>t DEF CheckCode, FactorTypeOK, AtStage
    <2>3. EnabledHasFactor' /\ SecretToEnable'
      BY <2>1 DEF FlagInv, EnabledHasFactor, SecretToEnable
    <2>4. ListsRead'
      BY <2>1, <2>2 DEF FlagInv, ListsRead
    <2> QED BY <2>3, <2>4
  <1>2. CASE EnableTotp(q)
    <2>1. /\ MoveTo(q, "idle") /\ UNCHANGED <<secret, keys, missed>>
          /\ undone' = undone \ {q} /\ q \in Confirming
          /\ setBy' = IF q \in undone THEN "late" ELSE "totp"
      BY <1>2 DEF EnableTotp, SetEnabled, Confirming, AtStage
    <2>2. EnabledHasFactor'
      BY <2>1 DEF FlagInv, EnabledHasFactor, SecretToEnable
    <2>3. SecretToEnable'
      BY <1>t, <2>1, GoesIdle DEF FlagInv, SecretToEnable
    <2>4. ListsRead'
      BY <1>t, <2>1, GoesIdle DEF FlagInv, ListsRead
    <2> QED BY <2>2, <2>3, <2>4
  <1>3. CASE \E k \in Key, challenge \in Ceremony : FinishRegistration(q, k, challenge)
    <2>1. /\ stage' = [stage EXCEPT ![q] = "load"]
          /\ UNCHANGED <<enabled, secret, keys, setBy, undone, missed, loaded>>
      BY <1>3 DEF FinishRegistration
    <2>2. Confirming' \subseteq Confirming /\ AtStage("save")' \subseteq AtStage("save")
      BY <1>t, <2>1 DEF FactorTypeOK, Confirming, AtStage
    <2> QED BY <2>1, <2>2, PassesBy
  <1>4. CASE Load(q)
    <2>1. /\ UNCHANGED <<enabled, secret, keys, setBy, undone, missed>>
          /\ loaded' = [loaded EXCEPT ![q] = keys] /\ q \in AtStage("load")
      BY <1>4 DEF Load, AtStage
    <2>2. /\ Confirming' = Confirming
          /\ AtStage("save")' = AtStage("save") \cup {q}
      BY <1>4, <1>t DEF Load, FactorTypeOK, Confirming, AtStage
    <2>3. \A p \in AtStage("save")' : loaded'[p] = IF p = q THEN keys ELSE loaded[p]
      BY <1>t, <2>1, <2>2 DEF FactorTypeOK, AtStage
    <2>4. EnabledHasFactor' /\ SecretToEnable'
      BY <2>1, <2>2 DEF FlagInv, EnabledHasFactor, SecretToEnable
    <2>5. ListsRead'
      BY <2>1, <2>2, <2>3 DEF FlagInv, ListsRead
    <2> QED BY <2>4, <2>5
  <1>5. CASE Save(q)
    <2>1. /\ MoveTo(q, "idle") /\ secret' = secret /\ keys' = loaded[q] \cup {sent[q]}
          /\ undone' = undone /\ setBy' = "key"
      BY <1>5 DEF Save, SetEnabled
    <2>2. \A p \in AtStage("save")' : missed'[p] = missed[p] \cup (keys' \ keys)
      BY <1>5, <1>t, <2>1, GoesIdle DEF Save, AtStage
    <2>3. EnabledHasFactor'
      BY <2>1 DEF EnabledHasFactor
    <2>4. SecretToEnable'
      BY <1>t, <2>1, GoesIdle DEF FlagInv, SecretToEnable
    <2>5. ListsRead'
      <3> SUFFICES ASSUME NEW p \in AtStage("save")'
                   PROVE  keys' \subseteq loaded'[p] \cup missed'[p]
        BY DEF ListsRead
      <3>1. p \in AtStage("save") /\ loaded'[p] = loaded[p]
        BY <1>t, <2>1, GoesIdle
      <3>2. keys \subseteq loaded[p] \cup missed[p]
        BY <3>1 DEF FlagInv, ListsRead
      <3> QED BY <2>2, <3>1, <3>2
    <2> QED BY <2>3, <2>4, <2>5
  <1>6. CASE BeginSignIn(q)
    <2>1. /\ stage' = [stage EXCEPT ![q] = "flag"]
          /\ UNCHANGED <<enabled, secret, keys, setBy, undone, missed, loaded>>
      BY <1>6 DEF BeginSignIn
    <2>2. Confirming' \subseteq Confirming /\ AtStage("save")' \subseteq AtStage("save")
      BY <1>t, <2>1 DEF FactorTypeOK, Confirming, AtStage
    <2> QED BY <2>1, <2>2, PassesBy
  <1>7. CASE ReadFlag(q)
    <2>1. UNCHANGED <<enabled, secret, keys, setBy, undone, missed>>
      BY <1>7 DEF ReadFlag
    <2>2. CASE MoveTo(q, "code")
      <3>1. /\ Confirming' \subseteq Confirming /\ AtStage("save")' \subseteq AtStage("save")
            /\ loaded' = loaded
        BY <1>t, <2>2 DEF MoveTo, FactorTypeOK, Confirming, AtStage
      <3> QED BY <2>1, <3>1, PassesBy
    <2>3. CASE MoveTo(q, "idle")
      BY <1>t, <2>1, <2>3, GoesIdle, PassesBy
    <2> QED BY <1>7, <2>2, <2>3 DEF ReadFlag, SignedIn
  <1>8. CASE \E c \in 0..enrolments : Verify(q, c)
    <2>1. MoveTo(q, "idle") /\ UNCHANGED <<enabled, secret, keys, setBy, undone, missed>>
      BY <1>8 DEF Verify, SignedIn, Refused
    <2> QED BY <1>t, <2>1, GoesIdle, PassesBy
  <1>9. CASE Fail(q)
    <2>1. /\ MoveTo(q, "idle") /\ UNCHANGED <<enabled, secret, keys, setBy>>
          /\ undone' = undone \ {q} /\ missed' = [missed EXCEPT ![q] = {}]
      BY <1>9 DEF Fail
    <2>2. \A p \in AtStage("save")' : missed'[p] = missed[p]
      BY <1>t, <2>1, GoesIdle DEF FactorTypeOK, AtStage
    <2> QED BY <1>t, <2>1, <2>2, GoesIdle, PassesBy
  <1> QED BY <1>1, <1>2, <1>3, <1>4, <1>5, <1>6, <1>7, <1>8, <1>9 DEF Handle

LEMMA NextFlag == FlagInv /\ [FactorNext]_factorVars => FlagInv'
  <1> SUFFICES ASSUME FlagInv, [FactorNext]_factorVars
               PROVE  EnabledHasFactor' /\ SecretToEnable' /\ ListsRead'
    BY NextTypes DEF FlagInv
  <1> USE DEF columns, history, setters
  <1>1. CASE Enroll
    <2>1. /\ secret' # NoSecret
          /\ UNCHANGED <<enabled, keys, setBy, undone, missed, loaded, stage>>
      BY <1>1 DEF Enroll, FlagInv, FactorTypeOK, NoSecret
    <2>2. ListsRead'
      BY <2>1 DEF FlagInv, ListsRead, AtStage
    <2> QED BY <2>1, <2>2 DEF FlagInv, EnabledHasFactor, SecretToEnable
  <1>2. CASE Disable
    <2>1. /\ enabled' = FALSE /\ undone' = undone \cup Confirming
          /\ UNCHANGED <<keys, missed, loaded, stage>>
      BY <1>2 DEF Disable, SetEnabled
    <2>2. Confirming' \ undone' = {}
      BY <2>1 DEF Confirming, AtStage
    <2>3. ListsRead'
      BY <2>1 DEF FlagInv, ListsRead, AtStage
    <2> QED BY <2>1, <2>2, <2>3 DEF EnabledHasFactor, SecretToEnable
  <1>3. CASE BeginRegistration \/ ExpireCeremony \/ UNCHANGED factorVars
    <2>1. UNCHANGED <<enabled, secret, keys, setBy, undone, missed, loaded, stage>>
      BY <1>3 DEF BeginRegistration, ExpireCeremony, factorVars
    <2>2. AtStage("save")' = AtStage("save") /\ Confirming' = Confirming
      BY <2>1 DEF Confirming, AtStage
    <2> QED BY <2>1, <2>2, PassesBy
  <1>4. CASE \E q \in Handler : Handle(q)
    BY <1>4, ServeFlag
  <1> QED BY <1>1, <1>2, <1>3, <1>4 DEF FactorNext

LEMMA InitFlag == FactorInit => FlagInv
  BY InitTypes DEF FactorInit, FlagInv, EnabledHasFactor, SecretToEnable, ListsRead,
      Confirming, AtStage

\* Three handlers write mfa_enabled, and none reads the factor with the statement that
\* sets it: what it was set for is stored all the same, however the requests interleave,
\* unless a disabling fell between a confirmation's check of the code and its UPDATE
\* (totp.go:39-60, store.go:79).
THEOREM FlagHasFactor == FactorSpec => []EnabledHasFactor
  <1>1. FlagInv => EnabledHasFactor
    BY DEF FlagInv
  <1> QED BY <1>1, InitFlag, NextFlag, PTL DEF FactorSpec

\* AddCredential writes back the list it read: what a step loses are keys that appeared
\* in the list after the registration that ends had read it, and no others (store.go:56).
THEOREM NoKeyLost == FactorSpec => KeysKept
  <1> DEFINE Loses == \A k \in keys \ keys' :
                        \E q \in AtStage("save") : stage'[q] = "idle" /\ k \in missed[q]
  <1>1. FlagInv /\ [FactorNext]_factorVars => [Loses]_factorVars
    <2> SUFFICES ASSUME FlagInv, FactorNext PROVE Loses
      OBVIOUS
    <2>1. ASSUME NEW q \in Handler, Save(q)
          PROVE  Loses
      <3>1. q \in AtStage("save") /\ loaded[q] \subseteq keys' /\ stage'[q] = "idle"
        BY <2>1 DEF Save, MoveTo, AtStage, FlagInv, FactorTypeOK
      <3>2. keys \subseteq loaded[q] \cup missed[q]
        BY <3>1 DEF FlagInv, ListsRead
      <3> QED BY <3>1, <3>2
    <2>2. CASE ~\E q \in Handler : Save(q)
      <3>1. keys' = keys
        BY <2>2 DEF FactorNext, Handle, Enroll, Disable, BeginRegistration, ExpireCeremony,
            CheckCode, EnableTotp, FinishRegistration, Load, BeginSignIn, ReadFlag, Verify,
            Fail, columns
      <3> QED BY <3>1
    <2> QED BY <2>1, <2>2
  <1> QED BY <1>1, InitFlag, NextFlag, PTL DEF FactorSpec, KeysKept
=============================================================================
