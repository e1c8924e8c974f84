------------------------ MODULE DeviceCheckinProofs ------------------------
(***************************************************************************)
(* The safety properties of DeviceCheckin, for any finite set of check-ins *)
(* and any number of users, devices, factors, days, events and             *)
(* enrolments.                                                             *)
(***************************************************************************)
EXTENDS DeviceCheckin, FiniteSetTheorems, TLAPS

-----------------------------------------------------------------------------
(* The invariant.                                                          *)

\* There is room for the events of the check-ins under way.
Room == Len(events) + Cardinality(Expected) <= MaxEvents

\* A check-in's next credential is one of those it was sent, and whoever it has found
\* has held all before that at some time since it began.
Scanning(c) ==
  pc[c] = "resolve" =>
    /\ next[c] \in DOMAIN req[c].proofs
    /\ \A k \in 1..(next[c] - 1) : <<req[c].proofs[k], found[c]>> \in held[c]

\* Whoever has one of its credentials now has held it since it began.
Witnessed(c) ==
  c \in Expected => \A p \in Scanned(req[c]) :
    owner[p] # Nobody => <<p, owner[p]>> \in held[c]

\* What it is about to record is borne out.
Justified(c) == Resolved(c) => Deserved(c)

\* The event of a check-in that goes on is its own, for as long as the user is there.
Recorded(c) ==
  pc[c] \in {"permission", "count"} =>
    /\ event[c] \in DOMAIN events
    /\ events[event[c]].resource = req[c].resource
    /\ found[c] \in users => events[event[c]].user = found[c]

Upright(c) == Scanning(c) /\ Witnessed(c) /\ Justified(c) /\ Recorded(c)

\* Nobody is told "no" on the day of their event: the count has found it.
OwnIsCounted ==
  \A a \in answers :
    /\ a.event \in DOMAIN events
    /\ a.already = "no" /\ a.resource # NoResource /\ a.user \in users =>
         events[a.event].day # a.day

\* Every check-in has the parameters it has.
Served == req = [c \in Checkin |-> req[c]]

IInv == /\ TypeOK /\ Served /\ Room /\ OwnIsCounted /\ StatusDeserved
        /\ \A c \in Checkin : Upright(c)

\* The proofs of a request, and what Scanned makes of them.
LEMMA RequestProofs ==
  ASSUME NEW r \in Request
  PROVE  /\ DOMAIN r.proofs = 1..Len(r.proofs) /\ Len(r.proofs) \in 1..Factors
         /\ \A k \in DOMAIN r.proofs : r.proofs[k] \in Ref /\ r.proofs[k] \in Scanned(r)
         /\ \A p \in Scanned(r) : p \in Ref /\ \E k \in DOMAIN r.proofs : p = r.proofs[k]
         /\ r.resource \in Resource \cup {NoResource}
<1>1. PICK n \in 1..Factors : r.proofs \in [1..n -> Ref]
  BY DEF Request, Scan
<1>2. n \in Nat /\ Len(r.proofs) = n
  BY <1>1, CheckinAssumption
<1> QED BY <1>1, <1>2 DEF Scanned, Request

\* NoRequest is none.
LEMMA NoRequestIsNone == NoRequest \notin Request
<1>1. Len(NoRequest.proofs) = 0
  BY DEF NoRequest
<1> QED BY <1>1, RequestProofs, CheckinAssumption

\* How the number of expected events changes when one check-in moves.
LEMMA ExpectedMoves ==
  ASSUME TypeOK, NEW c \in Checkin, \A b \in Checkin \ {c} : pc'[b] = pc[b]
  PROVE  /\ Cardinality(Expected) \in Nat /\ Cardinality(Expected') \in Nat
         /\ (c \in Expected <=> c \in Expected') => Expected' = Expected
         /\ c \notin Expected /\ c \in Expected' =>
              Cardinality(Expected') = Cardinality(Expected) + 1
         /\ c \in Expected /\ c \notin Expected' =>
              Cardinality(Expected') = Cardinality(Expected) - 1
<1>1. IsFiniteSet(Expected) /\ IsFiniteSet(Expected')
  BY CheckinAssumption, FS_Subset DEF Expected
<1>2. Cardinality(Expected) \in Nat /\ Cardinality(Expected') \in Nat
  BY <1>1, FS_CardinalityType
<1>3. (c \in Expected <=> c \in Expected') => Expected' = Expected
  BY DEF Expected
<1>4. ASSUME c \notin Expected, c \in Expected'
      PROVE  Cardinality(Expected') = Cardinality(Expected) + 1
  <2>1. Expected' = Expected \cup {c}
    BY <1>4 DEF Expected
  <2> QED BY <1>1, <1>4, <2>1, FS_AddElement
<1>5. ASSUME c \in Expected, c \notin Expected'
      PROVE  Cardinality(Expected') = Cardinality(Expected) - 1
  <2>1. Expected' = Expected \ {c}
    BY <1>5 DEF Expected
  <2> QED BY <1>1, <1>5, <2>1, FS_RemoveElement
<1> QED BY <1>2, <1>3, <1>4, <1>5

\* No check-in is under way and nothing was recorded.
LEMMA InitHolds == Init => IInv
<1> SUFFICES ASSUME Init PROVE IInv
  OBVIOUS
<1>1. TypeOK
  BY CheckinAssumption DEF Init, TypeOK, NoRequest
<1>2. Room
  <2>1. Expected = {}
    BY DEF Init, Expected
  <2>2. Cardinality(Expected) = 0
    BY <2>1, FS_EmptySet
  <2> QED BY <2>2, CheckinAssumption DEF Init, Room
<1> QED BY <1>1, <1>2 DEF Init, IInv, Served, Upright, Scanning, Witnessed, Justified,
           Recorded, OwnIsCounted, StatusDeserved, Expected, Resolved

-----------------------------------------------------------------------------
(* A check-in ends.                                                        *)

Local == {"idle", "resolve", "matched", "unmatched", "mismatch", "permission", "count"}

\* What is local to a check-in is typed.
LocalTyped ==
  /\ pc \in [Checkin -> Local]
  /\ \A c \in Checkin : req[c] \in Request \/ (pc[c] = "idle" /\ req[c] = NoRequest)
  /\ next \in [Checkin -> 0..(Factors + 1)]
  /\ found \in [Checkin -> User \cup {Nobody}]
  /\ \A c \in Checkin : pc[c] \in {"matched", "permission", "count"} => found[c] \in User
  /\ clock \in [Checkin -> 0..MaxDay]
  /\ event \in [Checkin -> 0..MaxEvents]
  /\ held \in [Checkin -> SUBSET (Ref \X User)]

\* So are the tables and the history.
TablesTyped ==
  /\ users \subseteq User
  /\ owner \in [Ref -> User \cup {Nobody}]
  /\ events \in Seq(Event) /\ Len(events) <= MaxEvents
  /\ today \in 0..MaxDay
  /\ deserved \in Seq(BOOLEAN) /\ Len(deserved) = Len(events)

LEMMA TypeParts == TypeOK => LocalTyped /\ TablesTyped
  BY DEF TypeOK, LocalTyped, TablesTyped, Local

LEMMA TypesAfter == LocalTyped' /\ TablesTyped' => TypeOK'
  BY DEF TypeOK, LocalTyped, TablesTyped, Local

\* What one check-in does leaves the others as they were.
LEMMA OthersStay ==
  ASSUME IInv, NEW b \in Checkin, UNCHANGED <<users, owner>>,
         pc'[b] = pc[b], req'[b] = req[b], next'[b] = next[b], found'[b] = found[b],
         event'[b] = event[b], held'[b] = held[b],
         \A n \in DOMAIN events : n \in DOMAIN events' /\ events'[n] = events[n]
  PROVE  Upright(b)'
<1>1. Scanning(b)' /\ Witnessed(b)' /\ Justified(b)'
  BY DEF IInv, Upright, Scanning, Witnessed, Justified, Expected, Resolved, Deserved
<1>2. Recorded(b)'
  BY DEF IInv, Upright, Recorded
<1> QED BY <1>1, <1>2 DEF Upright

\* A check-in that ends is idle.
LEMMA FinishIsIdle ==
  ASSUME IInv, NEW c \in Checkin, Finish(c)
  PROVE  /\ LocalTyped' /\ Served' /\ pc'[c] = "idle" /\ Upright(c)'
         /\ \A b \in Checkin \ {c} :
              /\ pc'[b] = pc[b] /\ req'[b] = req[b] /\ next'[b] = next[b]
              /\ found'[b] = found[b] /\ event'[b] = event[b] /\ held'[b] = held[b]
<1>t. LocalTyped /\ Served
  BY TypeParts DEF IInv
<1>1. /\ req' = [b \in Checkin |-> IF b = c THEN NoRequest ELSE req[b]]
      /\ pc' = [b \in Checkin |-> IF b = c THEN "idle" ELSE pc[b]]
      /\ next' = [b \in Checkin |-> IF b = c THEN 0 ELSE next[b]]
      /\ found' = [b \in Checkin |-> IF b = c THEN Nobody ELSE found[b]]
      /\ clock' = [b \in Checkin |-> IF b = c THEN 0 ELSE clock[b]]
      /\ event' = [b \in Checkin |-> IF b = c THEN 0 ELSE event[b]]
      /\ held' = [b \in Checkin |-> IF b = c THEN {} ELSE held[b]]
  BY <1>t DEF Finish, LocalTyped, Served
<1>2. LocalTyped'
  BY <1>t, <1>1, CheckinAssumption DEF LocalTyped, Local
<1>3. Served'
  BY <1>1 DEF Served
<1>4. Upright(c)'
  BY <1>1 DEF Upright, Scanning, Witnessed, Justified, Recorded, Expected, Resolved
<1> QED BY <1>1, <1>2, <1>3, <1>4

-----------------------------------------------------------------------------
(* The steps of a check-in.                                                *)

\* It begins: what it is held against is what is there.
LEMMA ReceiveHolds ==
  ASSUME IInv, NEW c \in Checkin, NEW r \in Request, Receive(c, r)
  PROVE  IInv'
<1>t. LocalTyped /\ TablesTyped /\ Served
  BY TypeParts DEF IInv
<1>0. /\ pc[c] = "idle" /\ Len(events) + Cardinality(Expected) < MaxEvents
      /\ UNCHANGED <<tables, found, clock, event, deserved, answers>>
  BY DEF Receive
<1>1. /\ req' = [b \in Checkin |-> IF b = c THEN r ELSE req[b]]
      /\ pc' = [b \in Checkin |-> IF b = c THEN "resolve" ELSE pc[b]]
      /\ next' = [b \in Checkin |-> IF b = c THEN 1 ELSE next[b]]
      /\ held' = [b \in Checkin |-> IF b = c
           THEN {<<p, owner[p]>> : p \in Scanned(r)} \cap (Ref \X User) ELSE held[b]]
  BY <1>t DEF Receive, LocalTyped, Served
<1>2. LocalTyped'
  <2>1. 1 \in 0..(Factors + 1)
    BY CheckinAssumption
  <2>2. held' \in [Checkin -> SUBSET (Ref \X User)]
    BY <1>1, <1>t DEF LocalTyped
  <2> QED BY <1>t, <1>0, <1>1, <2>1, <2>2 DEF LocalTyped, Local
<1>3. TablesTyped' /\ Served' /\ OwnIsCounted' /\ StatusDeserved'
  BY <1>t, <1>0, <1>1 DEF IInv, TablesTyped, Served, OwnIsCounted, StatusDeserved, tables
<1>4. Room'
  <2>1. c \notin Expected /\ c \in Expected'
    BY <1>0, <1>1 DEF Expected
  <2>2. Cardinality(Expected') = Cardinality(Expected) + 1 /\ Cardinality(Expected) \in Nat
    BY <1>1, <2>1, ExpectedMoves DEF IInv
  <2>3. Len(events') = Len(events) /\ Len(events) \in Nat
    BY <1>t, <1>0 DEF tables, TablesTyped
  <2> QED BY <1>0, <2>2, <2>3, CheckinAssumption DEF Room
<1>5. Upright(c)'
  <2>1. Scanning(c)'
    <3>1. 1 \in DOMAIN r.proofs
      BY RequestProofs, CheckinAssumption
    <3> QED BY <1>1, <3>1 DEF Scanning
  <2>2. Witnessed(c)'
    <3> SUFFICES ASSUME NEW p \in Scanned(r), owner[p] # Nobody
                 PROVE  <<p, owner[p]>> \in held'[c]
      BY <1>0, <1>1 DEF Witnessed, tables
    <3>1. p \in Ref /\ owner[p] \in User
      BY <1>t, RequestProofs DEF TablesTyped
    <3> QED BY <1>1, <3>1
  <2> QED BY <1>1, <2>1, <2>2 DEF Upright, Justified, Recorded, Resolved
<1>6. ASSUME NEW b \in Checkin \ {c} PROVE Upright(b)'
  <2>1. /\ UNCHANGED <<users, owner>> /\ b \in Checkin
        /\ pc'[b] = pc[b] /\ req'[b] = req[b] /\ next'[b] = next[b]
        /\ found'[b] = found[b] /\ event'[b] = event[b] /\ held'[b] = held[b]
        /\ \A n \in DOMAIN events : n \in DOMAIN events' /\ events'[n] = events[n]
    BY <1>0, <1>1 DEF tables
  <2> QED BY <2>1, OthersStay
<1> QED BY <1>2, <1>3, <1>4, <1>5, <1>6, TypesAfter DEF IInv

\* One credential is resolved. A match adds its owner to what is held; a mismatch has
\* two owners there.
LEMMA ResolveHolds ==
  ASSUME IInv, NEW c \in Checkin, Resolve(c)
  PROVE  IInv'
<1>t. LocalTyped /\ TablesTyped /\ Served
  BY TypeParts DEF IInv
<1>0. /\ pc[c] = "resolve"
      /\ UNCHANGED <<tables, req, event, held, deserved, answers>>
  BY DEF Resolve
<1>r. req[c] \in Request /\ next[c] \in DOMAIN req[c].proofs /\ next[c] \in Nat
  BY <1>t, <1>0, RequestProofs DEF LocalTyped, IInv, Upright, Scanning
<1>p. PICK p : p = req[c].proofs[next[c]]
  OBVIOUS
<1>w. PICK who : who = owner[p]
  OBVIOUS
<1>s. /\ p \in Scanned(req[c]) /\ p \in Ref /\ who \in User \cup {Nobody}
      /\ who # Nobody => <<p, who>> \in held[c]
  <2>1. p \in Scanned(req[c]) /\ p \in Ref
    BY <1>p, <1>r, RequestProofs
  <2>2. c \in Expected
    BY <1>0 DEF Expected
  <2> QED BY <1>t, <1>w, <2>1, <2>2 DEF TablesTyped, IInv, Upright, Witnessed
<1>1. \/ Outcome(c, "unmatched") /\ UNCHANGED <<next, found>>
      \/ /\ who # Nobody /\ next[c] > 1 /\ who # found[c]
         /\ Outcome(c, "mismatch") /\ UNCHANGED <<next, found>>
      \/ /\ who # Nobody /\ (next[c] > 1 => who = found[c])
         /\ Agree(c, who)
  BY <1>p, <1>w DEF Resolve
<1>o. \A b \in Checkin \ {c} : pc'[b] = pc[b] /\ next'[b] = next[b] /\ found'[b] = found[b]
  BY <1>t, <1>1 DEF Outcome, Agree, LocalTyped
<1>c. /\ pc' \in [Checkin -> Local]
      /\ clock' \in [Checkin -> 0..MaxDay]
      /\ pc'[c] \in {"resolve", "matched", "unmatched", "mismatch"}
  <2>1. \/ UNCHANGED <<pc, clock>>
        \/ \E status \in {"matched", "unmatched", "mismatch"} : Outcome(c, status)
    BY <1>1 DEF Agree
  <2> QED BY <1>t, <1>0, <2>1 DEF Outcome, LocalTyped, TablesTyped, Local
<1>n. /\ next' \in [Checkin -> 0..(Factors + 1)]
      /\ found' \in [Checkin -> User \cup {Nobody}]
      /\ pc'[c] = "matched" => found'[c] \in User
  <2>1. next[c] + 1 \in 0..(Factors + 1)
    BY <1>r, RequestProofs, CheckinAssumption
  <2>2. CASE UNCHANGED <<next, found>>
    BY <1>t, <1>1, <2>2, <1>0 DEF Outcome, Agree, LocalTyped
  <2>3. CASE who # Nobody /\ Agree(c, who)
    BY <1>t, <1>s, <2>1, <2>3 DEF Agree, LocalTyped
  <2> QED BY <1>1, <2>2, <2>3
<1>2. LocalTyped'
  BY <1>t, <1>0, <1>o, <1>c, <1>n, <1>r DEF LocalTyped
<1>3. TablesTyped' /\ Served' /\ OwnIsCounted' /\ StatusDeserved'
  BY <1>t, <1>0 DEF IInv, TablesTyped, Served, OwnIsCounted, StatusDeserved, tables
<1>4. Room'
  <2>1. c \in Expected /\ c \in Expected'
    BY <1>0, <1>c DEF Expected
  <2>2. Expected' = Expected
    BY <1>o, <2>1, ExpectedMoves DEF IInv
  <2> QED BY <1>0, <2>2 DEF Room, IInv, tables
<1>5. Upright(c)'
  <2>1. Witnessed(c)'
    <3>1. c \in Expected
      BY <1>0 DEF Expected
    <3> QED BY <1>0, <3>1 DEF Witnessed, IInv, Upright, tables
  <2>2. Scanning(c)' /\ Justified(c)'
    <3>1. CASE Outcome(c, "unmatched")
      <4>1. pc'[c] = "unmatched"
        BY <1>t, <3>1 DEF Outcome, LocalTyped
      <4> QED BY <4>1 DEF Scanning, Justified, Deserved
    <3>2. CASE /\ who # Nobody /\ next[c] > 1 /\ who # found[c]
               /\ Outcome(c, "mismatch")
      <4>1. pc'[c] = "mismatch"
        BY <1>t, <3>2 DEF Outcome, LocalTyped
      <4>2. <<req[c].proofs[1], found[c]>> \in held[c] /\ <<p, who>> \in held[c]
        BY <1>0, <1>r, <1>s, <3>2 DEF IInv, Upright, Scanning
      <4>3. \E g, h \in held[c] : g[2] # h[2]
        BY <3>2, <4>2
      <4> QED BY <1>0, <4>1, <4>3 DEF Scanning, Justified, Deserved
    <3>3. CASE /\ who # Nobody /\ (next[c] > 1 => who = found[c])
               /\ Agree(c, who)
      <4>1. /\ found'[c] = who /\ next'[c] = next[c] + 1
            /\ IF next[c] = Len(req[c].proofs) THEN pc'[c] = "matched" ELSE pc' = pc
        BY <1>t, <3>3 DEF Agree, Outcome, LocalTyped
      <4>2. \A k \in 1..next[c] : <<req[c].proofs[k], who>> \in held'[c]
        <5> SUFFICES ASSUME NEW k \in 1..next[c] PROVE <<req[c].proofs[k], who>> \in held[c]
          BY <1>0
        <5>1. CASE k = next[c]
          BY <1>p, <1>s, <3>3, <5>1
        <5>2. CASE k # next[c]
          <6>1. next[c] > 1 /\ k \in 1..(next[c] - 1)
            BY <1>r, <5>2
          <6> QED BY <1>0, <3>3, <6>1 DEF IInv, Upright, Scanning
        <5> QED BY <5>1, <5>2
      <4>3. CASE next[c] = Len(req[c].proofs)
        <5>1. pc'[c] = "matched"
          BY <4>1, <4>3
        <5>2. \A q \in Scanned(req[c]) : \E k \in 1..next[c] : q = req[c].proofs[k]
          BY <1>r, <4>3, RequestProofs
        <5>3. \A q \in Scanned(req'[c]) : <<q, found'[c]>> \in held'[c]
          BY <1>0, <4>1, <4>2, <5>2
        <5> QED BY <5>1, <5>3 DEF Scanning, Justified, Deserved
      <4>4. CASE next[c] # Len(req[c].proofs)
        <5>1. pc'[c] = "resolve" /\ next'[c] - 1 = next[c]
          BY <1>0, <1>r, <4>1, <4>4
        <5>2. next'[c] \in DOMAIN req'[c].proofs
          BY <1>0, <1>r, <4>1, <4>4, RequestProofs
        <5> QED BY <1>0, <4>1, <4>2, <5>1, <5>2 DEF Scanning, Justified, Resolved
      <4> QED BY <4>3, <4>4
    <3> QED BY <1>1, <3>1, <3>2, <3>3
  <2>3. Recorded(c)'
    BY <1>c DEF Recorded
  <2> QED BY <2>1, <2>2, <2>3 DEF Upright
<1>6. ASSUME NEW b \in Checkin \ {c} PROVE Upright(b)'
  <2>1. /\ UNCHANGED <<users, owner>> /\ b \in Checkin
        /\ pc'[b] = pc[b] /\ req'[b] = req[b] /\ next'[b] = next[b]
        /\ found'[b] = found[b] /\ event'[b] = event[b] /\ held'[b] = held[b]
        /\ \A n \in DOMAIN events : n \in DOMAIN events' /\ events'[n] = events[n]
    BY <1>0, <1>o DEF tables
  <2> QED BY <2>1, OthersStay
<1> QED BY <1>2, <1>3, <1>4, <1>5, <1>6, TypesAfter DEF IInv

\* The event is appended: what the check-in found is borne out by what is held.
LEMMA RecordHolds ==
  ASSUME IInv, NEW c \in Checkin, Record(c)
  PROVE  IInv'
<1>t. LocalTyped /\ TablesTyped /\ Served
  BY TypeParts DEF IInv
<1>e. PICK e : e = [user |-> Whom(c), resource |-> req[c].resource,
                    status |-> pc[c], day |-> clock[c]]
  OBVIOUS
<1>0. /\ Resolved(c) /\ events' = Append(events, e)
      /\ deserved' = Append(deserved, Deserved(c))
      /\ UNCHANGED <<users, owner, today, answers>>
  BY <1>e DEF Record
<1>r. req[c] \in Request /\ req[c].resource \in Resource \cup {NoResource}
  BY <1>t, <1>0, RequestProofs DEF LocalTyped, Resolved
<1>i. e \in Event /\ e.user = Whom(c) /\ e.resource = req[c].resource
  <2>1. Whom(c) \in User \cup {Nobody} /\ clock[c] \in 0..MaxDay
    BY <1>t DEF Whom, LocalTyped
  <2> QED BY <1>0, <1>e, <1>r, <2>1 DEF Event, Resolved
<1>n. /\ Len(events) \in Nat /\ DOMAIN events = 1..Len(events)
      /\ Len(events') = Len(events) + 1 /\ DOMAIN events' = 1..(Len(events) + 1)
      /\ \A n \in DOMAIN events : n \in DOMAIN events' /\ events'[n] = events[n]
      /\ events'[Len(events) + 1] = e
      /\ events' \in Seq(Event)
  BY <1>t, <1>0, <1>i DEF TablesTyped
<1>m. Len(events) + 1 \in 0..MaxEvents
  <2>1. c \in Expected
    BY <1>0 DEF Expected, Resolved
  <2>2. IsFiniteSet(Expected) /\ Cardinality(Expected) \in Nat
    BY CheckinAssumption, FS_Subset, FS_CardinalityType DEF Expected
  <2>3. Cardinality(Expected) # 0
    BY <2>1, <2>2, FS_EmptySet
  <2> QED BY <1>n, <2>2, <2>3, CheckinAssumption DEF IInv, Room
<1>d. /\ deserved' \in Seq(BOOLEAN) /\ Len(deserved') = Len(events')
      /\ StatusDeserved'
  <2>1. Deserved(c) = TRUE
    BY <1>0 DEF IInv, Upright, Justified, Deserved
  <2> QED BY <1>t, <1>0, <1>n, <2>1 DEF TablesTyped, IInv, StatusDeserved
<1>1. TablesTyped'
  BY <1>t, <1>0, <1>n, <1>m, <1>d DEF TablesTyped
<1>2. /\ LocalTyped' /\ Served' /\ Upright(c)' /\ c \notin Expected'
      /\ \A b \in Checkin \ {c} :
           /\ pc'[b] = pc[b] /\ req'[b] = req[b] /\ next'[b] = next[b]
           /\ found'[b] = found[b] /\ event'[b] = event[b] /\ held'[b] = held[b]
  <2>1. CASE pc[c] # "matched"
    <3>1. Finish(c)
      BY <2>1 DEF Record
    <3> QED BY <3>1, FinishIsIdle DEF Expected
  <2>2. CASE pc[c] = "matched"
    <3>1. /\ event' = [b \in Checkin |-> IF b = c THEN Len(events) + 1 ELSE event[b]]
          /\ pc' = [b \in Checkin |-> IF b = c THEN "permission" ELSE pc[b]]
          /\ held' = [b \in Checkin |-> IF b = c THEN {} ELSE held[b]]
          /\ UNCHANGED <<req, next, found, clock>>
      BY <1>t, <2>2 DEF Record, LocalTyped
    <3>2. LocalTyped'
      BY <1>t, <1>m, <2>2, <3>1 DEF LocalTyped, Local
    <3>3. Recorded(c)'
      <4>1. e.user = found[c]
        BY <1>i, <2>2 DEF Whom
      <4> QED BY <1>0, <1>i, <1>n, <3>1, <4>1 DEF Recorded
    <3>4. Upright(c)' /\ c \notin Expected'
      BY <3>1, <3>3 DEF Upright, Scanning, Witnessed, Justified, Resolved, Expected
    <3> QED BY <1>t, <3>1, <3>2, <3>4 DEF Served
  <2> QED BY <2>1, <2>2
<1>3. Room'
  <2>1. c \in Expected
    BY <1>0 DEF Expected, Resolved
  <2>2. Cardinality(Expected') = Cardinality(Expected) - 1 /\ Cardinality(Expected) \in Nat
    BY <1>2, <2>1, ExpectedMoves DEF IInv
  <2> QED BY <1>n, <2>2, CheckinAssumption DEF IInv, Room
<1>4. OwnIsCounted'
  BY <1>0, <1>n DEF IInv, OwnIsCounted
<1>5. ASSUME NEW b \in Checkin \ {c} PROVE Upright(b)'
  BY <1>0, <1>n, <1>2, OthersStay
<1>6. TypeOK'
  BY <1>1, <1>2, TypesAfter
<1> QED BY <1>2, <1>3, <1>4, <1>5, <1>6, <1>d DEF IInv

\* The insert fails, and nothing is recorded.
LEMMA RecordFailsHolds ==
  ASSUME IInv, NEW c \in Checkin, RecordFails(c)
  PROVE  IInv'
<1>t. LocalTyped /\ TablesTyped /\ Served
  BY TypeParts DEF IInv
<1>0. Resolved(c) /\ Finish(c) /\ UNCHANGED <<tables, deserved, answers>>
  BY DEF RecordFails
<1>1. TablesTyped' /\ OwnIsCounted' /\ StatusDeserved'
  BY <1>t, <1>0 DEF IInv, TablesTyped, OwnIsCounted, StatusDeserved, tables
<1>2. /\ LocalTyped' /\ Served' /\ pc'[c] = "idle" /\ Upright(c)'
      /\ \A b \in Checkin \ {c} :
           /\ pc'[b] = pc[b] /\ req'[b] = req[b] /\ next'[b] = next[b]
           /\ found'[b] = found[b] /\ event'[b] = event[b] /\ held'[b] = held[b]
  BY <1>0, FinishIsIdle
<1>3. Room'
  <2>1. c \in Expected /\ c \notin Expected'
    BY <1>0, <1>2 DEF Expected, Resolved
  <2>2. Cardinality(Expected') = Cardinality(Expected) - 1 /\ Cardinality(Expected) \in Nat
    BY <1>2, <2>1, ExpectedMoves DEF IInv
  <2>3. Len(events') = Len(events) /\ Len(events) \in Nat
    BY <1>t, <1>0 DEF tables, TablesTyped
  <2> QED BY <2>2, <2>3, CheckinAssumption DEF IInv, Room
<1>5. ASSUME NEW b \in Checkin \ {c} PROVE Upright(b)'
  <2>1. /\ UNCHANGED <<users, owner>> /\ b \in Checkin
        /\ \A n \in DOMAIN events : n \in DOMAIN events' /\ events'[n] = events[n]
    BY <1>0 DEF tables
  <2> QED BY <1>2, <2>1, OthersStay
<1>6. TypeOK'
  BY <1>1, <1>2, TypesAfter
<1> QED BY <1>1, <1>2, <1>3, <1>5, <1>6 DEF IInv

\* The permission is asked for, and the day read again.
LEMMA CheckAccessHolds ==
  ASSUME IInv, NEW c \in Checkin, CheckAccess(c)
  PROVE  IInv'
<1>t. LocalTyped /\ TablesTyped /\ Served
  BY TypeParts DEF IInv
<1>0. /\ pc[c] = "permission" /\ pc' = [pc EXCEPT ![c] = "count"]
      /\ clock' = [clock EXCEPT ![c] = today]
      /\ UNCHANGED <<tables, req, next, found, event, held, deserved, answers>>
  BY DEF CheckAccess
<1>1. TablesTyped' /\ OwnIsCounted' /\ StatusDeserved' /\ Served'
  BY <1>t, <1>0 DEF IInv, TablesTyped, OwnIsCounted, StatusDeserved, Served, tables
<1>2. LocalTyped'
  BY <1>t, <1>0 DEF LocalTyped, TablesTyped, Local
<1>3. Room'
  <2>1. Expected' = Expected
    BY <1>t, <1>0 DEF Expected, LocalTyped
  <2> QED BY <1>0, <2>1 DEF IInv, Room, tables
<1>4. \A b \in Checkin : Upright(b)'
  BY <1>t, <1>0 DEF IInv, Upright, Scanning, Witnessed, Justified, Recorded, Expected,
     Resolved, Deserved, LocalTyped, tables
<1>5. TypeOK'
  BY <1>1, <1>2, TypesAfter
<1> QED BY <1>1, <1>3, <1>4, <1>5 DEF IInv

\* The count: it is after the check-in's own event, which counts on the day it is of.
LEMMA CountHolds ==
  ASSUME IInv, NEW c \in Checkin, Count(c)
  PROVE  IInv'
<1>t. LocalTyped /\ TablesTyped /\ Served
  BY TypeParts DEF IInv
<1>0. pc[c] = "count" /\ Finish(c) /\ UNCHANGED <<tables, deserved>>
  BY DEF Count
<1>1. TablesTyped' /\ StatusDeserved'
  BY <1>t, <1>0 DEF IInv, TablesTyped, StatusDeserved, tables
<1>2. /\ LocalTyped' /\ Served' /\ pc'[c] = "idle" /\ Upright(c)'
      /\ \A b \in Checkin \ {c} :
           /\ pc'[b] = pc[b] /\ req'[b] = req[b] /\ next'[b] = next[b]
           /\ found'[b] = found[b] /\ event'[b] = event[b] /\ held'[b] = held[b]
  BY <1>0, FinishIsIdle
<1>3. Room'
  <2>1. Expected' = Expected
    BY <1>0, <1>2 DEF Expected
  <2> QED BY <1>0, <2>1 DEF IInv, Room, tables
<1>4. OwnIsCounted'
  <2>1. PICK already, a :
          /\ already = "no" => ~HasEventToday(found[c], req[c].resource, clock[c])
          /\ a = Answer(c, already) /\ answers' = answers \cup {a}
    BY DEF Count
  <2>2. /\ a.event = event[c] /\ a.user = found[c] /\ a.resource = req[c].resource
        /\ a.already = already /\ a.day = clock[c]
    BY <2>1 DEF Answer
  <2>3. /\ event[c] \in DOMAIN events
        /\ events[event[c]].resource = req[c].resource
        /\ found[c] \in users => events[event[c]].user = found[c]
    BY <1>0 DEF IInv, Upright, Recorded
  <2>4. clock[c] \in Nat /\ clock[c] >= clock[c]
    BY <1>t, CheckinAssumption DEF LocalTyped
  <2>5. a.already = "no" /\ a.resource # NoResource /\ a.user \in users =>
          events[a.event].day # a.day
    BY <2>1, <2>2, <2>3, <2>4 DEF HasEventToday
  <2> QED BY <1>0, <2>1, <2>2, <2>3, <2>5 DEF IInv, OwnIsCounted, tables
<1>5. ASSUME NEW b \in Checkin \ {c} PROVE Upright(b)'
  <2>1. /\ UNCHANGED <<users, owner>> /\ b \in Checkin
        /\ \A n \in DOMAIN events : n \in DOMAIN events' /\ events'[n] = events[n]
    BY <1>0 DEF tables
  <2> QED BY <1>2, <2>1, OthersStay
<1>6. TypeOK'
  BY <1>1, <1>2, TypesAfter
<1> QED BY <1>1, <1>2, <1>3, <1>4, <1>5, <1>6 DEF IInv

-----------------------------------------------------------------------------
(* Administrators, and the clock.                                          *)

\* A credential gets an owner, which the check-ins that have scanned it note.
LEMMA AddCredentialHolds ==
  ASSUME IInv, NEW u \in User, NEW r \in Ref, AddCredential(u, r)
  PROVE  IInv'
<1>t. LocalTyped /\ TablesTyped /\ Served
  BY TypeParts DEF IInv
<1>0. /\ owner[r] = Nobody
      /\ owner' = [owner EXCEPT ![r] = u]
      /\ held' = [c \in Checkin |-> IF c \in Expected /\ r \in Scanned(req[c])
                                      THEN held[c] \cup {<<r, u>>} ELSE held[c]]
      /\ UNCHANGED <<users, events, today, local, deserved, answers>>
  BY DEF AddCredential
<1>1. TablesTyped' /\ OwnIsCounted' /\ StatusDeserved' /\ Served'
  BY <1>t, <1>0 DEF IInv, TablesTyped, OwnIsCounted, StatusDeserved, Served, local
<1>2. LocalTyped'
  <2>1. held' \in [Checkin -> SUBSET (Ref \X User)]
    BY <1>t, <1>0 DEF LocalTyped
  <2> QED BY <1>t, <1>0, <2>1 DEF LocalTyped, local
<1>3. Room'
  BY <1>0 DEF IInv, Room, Expected, local
<1>4. ASSUME NEW c \in Checkin
      PROVE  Upright(c)'
  <2>0. UNCHANGED <<pc, req, next, found, event, users, events>> /\ held[c] \subseteq held'[c]
    BY <1>0 DEF local
  <2>1. Witnessed(c)'
    <3> SUFFICES ASSUME c \in Expected, NEW p \in Scanned(req[c]), owner'[p] # Nobody
                 PROVE  <<p, owner'[p]>> \in held'[c]
      BY <2>0 DEF Witnessed, Expected
    <3>1. p \in Ref
      BY <1>t, RequestProofs DEF LocalTyped, Expected
    <3>2. CASE p = r
      BY <1>t, <1>0, <3>1, <3>2 DEF TablesTyped
    <3>3. CASE p # r
      BY <1>t, <1>0, <2>0, <3>1, <3>3 DEF TablesTyped, IInv, Upright, Witnessed
    <3> QED BY <3>2, <3>3
  <2>2. Scanning(c)' /\ Recorded(c)'
    BY <2>0 DEF IInv, Upright, Scanning, Recorded
  <2>3. Justified(c)'
    BY <2>0 DEF IInv, Upright, Justified, Resolved, Deserved
  <2> QED BY <2>1, <2>2, <2>3 DEF Upright
<1>5. TypeOK'
  BY <1>1, <1>2, TypesAfter
<1> QED BY <1>1, <1>3, <1>4, <1>5 DEF IInv

\* One loses its owner.
LEMMA DeleteCredentialHolds ==
  ASSUME IInv, NEW r \in Ref, DeleteCredential(r)
  PROVE  IInv'
<1>t. LocalTyped /\ TablesTyped /\ Served
  BY TypeParts DEF IInv
<1>0. /\ owner' = [owner EXCEPT ![r] = Nobody]
      /\ UNCHANGED <<users, events, today, local, held, deserved, answers>>
  BY DEF DeleteCredential
<1>1. TablesTyped' /\ OwnIsCounted' /\ StatusDeserved' /\ Served' /\ LocalTyped'
  BY <1>t, <1>0 DEF IInv, TablesTyped, OwnIsCounted, StatusDeserved, Served, LocalTyped, local
<1>3. Room'
  BY <1>0 DEF IInv, Room, Expected, local
<1>4. ASSUME NEW c \in Checkin
      PROVE  Upright(c)'
  <2>0. UNCHANGED <<pc, req, next, found, event, held, users, events>>
    BY <1>0 DEF local
  <2>1. Witnessed(c)'
    <3> SUFFICES ASSUME c \in Expected, NEW p \in Scanned(req[c]), owner'[p] # Nobody
                 PROVE  <<p, owner'[p]>> \in held[c]
      BY <2>0 DEF Witnessed, Expected
    <3>1. p \in Ref
      BY <1>t, RequestProofs DEF LocalTyped, Expected
    <3>2. owner'[p] = owner[p]
      BY <1>t, <1>0, <3>1 DEF TablesTyped
    <3> QED BY <3>2 DEF IInv, Upright, Witnessed
  <2>2. Scanning(c)' /\ Recorded(c)' /\ Justified(c)'
    BY <2>0 DEF IInv, Upright, Scanning, Recorded, Justified, Resolved, Deserved
  <2> QED BY <2>1, <2>2 DEF Upright
<1>5. TypeOK'
  BY <1>1, TypesAfter
<1> QED BY <1>1, <1>3, <1>4, <1>5 DEF IInv

\* A user goes. Their credentials and their name on events go with them, or stay.
LEMMA DeleteUserHolds ==
  ASSUME IInv, NEW u \in User, DeleteUser(u)
  PROVE  IInv'
<1>t. LocalTyped /\ TablesTyped /\ Served
  BY TypeParts DEF IInv
<1>0. /\ users' = users \ {u}
      /\ UNCHANGED <<today, local, held, deserved, answers>>
  BY DEF DeleteUser
<1>o. /\ owner' \in [Ref -> User \cup {Nobody}]
      /\ \A r \in Ref : owner'[r] # Nobody => owner'[r] = owner[r]
  BY <1>t DEF DeleteUser, TablesTyped
<1>e. /\ events' \in Seq(Event) /\ Len(events') = Len(events)
      /\ DOMAIN events' = DOMAIN events
      /\ \A n \in DOMAIN events :
           /\ events'[n].resource = events[n].resource /\ events'[n].day = events[n].day
           /\ events'[n].user = events[n].user \/ events[n].user = u
  <2>1. CASE UNCHANGED events
    BY <1>t, <2>1 DEF TablesTyped
  <2>2. CASE events' = [n \in DOMAIN events |->
                          IF events[n].user = u THEN [events[n] EXCEPT !.user = Nobody]
                                                ELSE events[n]]
    <3>1. \A n \in 1..Len(events) : events[n] \in Event
      BY <1>t DEF TablesTyped
    <3>2. \A n \in 1..Len(events) :
            /\ [events[n] EXCEPT !.user = Nobody] \in Event
            /\ [events[n] EXCEPT !.user = Nobody].resource = events[n].resource
            /\ [events[n] EXCEPT !.user = Nobody].day = events[n].day
      BY <3>1 DEF Event
    <3>3. DOMAIN events = 1..Len(events) /\ Len(events) \in Nat
      BY <1>t DEF TablesTyped
    <3>4. \A n \in 1..Len(events) : events'[n] \in Event
      BY <2>2, <3>1, <3>2, <3>3
    <3>5. events' \in [1..Len(events) -> Event]
      BY <2>2, <3>3, <3>4
    <3>6. events' \in Seq(Event) /\ Len(events') = Len(events)
      BY <3>3, <3>5
    <3> QED BY <2>2, <3>2, <3>3, <3>6
  <2> QED BY <2>1, <2>2 DEF DeleteUser
<1>1. TablesTyped' /\ StatusDeserved' /\ Served' /\ LocalTyped'
  <2>1. TablesTyped'
    BY <1>t, <1>0, <1>o, <1>e DEF TablesTyped
  <2>2. StatusDeserved' /\ Served' /\ LocalTyped'
    BY <1>t, <1>0 DEF IInv, StatusDeserved, Served, LocalTyped, local
  <2> QED BY <2>1, <2>2
<1>2. OwnIsCounted'
  BY <1>0, <1>e DEF IInv, OwnIsCounted
<1>3. Room'
  BY <1>0, <1>e DEF IInv, Room, Expected, local
<1>4. ASSUME NEW c \in Checkin
      PROVE  Upright(c)'
  <2>0. UNCHANGED <<pc, req, next, found, event, held>>
    BY <1>0 DEF local
  <2>1. Witnessed(c)'
    <3> SUFFICES ASSUME c \in Expected, NEW p \in Scanned(req[c]), owner'[p] # Nobody
                 PROVE  <<p, owner'[p]>> \in held[c]
      BY <2>0 DEF Witnessed, Expected
    <3>1. p \in Ref
      BY <1>t, RequestProofs DEF LocalTyped, Expected
    <3>2. owner'[p] = owner[p]
      BY <1>o, <3>1
    <3> QED BY <3>2 DEF IInv, Upright, Witnessed
  <2>2. Recorded(c)'
    BY <1>0, <1>e, <2>0 DEF IInv, Upright, Recorded
  <2>3. Scanning(c)' /\ Justified(c)'
    BY <2>0 DEF IInv, Upright, Scanning, Justified, Resolved, Deserved
  <2> QED BY <2>1, <2>2, <2>3 DEF Upright
<1>5. TypeOK'
  BY <1>1, TypesAfter
<1> QED BY <1>1, <1>2, <1>3, <1>4, <1>5 DEF IInv

\* Midnight comes, or nothing happens.
LEMMA MidnightHolds ==
  ASSUME IInv, Midnight \/ UNCHANGED vars
  PROVE  IInv'
<1>t. LocalTyped /\ TablesTyped /\ Served
  BY TypeParts DEF IInv
<1>0. /\ UNCHANGED <<users, owner, events, local, held, deserved, answers>>
      /\ today' \in 0..MaxDay
  BY <1>t, CheckinAssumption DEF Midnight, TablesTyped, vars, tables
<1>1. TablesTyped' /\ LocalTyped' /\ Served' /\ OwnIsCounted' /\ StatusDeserved' /\ Room'
  BY <1>t, <1>0 DEF IInv, TablesTyped, LocalTyped, Served, OwnIsCounted, StatusDeserved,
     Room, Expected, local
<1>2. \A c \in Checkin : Upright(c)'
  BY <1>0 DEF IInv, Upright, Scanning, Witnessed, Justified, Recorded, Expected, Resolved,
     Deserved, local
<1>3. TypeOK'
  BY <1>1, TypesAfter
<1> QED BY <1>1, <1>2, <1>3 DEF IInv

-----------------------------------------------------------------------------
\* Every step keeps the invariant.
LEMMA StepHolds ==
  ASSUME IInv, [Next]_vars
  PROVE  IInv'
<1>1. ASSUME NEW c \in Checkin, Serve(c)
      PROVE  IInv'
  BY <1>1, ReceiveHolds, ResolveHolds, RecordHolds, RecordFailsHolds, CheckAccessHolds,
     CountHolds DEF Serve
<1>2. ASSUME NEW u \in User, NEW r \in Ref, AddCredential(u, r)
      PROVE  IInv'
  BY <1>2, AddCredentialHolds
<1>3. ASSUME NEW r \in Ref, DeleteCredential(r)
      PROVE  IInv'
  BY <1>3, DeleteCredentialHolds
<1>4. ASSUME NEW u \in User, DeleteUser(u)
      PROVE  IInv'
  BY <1>4, DeleteUserHolds
<1>5. CASE Midnight \/ UNCHANGED vars
  BY <1>5, MidnightHolds
<1> QED BY <1>1, <1>2, <1>3, <1>4, <1>5 DEF Next

LEMMA Invariance == Spec => []IInv
  BY InitHolds, StepHolds, PTL DEF Spec

\* The variables keep their types: events are rows the columns can hold, whatever is
\* scanned, enrolled and deleted by whom at the same time.
THEOREM CheckinTypes == Spec => []TypeOK
<1>1. IInv => TypeOK
  BY DEF IInv
<1> QED BY Invariance, <1>1, PTL

\* With any number of credentials of one check-in, of check-ins and of administrators,
\* an event is a match only if each credential was that user's at some time during the
\* check-in, and a mismatch only if two were different people's (ResolveUser).
THEOREM StatusIsBorneOut == Spec => []StatusDeserved
<1>1. IInv => StatusDeserved
  BY DEF IInv
<1> QED BY Invariance, <1>1, PTL

\* However many check-ins of one user overlap, two are told that they are the first of
\* their day at a resource only if neither's event is of that day: each was recorded on
\* one side of a midnight and counted on the other (handleDeviceCheckin, HasEventToday).
THEOREM OneFirstADay == Spec => []NoSecondFirst
<1>1. IInv => NoSecondFirst
  BY DEF IInv, OwnIsCounted, NoSecondFirst
<1> QED BY Invariance, <1>1, PTL
=============================================================================
