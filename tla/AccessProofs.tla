---------------------------- MODULE AccessProofs ----------------------------
(***************************************************************************)
(* Theorems about who may do what: RbacCache and the walk of group trees   *)
(* it rests on, for any users, roles, groups, permissions and requests,    *)
(* and ApiClients, for any grants, clients and calls. The two share no     *)
(* name.                                                                   *)
(***************************************************************************)
EXTENDS RbacCache, ApiClients, FiniteSetTheorems, FunctionTheorems, SequenceTheorems,
        WellFoundedInduction, TLAPS

-----------------------------------------------------------------------------
(* Induction on the naturals, from the well-foundedness of < on them.      *)

\* A set of naturals that is not empty has a least member.
LEMMA LeastNat ==
  ASSUME NEW T \in SUBSET Nat, T # {}
  PROVE  \E m \in T : \A n \in T : m <= n
<1> DEFINE R == OpToRel(<, Nat)
<1>1. IsWellFoundedOn(R, Nat)
  BY NatLessThanWellFounded
<1>2. PICK m \in T : \A n \in T : <<n, m>> \notin R
  <2> HIDE DEF R
  <2> QED BY <1>1, WFMin
<1>3. \A n \in T : ~(n < m)
  BY <1>2 DEF OpToRel
<1> QED BY <1>3

\* One that holds 0 and with every number the next holds them all.
LEMMA Up ==
  ASSUME NEW T \in SUBSET Nat, 0 \in T, \A n \in T : n + 1 \in T
  PROVE  T = Nat
<1> SUFFICES ASSUME Nat \ T # {} PROVE FALSE
  OBVIOUS
<1>1. PICK m \in Nat \ T : \A n \in Nat \ T : m <= n
  BY LeastNat
<1>2. m - 1 \in Nat /\ m - 1 \notin Nat \ T
  BY <1>1
<1> QED BY <1>1, <1>2

-----------------------------------------------------------------------------
(* The two loops of expandAncestorGroups as the recursions they are.       *)

\* Where the inner loop is before each round.
LEMMA RoundsIs ==
  ASSUME NEW par, NEW seen, NEW start, NEW at, at = Rounds(par, seen, start)
  PROVE  at = [i \in 0..MaxDepth |-> IF i = 0 THEN [cur |-> start, seen |-> seen]
                                             ELSE Round(par, at[i - 1])]
<1> DEFINE Sat(k, g) == g = [i \in 0..k |-> IF i = 0 THEN [cur |-> start, seen |-> seen]
                                                    ELSE Round(par, g[i - 1])]
<1> DEFINE T == {k \in Nat : \E g : Sat(k, g)}
<1>1. 0 \in T
  <2>1. Sat(0, [i \in 0..0 |-> [cur |-> start, seen |-> seen]])
    OBVIOUS
  <2> QED BY <2>1
<1>2. ASSUME NEW k \in T PROVE k + 1 \in T
  <2>1. PICK g : Sat(k, g)
    OBVIOUS
  <2>2. PICK h : h = [i \in 0..(k + 1) |-> IF i <= k THEN g[i] ELSE Round(par, g[k])]
    OBVIOUS
  <2>3. Sat(k + 1, h)
    BY <2>1, <2>2
  <2> QED BY <2>3
<1>3. MaxDepth \in T
  <2>1. T \in SUBSET Nat
    OBVIOUS
  <2> HIDE DEF T
  <2> QED BY <1>1, <1>2, <2>1, Up, DepthAssumption
<1>4. \E g : Sat(MaxDepth, g)
  BY <1>3
<1>5. \E g : g = [i \in 0..MaxDepth |-> IF i = 0 THEN [cur |-> start, seen |-> seen]
                                                 ELSE Round(par, g[i - 1])]
  BY <1>4
<1> QED BY Zenon, <1>5 DEF Rounds

\* What has been seen after each of the outer loop's rounds.
LEMMA WalksIs ==
  ASSUME NEW par, NEW rows, Len(rows) \in Nat, NEW after, after = Walks(par, rows)
  PROVE  after = [n \in 0..Len(rows) |-> IF n = 0 THEN {}
                                         ELSE WalkUp(par, after[n - 1], rows[n])]
<1> DEFINE Sat(k, g) == g = [n \in 0..k |-> IF n = 0 THEN {}
                                            ELSE WalkUp(par, g[n - 1], rows[n])]
<1> DEFINE T == {k \in Nat : \E g : Sat(k, g)}
<1>1. 0 \in T
  <2>1. Sat(0, [n \in 0..0 |-> {}])
    OBVIOUS
  <2> QED BY <2>1
<1>2. ASSUME NEW k \in T PROVE k + 1 \in T
  <2>1. PICK g : Sat(k, g)
    OBVIOUS
  <2>2. PICK h : h = [n \in 0..(k + 1) |-> IF n <= k THEN g[n]
                                           ELSE WalkUp(par, g[k], rows[k + 1])]
    OBVIOUS
  <2>a. g = [n \in 0..k |-> IF n = 0 THEN {} ELSE WalkUp(par, g[n - 1], rows[n])]
    BY <2>1
  <2>b. k + 1 \in Nat
    OBVIOUS
  <2> HIDE DEF T, Sat
  <2>3. \A n \in 0..k : g[n] = IF n = 0 THEN {} ELSE WalkUp(par, g[n - 1], rows[n])
    BY Zenon, <2>a
  <2> USE DEF T, Sat
  <2>4. ASSUME NEW n \in 0..(k + 1)
        PROVE  h[n] = IF n = 0 THEN {} ELSE WalkUp(par, h[n - 1], rows[n])
    <3>1. CASE n = 0
      BY <2>2, <2>3, <3>1, 0 \in 0..k
    <3>2. CASE n # 0 /\ n <= k
      <4>1. n \in 0..k /\ n - 1 \in 0..(k + 1) /\ n - 1 <= k
        BY <3>2
      <4>2. h[n] = g[n] /\ h[n - 1] = g[n - 1]
        BY <2>2, <3>2, <4>1
      <4> QED BY <2>3, <3>2, <4>1, <4>2
    <3>3. CASE n = k + 1
      <4>1. n - 1 = k /\ k \in 0..(k + 1) /\ ~(n <= k) /\ n # 0
        BY <3>3
      <4>2. h[n - 1] = g[k] /\ h[n] = WalkUp(par, g[k], rows[k + 1])
        BY <2>2, <4>1
      <4> QED BY <3>3, <4>1, <4>2
    <3> QED BY <3>1, <3>2, <3>3
  <2>5. Sat(k + 1, h)
    BY <2>2, <2>4
  <2> QED BY <2>5, <2>b
<1>3. Len(rows) \in T
  <2>1. T \in SUBSET Nat
    OBVIOUS
  <2> HIDE DEF T
  <2> QED BY <1>1, <1>2, <2>1, Up
<1>5. \E g : g = [n \in 0..Len(rows) |-> IF n = 0 THEN {}
                                         ELSE WalkUp(par, g[n - 1], rows[n])]
  BY <1>3
<1> QED BY Zenon, <1>5 DEF Walks

-----------------------------------------------------------------------------
(* What the two loops return.                                              *)

\* The ancestors of groups are groups, hold them, and the parent of each.
LEMMA AncestorsClosed ==
  ASSUME NEW par \in ParentMap, NEW S \in SUBSET Group
  PROVE  /\ Ancestors(par, S) \subseteq Group /\ S \subseteq Ancestors(par, S)
         /\ Closed(par, Ancestors(par, S))
  BY DEF Ancestors, Closed, ParentMap

\* They are in every set of groups that does so.
LEMMA AncestorsLeast ==
  ASSUME NEW par, NEW S, NEW T \in SUBSET Group, S \subseteq T, Closed(par, T)
  PROVE  Ancestors(par, S) \subseteq T
  BY DEF Ancestors

\* More groups have more of them.
LEMMA AncestorsGrow ==
  ASSUME NEW par, NEW S, NEW T, S \subseteq T
  PROVE  Ancestors(par, S) \subseteq Ancestors(par, T)
  BY DEF Ancestors

\* Before round i of a walk from start: what was seen on the way are ancestors of
\* start, one of them for each round unless the walk has ended, each with its parent
\* unless the walk is there.
WalkedTo(par, seen, start, i, was) ==
  /\ seen \subseteq was.seen /\ was.seen \subseteq seen \cup Ancestors(par, {start})
  /\ was.cur \in Ancestors(par, {start}) \cup {NoGroup}
  /\ start \in was.seen \cup {was.cur}
  /\ \A g \in was.seen \ seen : par[g] \in was.seen \cup {was.cur, NoGroup}
  /\ \/ was.cur \in was.seen \cup {NoGroup}
     \/ IsFiniteSet(was.seen \ seen) /\ Cardinality(was.seen \ seen) = i

\* A round goes one further.
LEMMA RoundWalks ==
  ASSUME NEW par \in ParentMap, NEW seen \in SUBSET Group, NEW start \in Group,
         NEW i \in Nat, NEW was, WalkedTo(par, seen, start, i, was)
  PROVE  WalkedTo(par, seen, start, i + 1, Round(par, was))
<1>1. CASE was.cur \in was.seen \cup {NoGroup}
  BY <1>1 DEF WalkedTo, Round
<1>2. CASE was.cur \notin was.seen \cup {NoGroup}
  <2> DEFINE new == [cur |-> par[was.cur], seen |-> was.seen \cup {was.cur}]
  <2>1. Round(par, was) = new
    BY <1>2 DEF Round
  <2>2. new.cur = par[was.cur] /\ new.seen = was.seen \cup {was.cur}
    OBVIOUS
  <2>3. was.cur \in Ancestors(par, {start})
    BY <1>2 DEF WalkedTo
  <2>4. new.cur \in Ancestors(par, {start}) \cup {NoGroup}
    BY <2>2, <2>3, AncestorsClosed DEF Closed
  <2>5. /\ new.seen \ seen = (was.seen \ seen) \cup {was.cur}
        /\ was.cur \notin was.seen \ seen
    BY <1>2, <2>2 DEF WalkedTo
  <2>6. IsFiniteSet(new.seen \ seen) /\ Cardinality(new.seen \ seen) = i + 1
    <3>1. PICK A : A = was.seen \ seen
      OBVIOUS
    <3>2. IsFiniteSet(A) /\ Cardinality(A) = i /\ was.cur \notin A
      BY <1>2, <2>5, <3>1 DEF WalkedTo
    <3>3. IsFiniteSet(A \cup {was.cur}) /\ Cardinality(A \cup {was.cur}) = i + 1
      BY <3>2, FS_AddElement
    <3> QED BY <2>5, <3>1, <3>3
  <2> HIDE DEF new
  <2>7. \A g \in new.seen \ seen : par[g] \in new.seen \cup {new.cur, NoGroup}
    BY <2>2, <2>5 DEF WalkedTo
  <2>8. /\ seen \subseteq new.seen /\ new.seen \subseteq seen \cup Ancestors(par, {start})
        /\ start \in new.seen \cup {new.cur}
    BY <2>2, <2>3 DEF WalkedTo
  <2> QED BY <2>1, <2>4, <2>6, <2>7, <2>8 DEF WalkedTo
<1> QED BY <1>1, <1>2

\* So does the walk as a whole.
LEMMA WalkEnds ==
  ASSUME NEW par \in ParentMap, NEW seen \in SUBSET Group, NEW start \in Group
  PROVE  WalkedTo(par, seen, start, MaxDepth, Rounds(par, seen, start)[MaxDepth])
<1>1. PICK at : at = Rounds(par, seen, start)
  OBVIOUS
<1>2. at = [i \in 0..MaxDepth |-> IF i = 0 THEN [cur |-> start, seen |-> seen]
                                  ELSE Round(par, at[i - 1])]
  BY <1>1, RoundsIs
<1> DEFINE T == {i \in Nat : i <= MaxDepth => WalkedTo(par, seen, start, i, at[i])}
<1>3. 0 \in T
  <2>1. at[0].cur = start /\ at[0].seen = seen
    BY <1>2, DepthAssumption
  <2>2. start \in Ancestors(par, {start})
    BY AncestorsClosed
  <2>3. at[0].seen \ seen = {} /\ IsFiniteSet({}) /\ Cardinality({}) = 0
    BY <2>1, FS_EmptySet
  <2> QED BY <2>1, <2>2, <2>3 DEF WalkedTo
<1>4. ASSUME NEW i \in T
      PROVE  i + 1 \in T
  <2> SUFFICES ASSUME i + 1 <= MaxDepth PROVE WalkedTo(par, seen, start, i + 1, at[i + 1])
    OBVIOUS
  <2>1. WalkedTo(par, seen, start, i, at[i])
    BY DepthAssumption
  <2>2. at[i + 1] = Round(par, at[i])
    BY <1>2, DepthAssumption
  <2> QED BY <2>1, <2>2, RoundWalks
<1>5. T \in SUBSET Nat
  OBVIOUS
<1>6. MaxDepth \in T
  <2> HIDE DEF T
  <2> QED BY <1>3, <1>4, <1>5, Up, DepthAssumption
<1> QED BY <1>1, <1>6, DepthAssumption

\* A walk adds ancestors of its start only, and where there are no more of them than
\* the guard lets through, all of them.
LEMMA WalkUpSees ==
  ASSUME NEW par \in ParentMap, NEW seen \in SUBSET Group, NEW start \in Group
  PROVE  /\ seen \subseteq WalkUp(par, seen, start)
         /\ WalkUp(par, seen, start) \subseteq seen \cup Ancestors(par, {start})
         /\ (/\ Closed(par, seen)
             /\ IsFiniteSet(Ancestors(par, {start}))
             /\ Cardinality(Ancestors(par, {start})) <= MaxDepth) =>
               start \in WalkUp(par, seen, start) /\ Closed(par, WalkUp(par, seen, start))
<1>1. PICK was : was = Rounds(par, seen, start)[MaxDepth]
  OBVIOUS
<1>2. WalkUp(par, seen, start) = was.seen
  BY <1>1 DEF WalkUp
<1>3. WalkedTo(par, seen, start, MaxDepth, was)
  BY <1>1, WalkEnds
<1>4. ASSUME Closed(par, seen), IsFiniteSet(Ancestors(par, {start})),
             Cardinality(Ancestors(par, {start})) <= MaxDepth
      PROVE  start \in was.seen /\ Closed(par, was.seen)
  <2>1. was.cur \in was.seen \cup {NoGroup}
    <3> SUFFICES ASSUME was.cur \notin was.seen \cup {NoGroup} PROVE FALSE
      OBVIOUS
    <3>1. /\ Cardinality(was.seen \ seen) = MaxDepth
          /\ was.seen \ seen \subseteq Ancestors(par, {start})
      BY <1>3 DEF WalkedTo
    <3>2. was.seen \ seen = Ancestors(par, {start})
      <4>1. PICK A, B : A = was.seen \ seen /\ B = Ancestors(par, {start})
        OBVIOUS
      <4>2. /\ IsFiniteSet(B) /\ Cardinality(B) <= MaxDepth /\ Cardinality(A) = MaxDepth
            /\ A \in SUBSET B
        BY <1>4, <3>1, <4>1
      <4>3. Cardinality(B) \in Nat /\ Cardinality(A) <= Cardinality(B)
        BY <4>2, FS_Subset, FS_CardinalityType
      <4>4. A = B
        BY <4>2, <4>3, FS_Subset, DepthAssumption
      <4> QED BY <4>1, <4>4
    <3> QED BY <1>3, <3>2 DEF WalkedTo
  <2>2. start # NoGroup
    BY NoGroupAssumption
  <2> QED BY <1>3, <1>4, <2>1, <2>2 DEF WalkedTo, Closed
<1> QED BY <1>2, <1>3, <1>4 DEF WalkedTo

\* The members of a finite set, each once, in some order.
LEMMA RowsOfSet ==
  ASSUME NEW S, IsFiniteSet(S), NEW rows \in SetToSeqs(S)
  PROVE  /\ Len(rows) = Cardinality(S) /\ Len(rows) \in Nat
         /\ \A n \in 1..Len(rows) : rows[n] \in S
         /\ \A g \in S : \E n \in 1..Len(rows) : rows[n] = g
<1>1. Cardinality(S) \in Nat
  BY FS_CardinalityType
<1>2. /\ rows \in [1..Cardinality(S) -> S]
      /\ \A i, j \in 1..Cardinality(S) : i # j => rows[i] # rows[j]
  BY DEF SetToSeqs
<1>3. Len(rows) = Cardinality(S)
  BY <1>1, <1>2
<1>4. IsFiniteSet(1..Cardinality(S)) /\ Cardinality(1..Cardinality(S)) = Cardinality(S)
  BY <1>1, FS_Interval
<1>5. rows \in Injection(1..Cardinality(S), S)
  BY <1>2 DEF Injection, IsInjective
<1>6. rows \in Surjection(1..Cardinality(S), S)
  BY <1>4, <1>5, FS_Injection
<1> QED BY <1>1, <1>2, <1>3, <1>6 DEF Surjection

\* Whatever the order of the rows, expandAncestorGroups returns ancestors of the groups
\* it is given, and all of them where none of those is deeper than its guard.
THEOREM WalkReturnsAncestors ==
  ASSUME NEW par \in ParentMap, NEW S \in SUBSET Group, IsFiniteSet(S),
         NEW rows \in SetToSeqs(S)
  PROVE  /\ expandAncestorGroups(par, rows) \subseteq Ancestors(par, S)
         /\ (\A g \in S : /\ IsFiniteSet(Ancestors(par, {g}))
                         /\ Cardinality(Ancestors(par, {g})) <= MaxDepth) =>
              expandAncestorGroups(par, rows) = Ancestors(par, S)
<1>1. PICK after : after = Walks(par, rows)
  OBVIOUS
<1>r. /\ Len(rows) \in Nat /\ \A n \in 1..Len(rows) : rows[n] \in S
      /\ \A g \in S : \E n \in 1..Len(rows) : rows[n] = g
  BY RowsOfSet
<1>2. after = [n \in 0..Len(rows) |-> IF n = 0 THEN {}
                                      ELSE WalkUp(par, after[n - 1], rows[n])]
  BY <1>1, <1>r, WalksIs
<1>3. after[0] = {} /\ \A n \in 1..Len(rows) : after[n] = WalkUp(par, after[n - 1], rows[n])
  <2>1. after[0] = {}
    BY <1>2, <1>r
  <2>2. ASSUME NEW n \in 1..Len(rows)
        PROVE  after[n] = WalkUp(par, after[n - 1], rows[n])
    <3>1. n \in 0..Len(rows) /\ n # 0
      BY <1>r
    <3> QED BY Zenon, <1>2, <3>1
  <2> QED BY <2>1, <2>2
<1>4. expandAncestorGroups(par, rows) = after[Len(rows)]
  BY <1>1 DEF expandAncestorGroups
<1>5. after[Len(rows)] \subseteq Ancestors(par, S)
  <2> DEFINE T == {n \in Nat : n <= Len(rows) => after[n] \subseteq Ancestors(par, S)}
  <2>1. 0 \in T /\ T \in SUBSET Nat
    BY <1>3
  <2>2. ASSUME NEW n \in T
        PROVE  n + 1 \in T
    <3> SUFFICES ASSUME n + 1 <= Len(rows) PROVE after[n + 1] \subseteq Ancestors(par, S)
      OBVIOUS
    <3>1. n + 1 \in 1..Len(rows) /\ (n + 1) - 1 = n /\ n <= Len(rows)
      BY <1>r
    <3>2. after[n + 1] = WalkUp(par, after[n], rows[n + 1]) /\ rows[n + 1] \in S
      BY <1>3, <1>r, <3>1
    <3>3. after[n] \subseteq Ancestors(par, S)
      BY <3>1
    <3>4. Ancestors(par, {rows[n + 1]}) \subseteq Ancestors(par, S)
      BY <3>2, AncestorsGrow
    <3>5. after[n] \in SUBSET Group /\ rows[n + 1] \in Group
      BY <3>2, <3>3, AncestorsClosed
    <3>6. WalkUp(par, after[n], rows[n + 1]) \subseteq after[n] \cup Ancestors(par, {rows[n + 1]})
      BY <3>5, WalkUpSees
    <3> QED BY <3>2, <3>3, <3>4, <3>6
  <2> HIDE DEF T
  <2>3. Len(rows) \in T
    BY <1>r, <2>1, <2>2, Up
  <2> QED BY <2>3, <1>r DEF T
<1>6. ASSUME \A g \in S : /\ IsFiniteSet(Ancestors(par, {g}))
                         /\ Cardinality(Ancestors(par, {g})) <= MaxDepth
      PROVE  S \subseteq after[Len(rows)] /\ Closed(par, after[Len(rows)])
  <2> DEFINE T == {n \in Nat : n <= Len(rows) =>
                     /\ after[n] \subseteq Group /\ Closed(par, after[n])
                     /\ \A m \in 1..n : rows[m] \in after[n]}
  <2>1. 0 \in T /\ T \in SUBSET Nat
    BY <1>3 DEF Closed
  <2>2. ASSUME NEW n \in T
        PROVE  n + 1 \in T
    <3> SUFFICES ASSUME n + 1 <= Len(rows)
                 PROVE  /\ after[n + 1] \subseteq Group /\ Closed(par, after[n + 1])
                        /\ \A m \in 1..(n + 1) : rows[m] \in after[n + 1]
      OBVIOUS
    <3>1. n + 1 \in 1..Len(rows) /\ (n + 1) - 1 = n /\ n <= Len(rows)
      BY <1>r
    <3>2. after[n + 1] = WalkUp(par, after[n], rows[n + 1]) /\ rows[n + 1] \in S
      BY <1>3, <1>r, <3>1
    <3>3. /\ after[n] \in SUBSET Group /\ Closed(par, after[n])
          /\ \A m \in 1..n : rows[m] \in after[n]
      BY <3>1
    <3>4. /\ after[n] \subseteq after[n + 1] /\ Closed(par, after[n + 1])
          /\ rows[n + 1] \in after[n + 1]
          /\ after[n + 1] \subseteq after[n] \cup Ancestors(par, {rows[n + 1]})
      <4>1. PICK s \in SUBSET Group : s = after[n]
        BY <3>3
      <4>2. PICK g \in S : g = rows[n + 1]
        BY <3>2
      <4>3. /\ IsFiniteSet(Ancestors(par, {g})) /\ Cardinality(Ancestors(par, {g})) <= MaxDepth
            /\ Closed(par, s) /\ g \in Group
        BY <1>6, <3>3, <4>1
      <4>4. /\ s \subseteq WalkUp(par, s, g) /\ Closed(par, WalkUp(par, s, g))
            /\ g \in WalkUp(par, s, g) /\ WalkUp(par, s, g) \subseteq s \cup Ancestors(par, {g})
        BY <4>3, WalkUpSees
      <4> QED BY <3>2, <4>1, <4>2, <4>4
    <3>5. after[n + 1] \subseteq Group
      BY <3>2, <3>3, <3>4, AncestorsClosed
    <3>6. \A m \in 1..(n + 1) : m \in 1..n \/ m = n + 1
      OBVIOUS
    <3> QED BY <3>3, <3>4, <3>5, <3>6
  <2> HIDE DEF T
  <2>3. Len(rows) \in T
    BY <1>r, <2>1, <2>2, Up
  <2> QED BY <2>3, <1>r DEF T
<1>7. after[Len(rows)] \in SUBSET Group
  BY <1>5, AncestorsClosed
<1> QED BY <1>4, <1>5, <1>6, <1>7, AncestorsLeast

-----------------------------------------------------------------------------
(* The invariant.                                                          *)

\* The tables refer to what is, or was, in them: a row of a role outlives it where no
\* foreign key removes it, but then its id is not used again.
Refs ==
  /\ IsFiniteSet(groups)
  /\ \A u \in User : userGroups[u] \subseteq groups /\ userRoles[u] \subseteq minted
  /\ \A g \in Group : groupRoles[g] \subseteq minted
  /\ \A r \in Role : rolePerms[r] \subseteq permissions
  /\ \A g \in Group : parent[g] \in groups \cup {NoGroup}

\* A request under way is for one user.
ForOneUser ==
  \A q \in Request :
    /\ pc[q] # "idle" => \E u \in User : job[q].user = {u}
    /\ pc[q] = "parents" => IsFiniteSet(job[q].groups)

\* What a request for u at step s holds if nothing was written since it began: each
\* thing it has read is what the tables say now.
AsRead(s, j, u) ==
  /\ s \in {"userGroups", "parents", "userRoles", "groupRoles", "names"} =>
       j.names = {} /\ j.perms = {}
  /\ s = "parents" => j.groups = userGroups[u]
  /\ s \in {"userRoles", "groupRoles"} => j.groups = Ancestors(parent, userGroups[u])
  /\ s = "groupRoles" => j.roles = userRoles[u]
  /\ s \in {"names", "perms"} => j.roles = RolesOf(u)
  /\ s = "perms" => j.names = NamesOf(RolesOf(u))
  /\ s \in {"set", "done"} => [names |-> j.names, perms |-> j.perms] = Effective(u)

\* That is what a request no write has concerned holds.
JobsFresh ==
  \A q \in Request : pc[q] # "idle" /\ q \notin doubt =>
    \A u \in job[q].user : AsRead(pc[q], job[q], u)

TInv == TypeOK /\ Refs /\ ForOneUser
FInv == EntryFresh /\ JobsFresh

\* No group is deeper in the hierarchy than the guard of the walk lets through.
Shallow == \A g \in groups : Cardinality(Ancestors(parent, {g})) <= MaxDepth

\* A job's record.
Job == [user : SUBSET User, groups : SUBSET Group, roles : SUBSET Role,
        names : SUBSET Role, perms : SUBSET Permission]

\* Its fields.
LEMMA JobFields ==
  \A j \in Job : /\ j.user \subseteq User /\ j.groups \subseteq Group /\ j.roles \subseteq Role
                 /\ j.names \subseteq Role /\ j.perms \subseteq Permission
  BY DEF Job

\* What the tables say of a user is made of roles and permissions.
LEMMA EffectiveTypes ==
  ASSUME TInv, NEW u \in User
  PROVE  /\ Ancestors(parent, userGroups[u]) \subseteq Group
         /\ RolesOf(u) \subseteq Role /\ RolesOf(u) \subseteq minted
         /\ NamesOf(RolesOf(u)) \subseteq Role /\ PermsOf(RolesOf(u)) \subseteq Permission
<1>1. parent \in ParentMap /\ userGroups[u] \in SUBSET Group
  BY DEF TInv, TypeOK
<1>2. Ancestors(parent, userGroups[u]) \subseteq Group
  BY <1>1, AncestorsClosed
<1>3. RolesOf(u) \subseteq minted
  BY <1>2 DEF RolesOf, TInv, Refs
<1> QED BY <1>2, <1>3 DEF TInv, TypeOK, NamesOf, PermsOf

\* Nothing has happened yet.
LEMMA InitHolds == Init => TInv /\ FInv
<1> SUFFICES ASSUME Init PROVE TInv /\ FInv
  OBVIOUS
<1>1. /\ userGroups = [u \in User |-> {}] /\ userRoles = [u \in User |-> {}]
      /\ groupRoles = [g \in Group |-> {}] /\ rolePerms = [r \in Role |-> {}]
      /\ cache = [u \in User |-> {}] /\ pc = [q \in Request |-> "idle"]
      /\ todo = [a \in AdminRequest |-> {}] /\ parent = [g \in Group |-> NoGroup]
  BY DEF Init
<1>2. job \in [Request -> Job]
  <2>1. NoJob \in Job
    BY DEF NoJob, Job
  <2> QED BY <2>1 DEF Init
<1>3. TypeOK
  BY <1>1, <1>2 DEF Init, TypeOK, ParentMap, Step, Job
<1>4. Refs
  BY <1>1, FS_EmptySet DEF Init, Refs
<1> QED BY <1>1, <1>3, <1>4 DEF Init, TInv, FInv, ForOneUser, EntryFresh, JobsFresh

-----------------------------------------------------------------------------
(* Steps of a request.                                                     *)

\* With the tables as they were, they say what they said.
LEMMA TablesStay ==
  ASSUME UNCHANGED tables
  PROVE  /\ \A u : RolesOf(u)' = RolesOf(u) /\ Effective(u)' = Effective(u)
         /\ Refs' <=> Refs
  BY DEF tables, RolesOf, Effective, NamesOf, PermsOf, Refs

\* What has been read is as right as it was.
LEMMA ReadingsStay ==
  ASSUME UNCHANGED tables, NEW q, NEW s, NEW j, NEW u, AsRead(s, j, u), pc'[q] = s, job'[q] = j
  PROVE  AsRead(pc[q], job[q], u)'
<1>1. /\ Ancestors(parent, userGroups[u])' = Ancestors(parent, userGroups[u])
      /\ RolesOf(u)' = RolesOf(u) /\ NamesOf(RolesOf(u))' = NamesOf(RolesOf(u))
      /\ Effective(u)' = Effective(u)
      /\ userGroups'[u] = userGroups[u] /\ userRoles'[u] = userRoles[u]
  BY DEF tables, RolesOf, Effective, NamesOf, PermsOf
<1> QED BY <1>1 DEF AsRead

\* A request that goes on to step s holding j keeps the invariant, if what it newly
\* holds is what the tables say.
LEMMA RequestStep ==
  ASSUME TInv, UNCHANGED <<tables, todo>>,
         NEW q \in Request, NEW s \in Step, NEW j \in Job,
         pc' = [pc EXCEPT ![q] = s], job' = [job EXCEPT ![q] = j],
         cache' \in [User -> SUBSET Resolved], suspect' \subseteq User,
         doubt' \subseteq Request, doubt \ {q} \subseteq doubt',
         s # "idle" => \E u \in User : j.user = {u},
         s = "parents" => IsFiniteSet(j.groups),
         Shallow /\ FInv => EntryFresh',
         Shallow /\ FInv /\ s # "idle" /\ q \notin doubt' => \A u \in j.user : AsRead(s, j, u)
  PROVE  TInv' /\ (Shallow /\ FInv => FInv')
<1>1. /\ pc \in [Request -> Step] /\ job \in [Request -> Job]
      /\ pc'[q] = s /\ job'[q] = j
      /\ \A p \in Request \ {q} : pc'[p] = pc[p] /\ job'[p] = job[p]
  BY DEF TInv, TypeOK, Job
<1>2. TypeOK'
  <2>1. pc' \in [Request -> Step] /\ job' \in [Request -> Job]
    BY <1>1
  <2> QED BY <2>1 DEF TInv, TypeOK, tables, Job
<1>3. Refs' /\ ForOneUser'
  BY <1>1, TablesStay DEF TInv, ForOneUser
<1>4. ASSUME Shallow, FInv
      PROVE  JobsFresh'
  <2> SUFFICES ASSUME NEW p \in Request, pc'[p] # "idle", p \notin doubt', NEW u \in job'[p].user
               PROVE  AsRead(pc[p], job[p], u)'
    BY DEF JobsFresh
  <2>1. CASE p = q
    <3>1. AsRead(s, j, u)
      BY <1>1, <1>4, <2>1
    <3> QED BY <1>1, <2>1, <3>1, ReadingsStay
  <2>2. CASE p # q
    <3>1. AsRead(pc[p], job[p], u)
      BY <1>1, <1>4, <2>2 DEF FInv, JobsFresh
    <3> QED BY <1>1, <2>2, <3>1, ReadingsStay
  <2> QED BY <2>1, <2>2
<1> QED BY <1>2, <1>3, <1>4 DEF TInv, FInv

\* Entries nobody touches stay as right as they were.
LEMMA EntriesStay ==
  ASSUME UNCHANGED <<tables, cache, todo, suspect>>, FInv
  PROVE  EntryFresh'
  BY TablesStay DEF FInv, EntryFresh, Pending

\* A request for u finds an entry: it is right unless it is suspect or about to go.
LEMMA HitHolds ==
  ASSUME TInv, NEW q \in Request, NEW u \in User, Hit(q, u)
  PROVE  TInv' /\ (Shallow /\ FInv => FInv')
<1>1. PICK e \in cache[u] :
        job' = [job EXCEPT ![q] = [NoJob EXCEPT !.user = {u}, !.names = e.names,
                                                !.perms = e.perms]]
  BY DEF Hit
<1>2. /\ pc' = [pc EXCEPT ![q] = "done"] /\ UNCHANGED <<tables, cache, todo, suspect>>
      /\ doubt' = IF u \in suspect \/ Pending(u) THEN doubt \cup {q} ELSE doubt \ {q}
  BY DEF Hit
<1>3. e \in Resolved /\ e.names \subseteq Role /\ e.perms \subseteq Permission
      /\ e = [names |-> e.names, perms |-> e.perms]
  BY DEF TInv, TypeOK, Resolved
<1>4. PICK j \in Job : j = [NoJob EXCEPT !.user = {u}, !.names = e.names, !.perms = e.perms]
  BY <1>3 DEF Job, NoJob
<1>5. j.user = {u} /\ j.names = e.names /\ j.perms = e.perms
  BY <1>4 DEF NoJob
<1>6. ASSUME FInv, q \notin doubt'
      PROVE  \A v \in j.user : AsRead("done", j, v)
  <2>1. u \notin suspect /\ ~Pending(u)
    BY <1>2, <1>6
  <2>2. e = Effective(u)
    BY <1>6, <2>1 DEF FInv, EntryFresh
  <2> QED BY <1>3, <1>5, <2>2 DEF AsRead
<1>7. /\ cache' \in [User -> SUBSET Resolved] /\ suspect' \subseteq User
      /\ doubt' \subseteq Request /\ doubt \ {q} \subseteq doubt'
  BY <1>2 DEF TInv, TypeOK
<1>8. "done" \in Step
  BY DEF Step
<1> QED BY <1>1, <1>2, <1>4, <1>5, <1>6, <1>7, <1>8, EntriesStay, RequestStep

\* It finds none, or an error.
LEMMA LookupHolds ==
  ASSUME TInv, NEW q \in Request, NEW u \in User, Lookup(q, u)
  PROVE  TInv' /\ (Shallow /\ FInv => FInv')
<1>1. PICK j \in Job : j = [NoJob EXCEPT !.user = {u}]
  BY DEF Job, NoJob
<1>2. /\ pc' = [pc EXCEPT ![q] = "userGroups"] /\ job' = [job EXCEPT ![q] = j]
      /\ doubt' = doubt \ {q} /\ UNCHANGED <<tables, cache, todo, suspect>>
  BY <1>1 DEF Lookup
<1>3. j.user = {u} /\ j.names = {} /\ j.perms = {}
  BY <1>1 DEF NoJob
<1>4. \A v \in j.user : AsRead("userGroups", j, v)
  BY <1>3 DEF AsRead
<1>5. /\ cache' \in [User -> SUBSET Resolved] /\ suspect' \subseteq User
      /\ doubt' \subseteq Request /\ doubt \ {q} \subseteq doubt'
  BY <1>2 DEF TInv, TypeOK
<1>6. "userGroups" \in Step
  BY DEF Step
<1> QED BY <1>2, <1>3, <1>4, <1>5, <1>6, EntriesStay, RequestStep

\* A step that ends a request.
LEMMA EndHolds ==
  ASSUME TInv, NEW q \in Request, Return(q) \/ QueryFails(q)
  PROVE  TInv' /\ (Shallow /\ FInv => FInv')
<1>1. NoJob \in Job /\ "idle" \in Step
  BY DEF Job, NoJob, Step
<1>2. /\ pc' = [pc EXCEPT ![q] = "idle"] /\ job' = [job EXCEPT ![q] = NoJob]
      /\ doubt' = doubt \ {q} /\ UNCHANGED <<tables, cache, todo, suspect>>
  BY DEF Return, QueryFails
<1>3. /\ cache' \in [User -> SUBSET Resolved] /\ suspect' \subseteq User
      /\ doubt' \subseteq Request /\ doubt \ {q} \subseteq doubt'
  BY <1>2 DEF TInv, TypeOK
<1> QED BY <1>1, <1>2, <1>3, EntriesStay, RequestStep

\* What the job of a request under way is.
LEMMA UnderWay ==
  ASSUME TInv, NEW q \in Request, pc[q] # "idle"
  PROVE  /\ job[q] \in Job
         /\ \E u \in User : job[q].user = {u}
         /\ FInv /\ q \notin doubt => \A u \in job[q].user : AsRead(pc[q], job[q], u)
         /\ IsFiniteSet(groups)
  BY DEF TInv, TypeOK, Job, ForOneUser, FInv, JobsFresh, Refs

\* A query of a request for u, after which it is at s and holds j.
LEMMA QueryHolds ==
  ASSUME TInv, NEW q \in Request, NEW u \in User, NEW s \in Step, NEW j \in Job,
         pc' = [pc EXCEPT ![q] = s], job' = [job EXCEPT ![q] = j],
         UNCHANGED <<tables, cache, todo, doubt, suspect>>,
         j.user = {u}, s = "parents" => IsFiniteSet(j.groups),
         Shallow /\ FInv /\ q \notin doubt => AsRead(s, j, u)
  PROVE  TInv' /\ (Shallow /\ FInv => FInv')
<1>1. /\ cache' \in [User -> SUBSET Resolved] /\ suspect' \subseteq User
      /\ doubt' \subseteq Request /\ doubt \ {q} \subseteq doubt' /\ doubt' = doubt
  BY DEF TInv, TypeOK
<1>2. Shallow /\ FInv /\ s # "idle" /\ q \notin doubt' => \A v \in j.user : AsRead(s, j, v)
  BY <1>1
<1> QED BY <1>1, <1>2, EntriesStay, RequestStep

\* The groups the user is in are read; with none, no ancestors are to be looked up.
LEMMA ReadUserGroupsHolds ==
  ASSUME TInv, NEW q \in Request, ReadUserGroups(q)
  PROVE  TInv' /\ (Shallow /\ FInv => FInv')
<1>1. pc[q] = "userGroups" /\ UNCHANGED <<tables, cache, todo, doubt, suspect>>
  BY DEF ReadUserGroups
<1>2. PICK u \in User : job[q].user = {u}
  BY <1>1, UnderWay
<1>3. job[q] \in Job
  BY <1>1, UnderWay
<1>4. userGroups[u] \subseteq groups /\ userGroups[u] \subseteq Group /\ IsFiniteSet(userGroups[u])
  BY FS_Subset DEF TInv, TypeOK, Refs
<1>5. PICK j \in Job : j = [job[q] EXCEPT !.groups = userGroups[u]]
  BY <1>3, <1>4 DEF Job
<1>6. PICK s \in {"userRoles", "parents"} :
        s = IF userGroups[u] = {} THEN "userRoles" ELSE "parents"
  OBVIOUS
<1>7. pc' = [pc EXCEPT ![q] = s] /\ job' = [job EXCEPT ![q] = j]
  BY <1>2, <1>5, <1>6 DEF ReadUserGroups
<1>8. /\ j.user = {u} /\ j.groups = userGroups[u]
      /\ j.names = job[q].names /\ j.perms = job[q].perms
  BY <1>2, <1>3, <1>5 DEF Job
<1>9. ASSUME FInv, q \notin doubt
      PROVE  AsRead(s, j, u)
  <2>1. j.names = {} /\ j.perms = {}
    BY <1>1, <1>2, <1>8, <1>9, UnderWay DEF AsRead
  <2>2. s = "userRoles" => j.groups = Ancestors(parent, userGroups[u])
    <3>1. {} \in SUBSET Group /\ Closed(parent, {})
      BY DEF Closed
    <3>2. Ancestors(parent, {}) \subseteq {}
      BY <3>1, AncestorsLeast
    <3> QED BY <1>6, <1>8, <3>2
  <2> QED BY <1>6, <1>8, <2>1, <2>2 DEF AsRead
<1>10. s \in Step
  BY <1>6 DEF Step
<1> QED BY <1>1, <1>4, <1>7, <1>8, <1>9, <1>10, QueryHolds

\* The groups above those of the user are read in one query and walked.
LEMMA ExpandHolds ==
  ASSUME TInv, NEW q \in Request, ExpandAncestorGroups(q)
  PROVE  TInv' /\ (Shallow /\ FInv => FInv')
<1>1. pc[q] = "parents" /\ UNCHANGED <<tables, cache, todo, doubt, suspect>>
  BY DEF ExpandAncestorGroups
<1>2. PICK u \in User : job[q].user = {u}
  BY <1>1, UnderWay
<1>3. job[q] \in Job /\ job[q].groups \in SUBSET Group /\ IsFiniteSet(job[q].groups)
  BY <1>1, UnderWay DEF TInv, ForOneUser, Job
<1>p. parent \in ParentMap
  BY DEF TInv, TypeOK
<1>4. PICK rows \in SetToSeqs(job[q].groups) :
        job' = [job EXCEPT ![q].groups = expandAncestorGroups(parent, rows)]
  BY DEF ExpandAncestorGroups
<1> DEFINE found == expandAncestorGroups(parent, rows)
<1>5. found \subseteq Group
  BY <1>3, <1>p, WalkReturnsAncestors, AncestorsClosed
<1>6. ASSUME Shallow, job[q].groups \subseteq groups
      PROVE  found = Ancestors(parent, job[q].groups)
  <2>1. ASSUME NEW g \in job[q].groups
        PROVE  /\ IsFiniteSet(Ancestors(parent, {g}))
               /\ Cardinality(Ancestors(parent, {g})) <= MaxDepth
    <3>1. IsFiniteSet(groups) /\ groups \in SUBSET Group /\ Closed(parent, groups)
      BY DEF TInv, TypeOK, Refs, Closed
    <3>2. Ancestors(parent, {g}) \subseteq groups
      BY <1>6, <3>1, AncestorsLeast
    <3> QED BY <1>6, <3>1, <3>2, FS_Subset DEF Shallow
  <2> QED BY <1>3, <1>p, <2>1, WalkReturnsAncestors
<1> HIDE DEF found
<1>7. PICK j \in Job : j = [job[q] EXCEPT !.groups = found]
  BY <1>3, <1>5 DEF Job
<1>8. pc' = [pc EXCEPT ![q] = "userRoles"] /\ job' = [job EXCEPT ![q] = j]
  BY <1>4, <1>7 DEF ExpandAncestorGroups, found
<1>9. /\ j.user = {u} /\ j.groups = found
      /\ j.names = job[q].names /\ j.perms = job[q].perms
  BY <1>2, <1>3, <1>7 DEF Job
<1>10. ASSUME Shallow, FInv, q \notin doubt
       PROVE  AsRead("userRoles", j, u)
  <2>1. job[q].names = {} /\ job[q].perms = {} /\ job[q].groups = userGroups[u]
    BY <1>1, <1>2, <1>10, UnderWay DEF AsRead
  <2>2. userGroups[u] \subseteq groups
    BY DEF TInv, Refs
  <2>3. found = Ancestors(parent, userGroups[u])
    BY <1>6, <1>10, <2>1, <2>2
  <2> QED BY <1>9, <2>1, <2>3 DEF AsRead
<1>11. "userRoles" \in Step
  BY DEF Step
<1> QED BY <1>1, <1>8, <1>9, <1>10, <1>11, QueryHolds

\* With no role to look up the tables grant nothing.
LEMMA NoRoles ==
  \A u \in User : RolesOf(u) = {} => Effective(u) = [names |-> {}, perms |-> {}]
  BY DEF Effective, NamesOf, PermsOf

\* After the roles: the last two queries are due, or the answer is complete.
LEMMA RolesRead ==
  ASSUME NEW u \in User, NEW j, j.names = {}, j.perms = {}, j.roles = RolesOf(u)
  PROVE  AsRead(AfterRoles(j.roles), j, u)
<1>1. CASE RolesOf(u) = {}
  BY <1>1, NoRoles DEF AsRead, AfterRoles
<1>2. CASE RolesOf(u) # {}
  BY <1>2 DEF AsRead, AfterRoles
<1> QED BY <1>1, <1>2

\* The roles of the user are read; with no group, they are all there are.
LEMMA ReadUserRolesHolds ==
  ASSUME TInv, NEW q \in Request, ReadUserRoles(q)
  PROVE  TInv' /\ (Shallow /\ FInv => FInv')
<1>1. pc[q] = "userRoles" /\ UNCHANGED <<tables, cache, todo, doubt, suspect>>
  BY DEF ReadUserRoles
<1>2. PICK u \in User : job[q].user = {u}
  BY <1>1, UnderWay
<1>3. job[q] \in Job /\ userRoles[u] \subseteq Role
  BY <1>1, UnderWay DEF TInv, TypeOK
<1>4. PICK j \in Job : j = [job[q] EXCEPT !.roles = userRoles[u]]
  BY <1>3 DEF Job
<1>5. PICK s \in {"set", "names", "groupRoles"} :
        s = IF job[q].groups = {} THEN AfterRoles(userRoles[u]) ELSE "groupRoles"
  BY DEF AfterRoles
<1>6. pc' = [pc EXCEPT ![q] = s] /\ job' = [job EXCEPT ![q] = j]
  BY <1>2, <1>4, <1>5 DEF ReadUserRoles
<1>7. /\ j.user = {u} /\ j.groups = job[q].groups /\ j.roles = userRoles[u]
      /\ j.names = job[q].names /\ j.perms = job[q].perms
  BY <1>2, <1>3, <1>4 DEF Job
<1>8. ASSUME FInv, q \notin doubt
      PROVE  AsRead(s, j, u)
  <2>1. /\ j.names = {} /\ j.perms = {}
        /\ j.groups = Ancestors(parent, userGroups[u])
    BY <1>1, <1>2, <1>7, <1>8, UnderWay DEF AsRead
  <2>2. CASE job[q].groups = {}
    <3>1. RolesOf(u) = userRoles[u]
      BY <1>7, <2>1, <2>2 DEF RolesOf
    <3> QED BY <1>5, <1>7, <2>1, <2>2, <3>1, RolesRead
  <2>3. CASE job[q].groups # {}
    BY <1>5, <1>7, <2>1, <2>3 DEF AsRead
  <2> QED BY <2>2, <2>3
<1>9. s \in Step /\ s # "parents"
  BY <1>5 DEF Step
<1> QED BY <1>1, <1>6, <1>7, <1>8, <1>9, QueryHolds

\* Those of the groups are added.
LEMMA ReadGroupRolesHolds ==
  ASSUME TInv, NEW q \in Request, ReadGroupRoles(q)
  PROVE  TInv' /\ (Shallow /\ FInv => FInv')
<1> DEFINE rs == job[q].roles \cup UNION {groupRoles[g] : g \in job[q].groups}
<1>1. /\ pc[q] = "groupRoles" /\ UNCHANGED <<tables, cache, todo, doubt, suspect>>
      /\ job' = [job EXCEPT ![q].roles = rs] /\ pc' = [pc EXCEPT ![q] = AfterRoles(rs)]
  BY DEF ReadGroupRoles
<1>2. PICK u \in User : job[q].user = {u}
  BY <1>1, UnderWay
<1>3. job[q] \in Job /\ rs \subseteq Role
  BY <1>1, UnderWay, JobFields DEF TInv, TypeOK
<1>r. ASSUME FInv, q \notin doubt
      PROVE  job[q].names = {} /\ job[q].perms = {} /\ rs = RolesOf(u)
  BY <1>1, <1>2, <1>r, UnderWay DEF AsRead, RolesOf
<1> HIDE DEF rs
<1>4. PICK j \in Job : j = [job[q] EXCEPT !.roles = rs]
  BY <1>3 DEF Job
<1>5. PICK s \in {"set", "names"} : s = AfterRoles(rs)
  BY DEF AfterRoles
<1>6. pc' = [pc EXCEPT ![q] = s] /\ job' = [job EXCEPT ![q] = j]
  BY <1>1, <1>4, <1>5
<1>7. /\ j.user = {u} /\ j.roles = rs
      /\ j.names = job[q].names /\ j.perms = job[q].perms
  BY <1>2, <1>3, <1>4 DEF Job
<1>8. ASSUME FInv, q \notin doubt
      PROVE  AsRead(s, j, u)
  BY <1>5, <1>7, <1>8, <1>r, RolesRead
<1>9. s \in Step /\ s # "parents"
  BY <1>5 DEF Step
<1>10. UNCHANGED <<tables, cache, todo, doubt, suspect>> /\ j.user = {u}
  BY <1>1, <1>7
<1> QED BY <1>6, <1>8, <1>9, <1>10, QueryHolds

\* Of the roles' ids, the rows that exist are read,
LEMMA ReadRoleNamesHolds ==
  ASSUME TInv, NEW q \in Request, ReadRoleNames(q)
  PROVE  TInv' /\ (Shallow /\ FInv => FInv')
<1>1. /\ pc[q] = "names" /\ UNCHANGED <<tables, cache, todo, doubt, suspect>>
      /\ pc' = [pc EXCEPT ![q] = "perms"]
  BY DEF ReadRoleNames
<1>2. PICK u \in User : job[q].user = {u}
  BY <1>1, UnderWay
<1>3. job[q] \in Job /\ NamesOf(job[q].roles) \subseteq Role
  BY <1>1, UnderWay, JobFields DEF NamesOf
<1>4. PICK j \in Job : j = [job[q] EXCEPT !.names = NamesOf(job[q].roles)]
  BY <1>3 DEF Job
<1>5. job' = [job EXCEPT ![q] = j]
  BY <1>4 DEF ReadRoleNames
<1>6. j.user = {u} /\ j.roles = job[q].roles /\ j.names = NamesOf(job[q].roles)
  BY <1>2, <1>3, <1>4 DEF Job
<1>7. ASSUME FInv, q \notin doubt
      PROVE  AsRead("perms", j, u)
  <2>1. job[q].roles = RolesOf(u)
    BY <1>1, <1>2, <1>7, UnderWay DEF AsRead
  <2> QED BY <1>6, <2>1 DEF AsRead
<1>8. "perms" \in Step
  BY DEF Step
<1> QED BY <1>1, <1>5, <1>6, <1>7, <1>8, QueryHolds

\* and the permissions their rows grant.
LEMMA ReadPermissionsHolds ==
  ASSUME TInv, NEW q \in Request, ReadPermissions(q)
  PROVE  TInv' /\ (Shallow /\ FInv => FInv')
<1>1. /\ pc[q] = "perms" /\ UNCHANGED <<tables, cache, todo, doubt, suspect>>
      /\ pc' = [pc EXCEPT ![q] = "set"]
  BY DEF ReadPermissions
<1>2. PICK u \in User : job[q].user = {u}
  BY <1>1, UnderWay
<1>3. job[q] \in Job /\ PermsOf(job[q].roles) \subseteq Permission
  BY <1>1, UnderWay DEF PermsOf, TInv, TypeOK
<1>4. PICK j \in Job : j = [job[q] EXCEPT !.perms = PermsOf(job[q].roles)]
  BY <1>3 DEF Job
<1>5. job' = [job EXCEPT ![q] = j]
  BY <1>4 DEF ReadPermissions
<1>6. j.user = {u} /\ j.names = job[q].names /\ j.perms = PermsOf(job[q].roles)
  BY <1>2, <1>3, <1>4 DEF Job
<1>7. ASSUME FInv, q \notin doubt
      PROVE  AsRead("set", j, u)
  <2>1. job[q].roles = RolesOf(u) /\ job[q].names = NamesOf(RolesOf(u))
    BY <1>1, <1>2, <1>7, UnderWay DEF AsRead
  <2> QED BY <1>6, <2>1 DEF AsRead, Effective
<1>8. "set" \in Step
  BY DEF Step
<1> QED BY <1>1, <1>5, <1>6, <1>7, <1>8, QueryHolds

\* The answer is stored: of a request no write has concerned it is right, of another it
\* makes the entry suspect.
LEMMA FillHolds ==
  ASSUME TInv, NEW q \in Request, Fill(q)
  PROVE  TInv' /\ (Shallow /\ FInv => FInv')
<1>1. /\ pc[q] = "set" /\ pc' = [pc EXCEPT ![q] = "done"]
      /\ UNCHANGED <<tables, job, todo, doubt>>
  BY DEF Fill
<1>2. PICK u \in User : job[q].user = {u}
  BY <1>1, UnderWay
<1>3. job[q] \in Job /\ job' = [job EXCEPT ![q] = job[q]]
  BY <1>1, UnderWay DEF TInv, TypeOK
<1>4. Answered(q) \in Resolved
  BY <1>3, JobFields DEF Answered, Resolved
<1>5. \/ /\ cache' = [cache EXCEPT ![u] = {Answered(q)}]
         /\ suspect' = IF q \in doubt THEN suspect \cup {u} ELSE suspect \ {u}
      \/ UNCHANGED <<cache, suspect>>
  BY <1>2 DEF Fill
<1>6. cache' \in [User -> SUBSET Resolved] /\ suspect' \subseteq User
  BY <1>4, <1>5 DEF TInv, TypeOK
<1>7. ASSUME FInv, q \notin doubt
      PROVE  Answered(q) = Effective(u) /\ AsRead("done", job[q], u)
  BY <1>1, <1>2, <1>7, UnderWay DEF AsRead, Answered
<1>8. ASSUME FInv
      PROVE  EntryFresh'
  <2>1. CASE UNCHANGED <<cache, suspect>>
    BY <1>1, <1>8, <2>1, EntriesStay
  <2>2. CASE /\ cache' = [cache EXCEPT ![u] = {Answered(q)}]
             /\ suspect' = IF q \in doubt THEN suspect \cup {u} ELSE suspect \ {u}
    <3> SUFFICES ASSUME NEW v \in User, ~Pending(v)', v \notin suspect', NEW e \in cache'[v]
                 PROVE  e = Effective(v)'
      BY DEF EntryFresh
    <3>1. Effective(v)' = Effective(v) /\ ~Pending(v)
      BY <1>1, TablesStay DEF Pending
    <3>2. CASE v = u
      <4>1. q \notin doubt
        BY <2>2, <3>2
      <4>2. cache'[v] = {Answered(q)}
        BY <2>2, <3>2 DEF TInv, TypeOK
      <4> QED BY <1>7, <1>8, <3>1, <3>2, <4>1, <4>2
    <3>3. CASE v # u
      <4>1. cache'[v] = cache[v] /\ v \notin suspect
        BY <2>2, <3>3 DEF TInv, TypeOK
      <4> QED BY <1>8, <3>1, <4>1 DEF FInv, EntryFresh
    <3> QED BY <3>2, <3>3
  <2> QED BY <1>5, <2>1, <2>2
<1>9. "done" \in Step /\ doubt \subseteq Request
  BY DEF Step, TInv, TypeOK
<1> QED BY <1>1, <1>2, <1>3, <1>6, <1>7, <1>8, <1>9, RequestStep

-----------------------------------------------------------------------------
(* Steps of the cache and of an invalidation.                              *)

\* A step that touches neither tables nor requests keeps the invariant, if the entries
\* it leaves are right.
LEMMA CacheStep ==
  ASSUME TInv, UNCHANGED <<tables, pc, job, doubt>>, cache' \in [User -> SUBSET Resolved],
         todo' \in [AdminRequest -> SUBSET User], suspect' \subseteq User,
         FInv => EntryFresh'
  PROVE  TInv' /\ (FInv => FInv')
<1>1. TypeOK'
  BY DEF TInv, TypeOK, tables
<1>2. Refs' /\ ForOneUser'
  BY TablesStay DEF TInv, ForOneUser
<1>3. ASSUME FInv
      PROVE  JobsFresh'
  <2> SUFFICES ASSUME NEW q \in Request, pc[q] # "idle", q \notin doubt, NEW u \in job[q].user
               PROVE  AsRead(pc[q], job[q], u)'
    BY DEF JobsFresh
  <2>1. AsRead(pc[q], job[q], u)
    BY <1>3 DEF FInv, JobsFresh
  <2> QED BY <2>1, ReadingsStay
<1> QED BY <1>1, <1>2, <1>3 DEF TInv, FInv

\* An entry reaches its TTL.
LEMMA ExpireHolds ==
  ASSUME TInv, NEW u \in User, Expire(u)
  PROVE  TInv' /\ (FInv => FInv')
<1>1. /\ cache' = [cache EXCEPT ![u] = {}] /\ suspect' = suspect \ {u}
      /\ UNCHANGED <<tables, pc, job, todo, doubt>>
  BY DEF Expire
<1>2. /\ cache' \in [User -> SUBSET Resolved] /\ suspect' \subseteq User
      /\ todo' \in [AdminRequest -> SUBSET User]
  BY <1>1 DEF TInv, TypeOK
<1>3. ASSUME FInv
      PROVE  EntryFresh'
  <2> SUFFICES ASSUME NEW v \in User, ~Pending(v)', v \notin suspect', NEW e \in cache'[v]
               PROVE  e = Effective(v)'
    BY DEF EntryFresh
  <2>1. v # u /\ cache'[v] = cache[v]
    BY <1>1 DEF TInv, TypeOK
  <2>2. v \notin suspect /\ ~Pending(v) /\ Effective(v)' = Effective(v)
    BY <1>1, <2>1, TablesStay DEF Pending
  <2> QED BY <1>3, <2>1, <2>2 DEF FInv, EntryFresh
<1> QED BY <1>1, <1>2, <1>3, CacheStep

\* An invalidation drops some of the entries it is to drop.
LEMMA DeleteKeysHolds ==
  ASSUME TInv, NEW a \in AdminRequest, NEW keys \in SUBSET User, DeleteKeys(a, keys)
  PROVE  TInv' /\ (FInv => FInv')
<1>1. /\ cache' = [u \in User |-> IF u \in keys THEN {} ELSE cache[u]]
      /\ todo' = [todo EXCEPT ![a] = todo[a] \ keys] /\ suspect' = suspect \ keys
      /\ UNCHANGED <<tables, pc, job, doubt>>
  BY DEF DeleteKeys
<1>2. /\ cache' \in [User -> SUBSET Resolved] /\ suspect' \subseteq User
      /\ todo' \in [AdminRequest -> SUBSET User]
  BY <1>1 DEF TInv, TypeOK
<1>3. ASSUME FInv
      PROVE  EntryFresh'
  <2> SUFFICES ASSUME NEW v \in User, ~Pending(v)', v \notin suspect', NEW e \in cache'[v]
               PROVE  e = Effective(v)'
    BY DEF EntryFresh
  <2>1. v \notin keys /\ cache'[v] = cache[v] /\ v \notin suspect
    BY <1>1
  <2>2. ~Pending(v)
    <3>1. \A b \in AdminRequest : v \in todo[b] => v \in todo'[b]
      BY <1>1, <2>1 DEF TInv, TypeOK
    <3> QED BY <3>1 DEF Pending
  <2>3. Effective(v)' = Effective(v)
    BY <1>1, TablesStay
  <2> QED BY <1>3, <2>1, <2>2, <2>3 DEF FInv, EntryFresh
<1> QED BY <1>1, <1>2, <1>3, CacheStep

\* It fails: the entries it leaves are suspect.
LEMMA InvalidationFailsHolds ==
  ASSUME TInv, NEW a \in AdminRequest, InvalidationFails(a)
  PROVE  TInv' /\ (FInv => FInv')
<1>1. /\ todo' = [todo EXCEPT ![a] = {}] /\ suspect' = suspect \cup todo[a]
      /\ UNCHANGED <<tables, cache, pc, job, doubt>>
  BY DEF InvalidationFails
<1>2. /\ cache' \in [User -> SUBSET Resolved] /\ suspect' \subseteq User
      /\ todo' \in [AdminRequest -> SUBSET User]
  BY <1>1 DEF TInv, TypeOK
<1>3. ASSUME FInv
      PROVE  EntryFresh'
  <2> SUFFICES ASSUME NEW v \in User, ~Pending(v)', v \notin suspect', NEW e \in cache'[v]
               PROVE  e = Effective(v)'
    BY DEF EntryFresh
  <2>1. v \notin todo[a] /\ v \notin suspect /\ cache'[v] = cache[v]
    BY <1>1
  <2>2. ~Pending(v)
    <3>1. \A b \in AdminRequest : v \in todo[b] => v \in todo'[b]
      BY <1>1, <2>1 DEF TInv, TypeOK
    <3> QED BY <3>1 DEF Pending
  <2>3. Effective(v)' = Effective(v)
    BY <1>1, TablesStay
  <2> QED BY <1>3, <2>1, <2>2, <2>3 DEF FInv, EntryFresh
<1> QED BY <1>1, <1>2, <1>3, CacheStep

-----------------------------------------------------------------------------
(* Admin writes.                                                           *)

\* The tables' part of the type.
TablesOK ==
  /\ users \subseteq User /\ roles \subseteq minted /\ minted \subseteq Role
  /\ permissions \subseteq Permission /\ groups \subseteq Group
  /\ ForeignKeys \in BOOLEAN
  /\ parent \in ParentMap
  /\ userGroups \in [User -> SUBSET Group]
  /\ userRoles \in [User -> SUBSET Role]
  /\ groupRoles \in [Group -> SUBSET Role]
  /\ rolePerms \in [Role -> SUBSET Permission]

\* What the tables say of u, as far as a resolution reads it.
Says(u) == <<userGroups[u], userRoles[u], Ancestors(parent, userGroups[u]), RolesOf(u),
             Effective(u)>>

\* While they say the same, what has been read for u is as right as it was.
LEMMA SaysTheSame ==
  ASSUME NEW u, Says(u)' = Says(u), NEW q, NEW s, NEW j, AsRead(s, j, u),
         pc'[q] = s, job'[q] = j
  PROVE  AsRead(pc[q], job[q], u)'
<1>1. /\ Ancestors(parent, userGroups[u])' = Ancestors(parent, userGroups[u])
      /\ RolesOf(u)' = RolesOf(u) /\ Effective(u)' = Effective(u)
      /\ userGroups'[u] = userGroups[u] /\ userRoles'[u] = userRoles[u]
  BY DEF Says
<1>2. NamesOf(RolesOf(u))' = NamesOf(RolesOf(u))
  BY <1>1 DEF Effective
<1> QED BY <1>1, <1>2 DEF AsRead

\* A write is right if, of each user, the tables go on saying what they said, or else
\* the entry is due to be deleted and every resolution under way is known to be doubtful.
LEMMA WriteStep ==
  ASSUME TInv, TablesOK', Refs', UNCHANGED <<cache, pc, job, suspect>>,
         todo' \in [AdminRequest -> SUBSET User], doubt' \subseteq Request,
         doubt \subseteq doubt', \A v \in User : Pending(v) => Pending(v)',
         \A v \in User : \/ Says(v)' = Says(v)
                         \/ Pending(v)' /\ \A q \in Request : v \in job[q].user => q \in doubt'
  PROVE  TInv' /\ (FInv => FInv')
<1>1. TypeOK'
  BY DEF TInv, TypeOK, TablesOK
<1>2. ForOneUser'
  BY DEF TInv, ForOneUser
<1>3. ASSUME FInv
      PROVE  EntryFresh'
  <2> SUFFICES ASSUME NEW v \in User, ~Pending(v)', v \notin suspect, NEW e \in cache[v]
               PROVE  e = Effective(v)'
    BY DEF EntryFresh
  <2>1. ~Pending(v) /\ Effective(v)' = Effective(v)
    BY DEF Says
  <2> QED BY <1>3, <2>1 DEF FInv, EntryFresh
<1>4. ASSUME FInv
      PROVE  JobsFresh'
  <2> SUFFICES ASSUME NEW q \in Request, pc[q] # "idle", q \notin doubt', NEW v \in job[q].user
               PROVE  AsRead(pc[q], job[q], v)'
    BY DEF JobsFresh
  <2>1. AsRead(pc[q], job[q], v)
    BY <1>4 DEF FInv, JobsFresh
  <2>2. v \in User
    BY DEF TInv, TypeOK
  <2>3. Says(v)' = Says(v)
    BY <2>2
  <2> QED BY <2>1, <2>3, SaysTheSame
<1> QED BY <1>1, <1>2, <1>3, <1>4 DEF TInv, FInv

\* One followed by no invalidation concerns nobody.
LEMMA QuietWrite ==
  ASSUME TInv, NEW a, NoInvalidation(a), TablesOK', Refs', \A v \in User : Says(v)' = Says(v)
  PROVE  TInv' /\ (FInv => FInv')
<1>1. /\ UNCHANGED <<cache, pc, job, suspect>> /\ todo' = todo /\ doubt' = doubt
  BY DEF NoInvalidation
<1>2. \A v \in User : Pending(v) => Pending(v)'
  BY <1>1 DEF Pending
<1>3. todo' \in [AdminRequest -> SUBSET User] /\ doubt' \subseteq Request
  BY <1>1 DEF TInv, TypeOK
<1> QED BY <1>1, <1>2, <1>3, WriteStep

\* One followed by the invalidation of scope concerns nobody outside it.
LEMMA LoudWrite ==
  ASSUME TInv, NEW a \in AdminRequest, NEW scope \in SUBSET User, Invalidates(a, scope),
         TablesOK', Refs', \A v \in User \ scope : Says(v)' = Says(v)
  PROVE  TInv' /\ (FInv => FInv')
<1>1. /\ UNCHANGED <<cache, pc, job, suspect>> /\ todo[a] = {}
      /\ todo' = [todo EXCEPT ![a] = scope]
      /\ doubt' = doubt \cup {q \in Request : job[q].user \cap scope # {}}
  BY DEF Invalidates
<1>2. /\ todo' \in [AdminRequest -> SUBSET User] /\ todo'[a] = scope
      /\ \A b \in AdminRequest \ {a} : todo'[b] = todo[b]
  BY <1>1 DEF TInv, TypeOK
<1>3. \A v \in User : Pending(v) => Pending(v)'
  BY <1>1, <1>2 DEF Pending
<1>4. doubt' \subseteq Request /\ doubt \subseteq doubt'
  BY <1>1 DEF TInv, TypeOK
<1>5. \A v \in scope : Pending(v)' /\ \A q \in Request : v \in job[q].user => q \in doubt'
  BY <1>1, <1>2 DEF Pending
<1> QED BY <1>1, <1>2, <1>3, <1>4, <1>5, WriteStep

\* A role is nobody's before it is there,
LEMMA CreateRoleHolds ==
  ASSUME TInv, NEW a \in AdminRequest, NEW r \in Role, CreateRole(a, r)
  PROVE  TInv' /\ (FInv => FInv')
<1>1. /\ r \notin minted /\ roles' = roles \cup {r} /\ minted' = minted \cup {r}
      /\ UNCHANGED <<ForeignKeys, users, permissions, groups, parent, userGroups, userRoles,
                     groupRoles, rolePerms>>
      /\ NoInvalidation(a)
  BY DEF CreateRole
<1>2. TablesOK' /\ Refs'
  BY <1>1 DEF TInv, TypeOK, Refs, TablesOK
<1>3. ASSUME NEW v \in User
      PROVE  Says(v)' = Says(v)
  <2>1. RolesOf(v)' = RolesOf(v) /\ RolesOf(v) \subseteq minted
    BY <1>1, EffectiveTypes DEF RolesOf
  <2>2. NamesOf(RolesOf(v))' = NamesOf(RolesOf(v)) /\ PermsOf(RolesOf(v))' = PermsOf(RolesOf(v))
    BY <1>1, <2>1 DEF NamesOf, PermsOf
  <2>3. Effective(v)' = Effective(v)
    BY <2>1, <2>2 DEF Effective
  <2> QED BY <1>1, <2>1, <2>3 DEF Says
<1> QED BY <1>1, <1>2, <1>3, QuietWrite

\* nor a permission any role's,
LEMMA CreatePermissionHolds ==
  ASSUME TInv, NEW a \in AdminRequest, NEW p \in Permission, CreatePermission(a, p)
  PROVE  TInv' /\ (FInv => FInv')
<1>1. /\ p \notin permissions /\ permissions' = permissions \cup {p}
      /\ UNCHANGED <<ForeignKeys, users, roles, minted, groups, parent, userGroups, userRoles,
                     groupRoles, rolePerms>>
      /\ NoInvalidation(a)
  BY DEF CreatePermission
<1>2. TablesOK' /\ Refs'
  BY <1>1 DEF TInv, TypeOK, Refs, TablesOK
<1>3. ASSUME NEW v \in User
      PROVE  Says(v)' = Says(v)
  <2>1. RolesOf(v)' = RolesOf(v) /\ RolesOf(v) \subseteq Role
    BY <1>1, EffectiveTypes DEF RolesOf
  <2>2. \A r \in RolesOf(v) : p \notin rolePerms[r]
    BY <1>1, <2>1 DEF TInv, Refs
  <2>3. NamesOf(RolesOf(v))' = NamesOf(RolesOf(v)) /\ PermsOf(RolesOf(v))' = PermsOf(RolesOf(v))
    BY <1>1, <2>1, <2>2 DEF NamesOf, PermsOf
  <2>4. Effective(v)' = Effective(v)
    BY <2>1, <2>3 DEF Effective
  <2> QED BY <1>1, <2>1, <2>4 DEF Says
<1> QED BY <1>1, <1>2, <1>3, QuietWrite

\* Two parent maps that agree on a closed set of groups give what is in it the same
\* ancestors.
LEMMA AncestorsAgree ==
  ASSUME NEW pa \in ParentMap, NEW pb \in ParentMap, NEW G \in SUBSET Group,
         Closed(pa, G), \A g \in G : pb[g] = pa[g], NEW S \in SUBSET G
  PROVE  Ancestors(pb, S) = Ancestors(pa, S)
<1>1. Closed(pb, G)
  BY DEF Closed
<1>2. Ancestors(pa, S) \subseteq G /\ Ancestors(pb, S) \subseteq G
  BY <1>1, AncestorsLeast
<1>3. /\ S \subseteq Ancestors(pa, S) /\ Closed(pa, Ancestors(pa, S))
      /\ S \subseteq Ancestors(pb, S) /\ Closed(pb, Ancestors(pb, S))
  BY AncestorsClosed
<1>4. Closed(pb, Ancestors(pa, S)) /\ Closed(pa, Ancestors(pb, S))
  BY <1>2, <1>3 DEF Closed
<1>5. Ancestors(pa, S) \in SUBSET Group /\ Ancestors(pb, S) \in SUBSET Group
  BY <1>2
<1>6. Ancestors(pb, S) \subseteq Ancestors(pa, S)
  BY <1>3, <1>4, <1>5, AncestorsLeast
<1>7. Ancestors(pa, S) \subseteq Ancestors(pb, S)
  BY <1>3, <1>4, <1>5, AncestorsLeast
<1> QED BY <1>6, <1>7

\* nor a group above any other.
LEMMA CreateGroupHolds ==
  ASSUME TInv, NEW a \in AdminRequest, NEW g \in Group, NEW up \in Group \cup {NoGroup},
         CreateGroup(a, g, up)
  PROVE  TInv' /\ (FInv => FInv')
<1>1. /\ g \notin groups /\ up \in groups \cup {NoGroup} /\ groups' = groups \cup {g}
      /\ parent' = [parent EXCEPT ![g] = up]
      /\ UNCHANGED <<ForeignKeys, users, roles, minted, permissions, userGroups, userRoles,
                     groupRoles, rolePerms>>
      /\ NoInvalidation(a)
  BY DEF CreateGroup
<1>2. parent \in ParentMap /\ parent' \in ParentMap /\ groups \in SUBSET Group
  BY <1>1 DEF TInv, TypeOK, ParentMap
<1>3. \A h \in Group : parent'[h] = IF h = g THEN up ELSE parent[h]
  BY <1>1 DEF TInv, TypeOK, ParentMap
<1>4. TablesOK'
  BY <1>1, <1>2 DEF TInv, TypeOK, TablesOK
<1>5. Refs'
  <2>1. IsFiniteSet(groups')
    BY <1>1, FS_AddElement DEF TInv, Refs
  <2> QED BY <1>1, <1>3, <2>1 DEF TInv, Refs
<1>6. ASSUME NEW v \in User
      PROVE  Says(v)' = Says(v)
  <2>1. Closed(parent, groups) /\ \A h \in groups : parent'[h] = parent[h]
    BY <1>1, <1>2, <1>3 DEF TInv, Refs, Closed
  <2>2. userGroups[v] \in SUBSET groups
    BY DEF TInv, Refs
  <2>3. Ancestors(parent', userGroups[v]) = Ancestors(parent, userGroups[v])
    BY <1>2, <2>1, <2>2, AncestorsAgree
  <2>4. RolesOf(v)' = RolesOf(v)
    BY <1>1, <2>3 DEF RolesOf
  <2>5. Effective(v)' = Effective(v)
    BY <1>1, <2>4 DEF Effective, NamesOf, PermsOf
  <2> QED BY <1>1, <2>3, <2>4, <2>5 DEF Says
<1> QED BY <1>1, <1>4, <1>5, <1>6, QuietWrite

\* A write on what roles and groups hold is followed by the invalidation of everybody,
LEMMA WriteForAllHolds ==
  ASSUME TInv, NEW a \in AdminRequest,
         \/ \E r \in Role : DeleteRole(a, r)
         \/ \E r \in Role, p \in Permission :
              GrantPermissionToRole(a, r, p) \/ RevokePermissionFromRole(a, r, p)
         \/ \E g \in Group, r \in Role :
              AssignRoleToGroup(a, g, r) \/ RemoveRoleFromGroup(a, g, r)
  PROVE  TInv' /\ (FInv => FInv')
<1>1. CASE \E r \in Role : DeleteRole(a, r)
  <2>1. PICK r \in Role : DeleteRole(a, r)
    BY <1>1
  <2>2. TablesOK'
    BY <2>1 DEF DeleteRole, TInv, TypeOK, TablesOK
  <2>3. Refs'
    BY <2>1 DEF DeleteRole, TInv, TypeOK, Refs
  <2> QED BY <2>1, <2>2, <2>3, LoudWrite DEF DeleteRole, InvalidateAll
<1>2. CASE \E r \in Role, p \in Permission : GrantPermissionToRole(a, r, p)
  <2>1. PICK r \in Role, p \in Permission : GrantPermissionToRole(a, r, p)
    BY <1>2
  <2>2. TablesOK'
    BY <2>1 DEF GrantPermissionToRole, TInv, TypeOK, TablesOK
  <2>3. Refs'
    BY <2>1 DEF GrantPermissionToRole, TInv, TypeOK, Refs
  <2> QED BY <2>1, <2>2, <2>3, LoudWrite DEF GrantPermissionToRole, InvalidateAll
<1>3. CASE \E r \in Role, p \in Permission : RevokePermissionFromRole(a, r, p)
  <2>1. PICK r \in Role, p \in Permission : RevokePermissionFromRole(a, r, p)
    BY <1>3
  <2>2. TablesOK'
    BY <2>1 DEF RevokePermissionFromRole, TInv, TypeOK, TablesOK
  <2>3. Refs'
    BY <2>1 DEF RevokePermissionFromRole, TInv, TypeOK, Refs
  <2> QED BY <2>1, <2>2, <2>3, LoudWrite DEF RevokePermissionFromRole, InvalidateAll
<1>4. CASE \E g \in Group, r \in Role : AssignRoleToGroup(a, g, r)
  <2>1. PICK g \in Group, r \in Role : AssignRoleToGroup(a, g, r)
    BY <1>4
  <2>m. r \in minted
    BY <2>1 DEF AssignRoleToGroup, RoleIds, TInv, TypeOK
  <2>2. TablesOK'
    BY <2>1 DEF AssignRoleToGroup, TInv, TypeOK, TablesOK
  <2>3. Refs'
    BY <2>1, <2>m DEF AssignRoleToGroup, TInv, TypeOK, Refs
  <2> QED BY <2>1, <2>2, <2>3, LoudWrite DEF AssignRoleToGroup, InvalidateAll
<1>5. CASE \E g \in Group, r \in Role : RemoveRoleFromGroup(a, g, r)
  <2>1. PICK g \in Group, r \in Role : RemoveRoleFromGroup(a, g, r)
    BY <1>5
  <2>2. TablesOK'
    BY <2>1 DEF RemoveRoleFromGroup, TInv, TypeOK, TablesOK
  <2>3. Refs'
    BY <2>1 DEF RemoveRoleFromGroup, TInv, TypeOK, Refs
  <2> QED BY <2>1, <2>2, <2>3, LoudWrite DEF RemoveRoleFromGroup, InvalidateAll
<1> QED BY <1>1, <1>2, <1>3, <1>4, <1>5

\* and one on what a user is in or has by that of the user. It leaves what the tables
\* say of every other as it was.
LEMMA UserWrite ==
  ASSUME TInv, NEW u \in User,
         UNCHANGED <<ForeignKeys, roles, minted, permissions, groups, parent, groupRoles,
                     rolePerms>>,
         users' \subseteq users, NEW gs \in SUBSET groups, NEW rs \in SUBSET minted,
         userGroups' = [userGroups EXCEPT ![u] = gs], userRoles' = [userRoles EXCEPT ![u] = rs]
  PROVE  TablesOK' /\ Refs' /\ \A v \in User \ {u} : Says(v)' = Says(v)
<1>1. TablesOK'
  BY DEF TInv, TypeOK, TablesOK
<1>2. Refs'
  BY DEF TInv, TypeOK, Refs
<1>3. ASSUME NEW v \in User \ {u}
      PROVE  Says(v)' = Says(v)
  <2>1. userGroups'[v] = userGroups[v] /\ userRoles'[v] = userRoles[v]
    BY DEF TInv, TypeOK
  <2>2. RolesOf(v)' = RolesOf(v)
    BY <2>1 DEF RolesOf
  <2>3. Effective(v)' = Effective(v)
    BY <2>2 DEF Effective, NamesOf, PermsOf
  <2> QED BY <2>1, <2>2, <2>3 DEF Says
<1> QED BY <1>1, <1>2, <1>3

\* Such a write of each kind keeps the invariant.
LEMMA WriteForOneHolds ==
  ASSUME TInv, NEW a \in AdminRequest, NEW u \in User,
         \/ DeleteUser(a, u)
         \/ \E r \in Role : AssignRoleToUser(a, u, r) \/ RemoveRoleFromUser(a, u, r)
         \/ \E g \in Group : AddUserToGroup(a, u, g) \/ RemoveUserFromGroup(a, u, g)
  PROVE  TInv' /\ (FInv => FInv')
<1>t. /\ userGroups \in [User -> SUBSET Group] /\ userRoles \in [User -> SUBSET Role]
      /\ userGroups[u] \in SUBSET groups /\ userRoles[u] \in SUBSET minted
      /\ roles \subseteq minted
      /\ userGroups = [userGroups EXCEPT ![u] = userGroups[u]]
      /\ userRoles = [userRoles EXCEPT ![u] = userRoles[u]]
  BY DEF TInv, TypeOK, Refs
<1>1. /\ UNCHANGED <<ForeignKeys, roles, minted, permissions, groups, parent, groupRoles,
                     rolePerms>>
      /\ users' \subseteq users
      /\ Invalidates(a, {u})
  BY DEF DeleteUser, AssignRoleToUser, RemoveRoleFromUser, AddUserToGroup, RemoveUserFromGroup,
         InvalidateUser
<1>2. \E gs \in SUBSET groups, rs \in SUBSET minted :
        /\ userGroups' = [userGroups EXCEPT ![u] = gs]
        /\ userRoles' = [userRoles EXCEPT ![u] = rs]
  <2>1. CASE DeleteUser(a, u)
    BY <1>t, <2>1 DEF DeleteUser
  <2>2. CASE \E r \in Role : AssignRoleToUser(a, u, r)
    BY <1>t, <2>2 DEF AssignRoleToUser, RoleIds
  <2>3. CASE \E r \in Role : RemoveRoleFromUser(a, u, r)
    BY <1>t, <2>3 DEF RemoveRoleFromUser
  <2>4. CASE \E g \in Group : AddUserToGroup(a, u, g)
    BY <1>t, <2>4 DEF AddUserToGroup
  <2>5. CASE \E g \in Group : RemoveUserFromGroup(a, u, g)
    BY <1>t, <2>5 DEF RemoveUserFromGroup
  <2> QED BY <2>1, <2>2, <2>3, <2>4, <2>5
<1>3. TablesOK' /\ Refs' /\ \A v \in User \ {u} : Says(v)' = Says(v)
  BY <1>1, <1>2, UserWrite
<1> QED BY <1>1, <1>3, LoudWrite

-----------------------------------------------------------------------------
(* The theorems.                                                           *)

\* Every step keeps the types, and in a hierarchy the walk can climb the rest too.
LEMMA StepHolds ==
  ASSUME TInv, [Next]_vars
  PROVE  TInv' /\ (Shallow /\ FInv => FInv')
<1>1. ASSUME NEW q \in Request, Resolve(q)
      PROVE  TInv' /\ (Shallow /\ FInv => FInv')
  <2>1. CASE \E u \in User : Hit(q, u) \/ Lookup(q, u)
    BY <2>1, HitHolds, LookupHolds
  <2>2. CASE Proceed(q)
    BY <2>2, ReadUserGroupsHolds, ExpandHolds, ReadUserRolesHolds, ReadGroupRolesHolds,
       ReadRoleNamesHolds, ReadPermissionsHolds, FillHolds, EndHolds DEF Proceed
  <2>3. CASE QueryFails(q)
    BY <2>3, EndHolds
  <2> QED BY <1>1, <2>1, <2>2, <2>3 DEF Resolve
<1>2. ASSUME NEW a \in AdminRequest, AdminCall(a)
      PROVE  TInv' /\ (FInv => FInv')
  <2>1. CASE \E r \in Role : CreateRole(a, r)
    BY <2>1, CreateRoleHolds
  <2>2. CASE \E p \in Permission : CreatePermission(a, p)
    BY <2>2, CreatePermissionHolds
  <2>3. CASE \E g \in Group, up \in Group \cup {NoGroup} : CreateGroup(a, g, up)
    BY <2>3, CreateGroupHolds
  <2>4. CASE \/ \E r \in Role : DeleteRole(a, r)
             \/ \E r \in Role, p \in Permission :
                  GrantPermissionToRole(a, r, p) \/ RevokePermissionFromRole(a, r, p)
             \/ \E g \in Group, r \in Role :
                  AssignRoleToGroup(a, g, r) \/ RemoveRoleFromGroup(a, g, r)
    BY <2>4, WriteForAllHolds
  <2>5. CASE \E u \in User :
               \/ DeleteUser(a, u)
               \/ \E r \in Role : AssignRoleToUser(a, u, r) \/ RemoveRoleFromUser(a, u, r)
               \/ \E g \in Group : AddUserToGroup(a, u, g) \/ RemoveUserFromGroup(a, u, g)
    BY <2>5, WriteForOneHolds
  <2> QED BY <1>2, <2>1, <2>2, <2>3, <2>4, <2>5 DEF AdminCall
<1>3. ASSUME NEW a \in AdminRequest, Invalidate(a) \/ InvalidationFails(a)
      PROVE  TInv' /\ (FInv => FInv')
  BY <1>3, DeleteKeysHolds, InvalidationFailsHolds DEF Invalidate
<1>4. CASE \E u \in User : Expire(u)
  BY <1>4, ExpireHolds
<1>5. CASE UNCHANGED vars
  <2>1. UNCHANGED <<tables, pc, job, doubt, cache, todo, suspect>>
    BY <1>5 DEF vars
  <2>2. /\ cache' \in [User -> SUBSET Resolved] /\ todo' \in [AdminRequest -> SUBSET User]
        /\ suspect' \subseteq User
    BY <2>1 DEF TInv, TypeOK
  <2> QED BY <2>1, <2>2, EntriesStay, CacheStep
<1> QED BY <1>1, <1>2, <1>3, <1>4, <1>5 DEF Next

\* TypeOK: the tables, the entries and what each request has read are of the right kinds.
THEOREM TypeCorrect == Spec => []TypeOK
<1>1. Init => TInv
  BY InitHolds
<1>2. TInv /\ [Next]_vars => TInv'
  BY StepHolds
<1>3. TInv => TypeOK
  BY DEF TInv
<1> QED BY <1>1, <1>2, <1>3, PTL DEF Spec

\* A resolution that is done and that no write has concerned answers what the tables say.
LEMMA InvariantSuffices == TInv /\ FInv => Fresh
<1> SUFFICES ASSUME TInv, FInv, NEW q \in Request, pc[q] = "done", q \notin doubt,
                    NEW u \in job[q].user
             PROVE  Answered(q) = Effective(u)
  BY DEF FInv, Fresh, AnswerFresh
<1>1. AsRead("done", job[q], u)
  BY DEF FInv, JobsFresh
<1> QED BY <1>1 DEF AsRead, Answered

\* Fresh: as long as no chain of parents is longer than the guard of
\* expandAncestorGroups, an entry differs from the tables only while an invalidation is
\* about to drop it or because a resolution that overlapped a write, or a failed
\* invalidation, left it there, and an answer only if a write overlapped it.
THEOREM OnlyOverlapsGoStale == Spec /\ []Shallow => []Fresh
<1>1. Init => TInv /\ FInv
  BY InitHolds
<1>2. TInv /\ FInv /\ Shallow /\ [Next]_vars => TInv' /\ FInv'
  BY StepHolds
<1>3. TInv /\ FInv => Fresh
  BY InvariantSuffices
<1> QED BY <1>1, <1>2, <1>3, PTL DEF Spec

\* Fresh again, of every database with no more groups than that guard: there no chain
\* can be too long, so nothing need be assumed of the hierarchy.
THEOREM FewGroupsAlwaysFresh ==
  ASSUME IsFiniteSet(Group), Cardinality(Group) <= MaxDepth
  PROVE  Spec => []Fresh
<1>1. TInv => Shallow
  <2> SUFFICES ASSUME TInv, NEW g \in groups
               PROVE  Cardinality(Ancestors(parent, {g})) <= MaxDepth
    BY DEF Shallow
  <2>1. Ancestors(parent, {g}) \subseteq Group
    BY DEF Ancestors
  <2>2. /\ Cardinality(Ancestors(parent, {g})) <= Cardinality(Group)
        /\ Cardinality(Ancestors(parent, {g})) \in Nat /\ Cardinality(Group) \in Nat
    BY <2>1, FS_Subset, FS_CardinalityType
  <2> QED BY <2>2, DepthAssumption
<1>2. Init => TInv /\ FInv
  BY InitHolds
<1>3. TInv /\ FInv /\ [Next]_vars => TInv' /\ FInv'
  BY <1>1, StepHolds
<1>4. TInv /\ FInv => Fresh
  BY InvariantSuffices
<1> QED BY <1>2, <1>3, <1>4, PTL DEF Spec

-----------------------------------------------------------------------------
(* API clients: what grants cover.                                         *)

\* What may be in more grants is covered by more.
LEMMA HasMonotone ==
  ASSUME NEW G, NEW H, G \subseteq H, NEW w, Has(G, w)
  PROVE  Has(H, w)
BY DEF Has

\* The front of a path with a wildcard is shorter by one, and has none.
LEMMA FrontOf ==
  ASSUME NEW g \in Grants
  PROVE  /\ g.resource \in Seq(STRING) /\ Len(g.resource) \in Nat \ {0}
         /\ Front(g.resource) \in Seq(STRING)
         /\ Len(Front(g.resource)) = Len(g.resource) - 1
         /\ \A k \in 1..(Len(g.resource) - 1) :
              Front(g.resource)[k] = g.resource[k] /\ g.resource[k] # "*"
<1>1. g.resource \in Seq(STRING) /\ Len(g.resource) \in Nat \ {0}
  BY ClientsAssumption, LenProperties
<1>2. /\ Front(g.resource) \in Seq(STRING)
      /\ Len(Front(g.resource)) = Len(g.resource) - 1
      /\ \A k \in 1..(Len(g.resource) - 1) : Front(g.resource)[k] = g.resource[k]
  BY <1>1 DEF Front
<1>3. \A k \in 1..(Len(g.resource) - 1) : Front(g.resource)[k] # "*"
  <2>1. "*" \notin ToSet(Front(g.resource))
    BY ClientsAssumption
  <2>2. DOMAIN Front(g.resource) = 1..(Len(g.resource) - 1)
    BY <1>2
  <2> QED BY <2>1, <2>2 DEF ToSet
<1> QED BY <1>1, <1>2, <1>3

\* What it is to be a prefix, place by place.
LEMMA PrefixPlaces ==
  ASSUME NEW s \in Seq(STRING), NEW t \in Seq(STRING)
  PROVE  IsPrefix(s, t) <=> Len(s) <= Len(t) /\ \A k \in 1..Len(s) : s[k] = t[k]
<1>1. Len(s) \in Nat /\ Len(t) \in Nat
  BY LenProperties
<1>2. ASSUME Len(s) <= Len(t)
      PROVE  SubSeq(s, 1, Len(s)) = SubSeq(t, 1, Len(s)) <=> \A k \in 1..Len(s) : s[k] = t[k]
  BY <1>1, <1>2
<1> QED BY <1>2 DEF IsPrefix

\* The bare wildcard is no longer than one segment.
LEMMA BareIsShort ==
  ASSUME NEW path, Len(path) > 1
  PROVE  path # <<"*">>
<1> SUFFICES ASSUME path = <<"*">> PROVE FALSE
  OBVIOUS
<1>1. Len(path) = Len(<<"*">>)
  OBVIOUS
<1>2. Len(<<"*">>) = 1
  OBVIOUS
<1>3. Len(path) = 1
  BY <1>1, <1>2, Zenon
<1> QED BY <1>3

\* A scope that is covered opens nothing that its grant does not open: a pattern that
\* matches another one matches all the other one does.
LEMMA CoveredOpensLess ==
  ASSUME NEW g \in Grants, NEW w \in Grants, Matches(g.resource, w.resource)
  PROVE  Below(w.resource) \subseteq Below(g.resource)
<1>1. \A p : Below(p) \subseteq Resource
  BY DEF Below
<1>2. CASE g.resource = w.resource
  BY <1>2
<1>3. CASE g.resource = <<"*">>
  BY <1>1, <1>3 DEF Below
<1>4. CASE /\ Len(g.resource) > 1 /\ Last(g.resource) = "*"
           /\ IsPrefix(Front(g.resource), w.resource)
  <2> DEFINE P == Front(g.resource)
             W == w.resource
  <2>0. /\ P \in Seq(STRING) /\ Len(P) = Len(g.resource) - 1 /\ Len(g.resource) \in Nat
        /\ \A k \in 1..(Len(g.resource) - 1) : P[k] # "*"
    BY FrontOf
  <2>1. /\ P \in Seq(STRING) /\ W \in Seq(STRING)
        /\ Len(P) \in Nat \ {0} /\ Len(W) \in Nat \ {0}
        /\ \A k \in 1..Len(P) : P[k] # "*"
    BY <1>4, <2>0, FrontOf
  <2>2. Len(P) <= Len(W) /\ \A k \in 1..Len(P) : P[k] = W[k]
    BY <1>4, <2>1, PrefixPlaces
  <2>3. g.resource # <<"*">>
    BY <1>4, BareIsShort
  <2>4. Below(g.resource) = {r \in Resource : IsPrefix(P, r)}
    BY <1>4, <2>3 DEF Below
  <2>5. W # <<"*">>
    BY <2>1, <2>2
  <2>6. CASE Last(W) = "*"
    <3>1. Len(P) # Len(W)
      BY <2>1, <2>2, <2>6 DEF Last
    <3>2. /\ Front(W) \in Seq(STRING) /\ Len(Front(W)) = Len(W) - 1
          /\ \A k \in 1..(Len(W) - 1) : Front(W)[k] = W[k]
      BY FrontOf
    <3>3. ASSUME NEW r \in Resource, IsPrefix(Front(W), r)
          PROVE  IsPrefix(P, r)
      <4>1. r \in Seq(STRING)
        BY ClientsAssumption
      <4>2. Len(Front(W)) <= Len(r) /\ \A k \in 1..Len(Front(W)) : Front(W)[k] = r[k]
        BY <3>2, <3>3, <4>1, PrefixPlaces
      <4>3. Len(P) <= Len(r) /\ \A k \in 1..Len(P) : P[k] = r[k]
        <5>1. Len(r) \in Nat
          BY <4>1, LenProperties
        <5> QED BY <2>1, <2>2, <3>1, <3>2, <4>2, <5>1
      <4> QED BY <2>1, <4>1, <4>3, PrefixPlaces
    <3>4. Below(W) = {r \in Resource : IsPrefix(Front(W), r)}
      BY <2>5, <2>6 DEF Below
    <3> QED BY <2>4, <3>3, <3>4
  <2>7. CASE Last(W) # "*"
    <3>1. Below(W) = {W} \cap Resource
      BY <2>5, <2>7 DEF Below
    <3> QED BY <1>4, <2>4, <3>1
  <2> QED BY <2>6, <2>7
<1> QED BY <1>2, <1>3, <1>4 DEF Matches

\* Scopes that are all covered reach no further than what covers them.
LEMMA CoveredReachLess ==
  ASSUME NEW G \in SUBSET Grants, NEW W \in SUBSET Grants, \A w \in W : Has(G, w)
  PROVE  Reach(W) \subseteq Reach(G)
<1> SUFFICES ASSUME NEW w \in W, NEW r \in Below(w.resource)
             PROVE  \E g \in G : r \in Below(g.resource) /\ g.action = w.action
  BY DEF Reach, Grant
<1>1. PICK g \in G : g.action = w.action /\ Matches(g.resource, w.resource)
  BY DEF Has
<1> QED BY <1>1, CoveredOpensLess

\* Whoever has a permission for a resource there is reaches it.
LEMMA HasReaches ==
  ASSUME NEW G \in SUBSET Grants, NEW w, w.resource \in Resource, w = Grant(w.resource, w.action),
         Has(G, w)
  PROVE  w \in Reach(G)
<1>1. PICK g \in G : g.action = w.action /\ Matches(g.resource, w.resource)
  BY DEF Has
<1>2. w.resource \in Below(g.resource)
  <2>1. CASE g.resource = w.resource \/ g.resource = <<"*">>
    <3>1. Len(w.resource) \in Nat /\ w.resource \in Seq(STRING)
      BY ClientsAssumption, LenProperties
    <3>2. ASSUME g.resource = w.resource, g.resource # <<"*">>
          PROVE  Last(g.resource) # "*"
      <4>1. Len(g.resource) \in Nat \ {0}
        BY FrontOf
      <4>2. "*" \notin ToSet(g.resource)
        BY <3>2, ClientsAssumption
      <4> QED BY <4>1, <4>2 DEF ToSet, Last
    <3> QED BY <2>1, <3>2 DEF Below
  <2>2. CASE /\ Len(g.resource) > 1 /\ Last(g.resource) = "*"
             /\ IsPrefix(Front(g.resource), w.resource)
    <3>1. g.resource # <<"*">>
      BY <2>2, BareIsShort
    <3> QED BY <2>2, <3>1 DEF Below
  <2> QED BY <1>1, <2>1, <2>2 DEF Matches
<1> QED BY <1>1, <1>2 DEF Reach

-----------------------------------------------------------------------------
(* API clients: what a route's gates are.                                  *)

\* The stack, place by place.
LEMMA StackPlaces ==
  /\ DOMAIN Stack = 1..12
  /\ DOMAIN Stack = {1, 2, 3, 4, 5, 6, 7, 8, 9, 10, 11, 12}
<1>1. DOMAIN Stack = 1..12
  BY DEF Stack
<1>2. \A i \in 1..12 : i \in {1, 2, 3, 4, 5, 6, 7, 8, 9, 10, 11, 12}
  OBVIOUS
<1>3. \A i \in {1, 2, 3, 4, 5, 6, 7, 8, 9, 10, 11, 12} : i \in 1..12
  OBVIOUS
<1> QED BY <1>1, <1>2, <1>3

LEMMA StackRoutes ==
  /\ Stack[1].route = "listUsers" /\ Stack[2].route = "updateUser"
  /\ Stack[3].route = "" /\ Stack[4].route = "" /\ Stack[5].route = "createDevice"
  /\ Stack[6].route = "" /\ Stack[7].route = "queryEvents" /\ Stack[8].route = ""
  /\ Stack[9].route = "createClient" /\ Stack[10].route = "deleteClient"
  /\ Stack[11].route = "" /\ Stack[12].route = "createUser"
BY DEF Stack, Use, Route

LEMMA StackAreas ==
  /\ Stack[4].areas = {"iot"} /\ Stack[5].areas = {"iot"}
  /\ Stack[6].areas = {"iot"} /\ Stack[7].areas = {"iot"}
  /\ Stack[8].areas = {"clients"} /\ Stack[9].areas = {"clients"}
  /\ Stack[10].areas = {"clients"}
BY DEF Stack, Use, Route

LEMMA StackGates ==
  /\ Stack[1].gate = Grant(<<"users">>, "read") /\ Stack[2].gate = Grant(<<"users">>, "manage")
  /\ Stack[4].gate = Grant(<<"iot">>, "manage") /\ Stack[6].gate = Grant(<<"iot">>, "read")
  /\ Stack[8].gate = Grant(<<"api_clients">>, "manage")
  /\ Stack[12].gate = Grant(<<"users">>, "manage")
BY DEF Stack, Use, Route

\* The names of the routes.
LEMMA RouteNames ==
  Routes = {"listUsers", "updateUser", "createDevice", "queryEvents", "createClient",
            "deleteClient", "createUser"}
<1> DEFINE Names == {"listUsers", "updateUser", "createDevice", "queryEvents", "createClient",
                     "deleteClient", "createUser", ""}
<1>1. {Stack[i].route : i \in {1, 2, 3, 4, 5, 6, 7, 8, 9, 10, 11, 12}} = Names
  BY StackRoutes
<1>2. {Stack[i].route : i \in DOMAIN Stack} = Names
  BY <1>1, StackPlaces
<1> QED BY <1>2 DEF Routes

\* Every route is registered once, and found where it is.
LEMMA EntryOf ==
  ASSUME NEW r \in Routes
  PROVE  /\ Entry(r) \in DOMAIN Stack /\ Stack[Entry(r)].route = r /\ r # ""
         /\ r = "listUsers" => Entry(r) = 1
         /\ r = "updateUser" => Entry(r) = 2
         /\ r = "createDevice" => Entry(r) = 5
         /\ r = "queryEvents" => Entry(r) = 7
         /\ r = "createClient" => Entry(r) = 9
         /\ r = "deleteClient" => Entry(r) = 10
         /\ r = "createUser" => Entry(r) = 12
<1>1. r # "" /\ \E i \in DOMAIN Stack : Stack[i].route = r
  BY DEF Routes
<1>2. Entry(r) \in DOMAIN Stack /\ Stack[Entry(r)].route = r
  BY <1>1 DEF Entry
<1>3. ASSUME NEW i \in {1, 2, 3, 4, 5, 6, 7, 8, 9, 10, 11, 12}
      PROVE  /\ Stack[i].route = "listUsers" => i = 1
             /\ Stack[i].route = "updateUser" => i = 2
             /\ Stack[i].route = "createDevice" => i = 5
             /\ Stack[i].route = "queryEvents" => i = 7
             /\ Stack[i].route = "createClient" => i = 9
             /\ Stack[i].route = "deleteClient" => i = 10
             /\ Stack[i].route = "createUser" => i = 12
  BY StackRoutes
<1>4. Entry(r) \in {1, 2, 3, 4, 5, 6, 7, 8, 9, 10, 11, 12}
  BY <1>2, StackPlaces
<1>5. \A i \in {1, 2, 3, 4, 5, 6, 7, 8, 9, 10, 11, 12} :
        Stack[i].route = r =>
          /\ r = "listUsers" => i = 1
          /\ r = "updateUser" => i = 2
          /\ r = "createDevice" => i = 5
          /\ r = "queryEvents" => i = 7
          /\ r = "createClient" => i = 9
          /\ r = "deleteClient" => i = 10
          /\ r = "createUser" => i = 12
  BY <1>3
<1> QED BY <1>1, <1>2, <1>4, <1>5, Zenon

\* A route's own handlers apply to it.
LEMMA OwnGate ==
  ASSUME NEW r \in Routes
  PROVE  /\ Entry(r) \in GatesOf(r)
         /\ GatesOf(r) \subseteq DOMAIN Stack
<1>1. Entry(r) \in 1..12
  BY EntryOf, StackPlaces
<1>2. Applies(Entry(r), r)
  BY EntryOf DEF Applies
<1>3. 1..Entry(r) \subseteq 1..12
  BY <1>1
<1> QED BY <1>1, <1>2, <1>3, StackPlaces DEF GatesOf

\* The permission the documents give a route is one of its gates, wherever it was
\* registered.
LEMMA DocumentedIsAGate ==
  ASSUME NEW r \in Routes
  PROVE  \E i \in GatesOf(r) : Stack[i].gate = Documented(r)
<1> DEFINE Gated(i) == i \in GatesOf(r) /\ Stack[i].gate = Documented(r)
<1>1. CASE r = "listUsers"
  <2>1. Entry(r) = 1
    BY <1>1, EntryOf
  <2>2. Stack[1].gate = Documented(r)
    BY <1>1, StackGates DEF Documented
  <2> QED BY <2>1, <2>2, OwnGate
<1>2. CASE r = "updateUser"
  <2>1. Entry(r) = 2
    BY <1>2, EntryOf
  <2>2. Stack[2].gate = Documented(r)
    BY <1>2, StackGates DEF Documented
  <2> QED BY <2>1, <2>2, OwnGate
<1>3. CASE r = "createDevice"
  <2>1. Entry(r) = 5
    BY <1>3, EntryOf
  <2>2. Gated(4)
    BY <1>3, <2>1, StackRoutes, StackAreas, StackGates DEF GatesOf, Applies, Documented
  <2> QED BY <2>2
<1>4. CASE r = "queryEvents"
  <2>1. Entry(r) = 7
    BY <1>4, EntryOf
  <2>2. Gated(6)
    BY <1>4, <2>1, StackRoutes, StackAreas, StackGates DEF GatesOf, Applies, Documented
  <2> QED BY <2>2
<1>5. CASE r = "createClient"
  <2>1. Entry(r) = 9
    BY <1>5, EntryOf
  <2>2. Gated(8)
    BY <1>5, <2>1, StackRoutes, StackAreas, StackGates DEF GatesOf, Applies, Documented
  <2> QED BY <2>2
<1>6. CASE r = "deleteClient"
  <2>1. Entry(r) = 10
    BY <1>6, EntryOf
  <2>2. Gated(8)
    BY <1>6, <2>1, StackRoutes, StackAreas, StackGates DEF GatesOf, Applies, Documented
  <2> QED BY <2>2
<1>7. CASE r = "createUser"
  <2>1. Entry(r) = 12
    BY <1>7, EntryOf
  <2>2. Stack[12].gate = Documented(r)
    BY <1>7, StackGates DEF Documented
  <2> QED BY <2>1, <2>2, OwnGate
<1> QED BY <1>1, <1>2, <1>3, <1>4, <1>5, <1>6, <1>7, RouteNames

\* There is always a first place.
LEMMA FirstPlace ==
  ASSUME NEW P \in SUBSET DOMAIN Stack, P # {}
  PROVE  Min(P) \in P
<1>1. P \in SUBSET Nat
  <2>1. 1..12 \subseteq Nat
    OBVIOUS
  <2> QED BY <2>1, StackPlaces
<1>2. \E m \in P : \A n \in P : m <= n
  BY <1>1, LeastNat
<1> QED BY <1>2 DEF Min

-----------------------------------------------------------------------------
(* API clients: the invariant.                                             *)

\* The gate at a place in the stack is none, asks who the actor is, or asks for what
\* the actor has held since the request began.
Passed(q, i) ==
    Stack[i].gate \in {Open, Session, ApiKey} \/ Has(held[q], Stack[i].gate)

\* What a request has behind it are the gates of its route, and it passed them.
Entitled(q) ==
    stage[q] \in {"gates", "handler"} =>
        /\ route[q] \in Served
        /\ \A i \in GatesOf(route[q]) \ ahead[q] : Passed(q, i)
        /\ stage[q] = "handler" => ahead[q] = {}

\* What is known of a user is among what was since the request began.
Abreast(q) == stage[q] # "idle" /\ actor[q] \in Account => known[actor[q]] \subseteq held[q]

\* The scopes that were checked are covered by what the actor has held.
Covered(q) == stage[q] = "scopes" => \A s \in asked[q] \ unchecked[q] : Has(held[q], s)

Upright(q) == Entitled(q) /\ Abreast(q) /\ Covered(q)

\* The scopes of a client were covered by what its creator had held.
Sourced == \A c \in Client : \A s \in scopes[c] : Has(source[c], s)

\* What every step preserves.
AccessInv == AccessTypeOK /\ Sourced /\ \A q \in Call : Upright(q)

\* What a request holds now it has held since it began.
LEMMA HeldSince ==
  ASSUME AccessInv, NEW q \in Call, stage[q] # "idle"
  PROVE  Holds(q) \subseteq held[q]
BY DEF AccessInv, Upright, Abreast, Holds

LEMMA InitAccess == AccessInit => AccessInv
<1> SUFFICES ASSUME AccessInit PROVE AccessInv
  OBVIOUS
<1>1. AccessTypeOK
  BY DEF AccessInit, AccessTypeOK, Labels
<1> QED BY <1>1 DEF AccessInit, AccessInv, Sourced, Upright, Entitled, Abreast, Covered

-----------------------------------------------------------------------------
(* API clients: steps.                                                     *)

\* Nothing of a request changes.
Still(p) ==
    /\ stage'[p] = stage[p] /\ actor'[p] = actor[p] /\ route'[p] = route[p]
    /\ ahead'[p] = ahead[p] /\ asked'[p] = asked[p] /\ unchecked'[p] = unchecked[p]
    /\ held'[p] = held[p]

LEMMA StillUpright ==
  ASSUME NEW p, Upright(p), Still(p), known' = known
  PROVE  Upright(p)'
BY DEF Upright, Entitled, Abreast, Covered, Passed, Still

\* The requests are typed after a request was answered, and it is upright.
LEMMA AnswerHolds ==
  ASSUME AccessTypeOK, NEW q \in Call, Answer(q)
  PROVE  /\ stage' \in [Call -> Labels]
         /\ actor' \in [Call -> Account \cup Client \cup {NoActor}]
         /\ route' \in [Call -> Served \cup {""}]
         /\ ahead' \in [Call -> SUBSET DOMAIN Stack]
         /\ asked' \in [Call -> SUBSET Grants] /\ unchecked' \in [Call -> SUBSET Grants]
         /\ held' \in [Call -> SUBSET Grants]
         /\ \A p \in Call :
              /\ stage'[p] = "gates" => ahead'[p] # {}
              /\ unchecked'[p] \subseteq asked'[p]
              /\ stage'[p] = "idle" => asked'[p] = {} /\ actor'[p] = NoActor
         /\ Upright(q)'
         /\ \A p \in Call \ {q} : Still(p)
<1>1. /\ stage' \in [Call -> Labels]
      /\ actor' \in [Call -> Account \cup Client \cup {NoActor}]
      /\ route' \in [Call -> Served \cup {""}]
      /\ ahead' \in [Call -> SUBSET DOMAIN Stack]
      /\ asked' \in [Call -> SUBSET Grants] /\ unchecked' \in [Call -> SUBSET Grants]
      /\ held' \in [Call -> SUBSET Grants]
  BY DEF Answer, AccessTypeOK, Labels
<1>2. \A p \in Call \ {q} : Still(p)
  BY DEF Answer, AccessTypeOK, Still
<1>3. /\ stage'[q] = "idle" /\ asked'[q] = {} /\ actor'[q] = NoActor /\ unchecked'[q] = {}
  BY DEF Answer, AccessTypeOK
<1>4. Upright(q)'
  BY <1>3 DEF Upright, Entitled, Abreast, Covered
<1>5. \A p \in Call :
        /\ stage'[p] = "gates" => ahead'[p] # {}
        /\ unchecked'[p] \subseteq asked'[p]
        /\ stage'[p] = "idle" => asked'[p] = {} /\ actor'[p] = NoActor
  BY <1>2, <1>3 DEF AccessTypeOK, Still
<1> QED BY <1>1, <1>2, <1>4, <1>5

\* A request is answered and nothing else happens.
LEMMA AnsweredHolds ==
  ASSUME AccessInv, NEW q \in Call, Answer(q), UNCHANGED <<known, clients>>
  PROVE  AccessInv'
<1>1. AccessTypeOK'
  BY AnswerHolds DEF AccessInv, AccessTypeOK, clients
<1>2. \A p \in Call : Upright(p)'
  BY AnswerHolds, StillUpright DEF AccessInv
<1>3. Sourced'
  BY DEF AccessInv, Sourced, clients
<1> QED BY <1>1, <1>2, <1>3 DEF AccessInv

LEMMA LearnHolds ==
  ASSUME AccessInv, NEW u \in Account, NEW g \in Grants, Learn(u, g)
  PROVE  AccessInv'
<1>1. known' \in [Account -> SUBSET Grants]
  BY DEF Learn, AccessInv, AccessTypeOK
<1>2. held' \in [Call -> SUBSET Grants]
  BY <1>1 DEF Learn, AccessInv, AccessTypeOK
<1>3. AccessTypeOK'
  BY <1>1, <1>2 DEF Learn, AccessInv, AccessTypeOK, clients
<1>4. ASSUME NEW q \in Call
      PROVE  Upright(q)'
  <2>1. held[q] \subseteq held'[q]
    BY DEF Learn, AccessInv, AccessTypeOK
  <2>2. Entitled(q)'
    BY <2>1, HasMonotone DEF Learn, AccessInv, Upright, Entitled, Passed
  <2>3. Covered(q)'
    BY <2>1, HasMonotone DEF Learn, AccessInv, Upright, Covered
  <2>4. Abreast(q)'
    <3>1. CASE actor[q] = u
      BY <3>1 DEF Learn, AccessInv, AccessTypeOK, Abreast
    <3>2. CASE actor[q] # u
      BY <3>2 DEF Learn, AccessInv, AccessTypeOK, Upright, Abreast
    <3> QED BY <3>1, <3>2
  <2> QED BY <2>2, <2>3, <2>4 DEF Upright
<1>5. Sourced'
  BY DEF Learn, AccessInv, Sourced, clients
<1> QED BY <1>3, <1>4, <1>5 DEF AccessInv

LEMMA BeginHolds ==
  ASSUME AccessInv, NEW q \in Call, NEW a \in Account \cup Client, NEW walk \in Ways,
         Begin(q, a, walk)
  PROVE  AccessInv'
<1>1. PICK r \in Served : walk = [route |-> r, places |-> GatesOf(r)]
  BY DEF Ways
<1>2. /\ walk.route \in Routes /\ walk.places = GatesOf(walk.route)
      /\ walk.places # {} /\ walk.places \subseteq DOMAIN Stack /\ walk.route \in Served
  BY <1>1, OwnGate, ServedAssumption
<1>3. (IF a \in Account THEN known[a] ELSE scopes[a]) \in SUBSET Grants
  BY DEF Begin, AccessInv, AccessTypeOK
<1>4. \A p \in Call \ {q} : Still(p)
  BY DEF Begin, AccessInv, AccessTypeOK, Still
<1>5. /\ stage'[q] = "gates" /\ actor'[q] = a /\ route'[q] = walk.route
      /\ ahead'[q] = walk.places
      /\ held'[q] = IF a \in Account THEN known[a] ELSE scopes[a]
      /\ asked'[q] = asked[q] /\ unchecked'[q] = unchecked[q] /\ known' = known
  BY DEF Begin, AccessInv, AccessTypeOK
<1>6. AccessTypeOK'
  <2>1. /\ stage' \in [Call -> Labels]
        /\ actor' \in [Call -> Account \cup Client \cup {NoActor}]
        /\ route' \in [Call -> Served \cup {""}]
        /\ ahead' \in [Call -> SUBSET DOMAIN Stack]
        /\ held' \in [Call -> SUBSET Grants]
    BY <1>2, <1>3 DEF Begin, AccessInv, AccessTypeOK, Labels
  <2>2. ASSUME NEW p \in Call
        PROVE  /\ stage'[p] = "gates" => ahead'[p] # {}
               /\ unchecked'[p] \subseteq asked'[p]
               /\ stage'[p] = "idle" => asked'[p] = {} /\ actor'[p] = NoActor
    BY <1>2, <1>4, <1>5 DEF AccessInv, AccessTypeOK, Still
  <2> QED BY <2>1, <2>2 DEF Begin, AccessInv, AccessTypeOK, clients
<1>7. Upright(q)'
  BY <1>2, <1>5 DEF Upright, Entitled, Abreast, Covered
<1>8. \A p \in Call : Upright(p)'
  BY <1>4, <1>5, <1>7, StillUpright DEF AccessInv
<1>9. Sourced'
  BY DEF Begin, AccessInv, Sourced, clients
<1> QED BY <1>6, <1>8, <1>9 DEF AccessInv

LEMMA GateHolds ==
  ASSUME AccessInv, NEW q \in Call, Gate(q)
  PROVE  AccessInv'
<1> DEFINE first == Min(ahead[q])
<1>1. first \in ahead[q] /\ first \in DOMAIN Stack
  BY FirstPlace DEF Gate, AccessInv, AccessTypeOK
<1>2. /\ UNCHANGED <<known, clients, actor, route, asked, unchecked, held>>
      /\ stage[q] = "gates"
  BY DEF Gate
<1>3. CASE ~Passes(q, Stack[first].gate)
  <2>1. stage' = [stage EXCEPT ![q] = "forbidden"] /\ ahead' = ahead
    BY <1>3 DEF Gate
  <2>2. AccessTypeOK'
    BY <1>2, <2>1 DEF AccessInv, AccessTypeOK, Labels, clients
  <2>3. \A p \in Call : Upright(p)'
    BY <1>2, <2>1 DEF AccessInv, AccessTypeOK, Upright, Entitled, Abreast, Covered, Passed
  <2> QED BY <1>2, <2>2, <2>3 DEF AccessInv, Sourced, clients
<1>4. CASE Passes(q, Stack[first].gate)
  <2>1. /\ ahead' = [ahead EXCEPT ![q] = @ \ {first}]
        /\ stage' = [stage EXCEPT ![q] = IF ahead'[q] = {} THEN "handler" ELSE "gates"]
    BY <1>4 DEF Gate
  <2>2. /\ ahead'[q] = ahead[q] \ {first}
        /\ stage'[q] = IF ahead'[q] = {} THEN "handler" ELSE "gates"
        /\ \A p \in Call \ {q} : Still(p)
    BY <1>2, <2>1 DEF AccessInv, AccessTypeOK, Still
  <2>3. AccessTypeOK'
    <3>1. stage' \in [Call -> Labels] /\ ahead' \in [Call -> SUBSET DOMAIN Stack]
      BY <2>1 DEF AccessInv, AccessTypeOK, Labels
    <3>2. \A p \in Call : /\ stage'[p] = "gates" => ahead'[p] # {}
                          /\ stage'[p] = "idle" => stage[p] = "idle"
      BY <2>2 DEF AccessInv, AccessTypeOK, Still
    <3> QED BY <1>2, <3>1, <3>2 DEF AccessInv, AccessTypeOK, clients
  <2>4. Passed(q, first)
    BY <1>2, <1>4, HeldSince, HasMonotone DEF Passes, Passed
  <2>5. Upright(q)'
    BY <1>2, <2>2, <2>4 DEF AccessInv, Upright, Entitled, Abreast, Covered, Passed
  <2>6. \A p \in Call : Upright(p)'
    BY <1>2, <2>2, <2>5, StillUpright DEF AccessInv
  <2> QED BY <1>2, <2>3, <2>6 DEF AccessInv, Sourced, clients
<1> QED BY <1>3, <1>4

LEMMA AskHolds ==
  ASSUME AccessInv, NEW q \in Call, NEW wanted \in SUBSET Grants, Ask(q, wanted)
  PROVE  AccessInv'
<1>1. /\ UNCHANGED <<known, clients, actor, route, ahead, held>>
      /\ stage' = [stage EXCEPT ![q] = "scopes"]
      /\ asked' = [asked EXCEPT ![q] = wanted] /\ unchecked' = [unchecked EXCEPT ![q] = wanted]
      /\ stage[q] = "handler"
  BY DEF Ask
<1>2. /\ stage'[q] = "scopes" /\ asked'[q] = wanted /\ unchecked'[q] = wanted
      /\ \A p \in Call \ {q} : Still(p)
  BY <1>1 DEF AccessInv, AccessTypeOK, Still
<1>3. AccessTypeOK'
  <2>1. /\ stage' \in [Call -> Labels]
        /\ asked' \in [Call -> SUBSET Grants] /\ unchecked' \in [Call -> SUBSET Grants]
    BY <1>1 DEF AccessInv, AccessTypeOK, Labels
  <2>2. \A p \in Call :
           /\ stage'[p] = "gates" => ahead'[p] # {}
           /\ unchecked'[p] \subseteq asked'[p]
           /\ stage'[p] = "idle" => asked'[p] = {} /\ actor'[p] = NoActor
    BY <1>1, <1>2 DEF AccessInv, AccessTypeOK, Still
  <2> QED BY <1>1, <2>1, <2>2 DEF AccessInv, AccessTypeOK, clients
<1>4. Upright(q)'
  BY <1>1, <1>2 DEF AccessInv, Upright, Entitled, Abreast, Covered
<1>5. \A p \in Call : Upright(p)'
  BY <1>1, <1>2, <1>4, StillUpright DEF AccessInv
<1> QED BY <1>1, <1>3, <1>5 DEF AccessInv, Sourced, clients

LEMMA CheckScopeHolds ==
  ASSUME AccessInv, NEW q \in Call, CheckScope(q)
  PROVE  AccessInv'
<1>1. PICK scope \in unchecked[q] :
        IF Has(Holds(q), scope)
        THEN /\ unchecked' = [unchecked EXCEPT ![q] = @ \ {scope}]
             /\ UNCHANGED <<stage, actor, route, ahead, asked, held>>
        ELSE Answer(q)
  BY DEF CheckScope
<1>2. stage[q] = "scopes" /\ UNCHANGED <<known, clients>>
  BY DEF CheckScope
<1>3. CASE ~Has(Holds(q), scope)
  BY <1>1, <1>2, <1>3, AnsweredHolds
<1>4. CASE Has(Holds(q), scope)
  <2>1. /\ unchecked' = [unchecked EXCEPT ![q] = @ \ {scope}]
        /\ UNCHANGED <<stage, actor, route, ahead, asked, held>>
    BY <1>1, <1>4
  <2>2. unchecked'[q] = unchecked[q] \ {scope} /\ \A p \in Call \ {q} : Still(p)
    BY <2>1 DEF AccessInv, AccessTypeOK, Still
  <2>3. AccessTypeOK'
    <3>1. unchecked' \in [Call -> SUBSET Grants]
      BY <2>1 DEF AccessInv, AccessTypeOK
    <3>2. \A p \in Call : unchecked'[p] \subseteq asked'[p]
      BY <2>1, <2>2 DEF AccessInv, AccessTypeOK, Still
    <3> QED BY <1>2, <2>1, <3>1, <3>2 DEF AccessInv, AccessTypeOK, clients
  <2>4. Has(held[q], scope)
    BY <1>2, <1>4, HeldSince, HasMonotone
  <2>5. Upright(q)'
    BY <1>2, <2>1, <2>2, <2>4 DEF AccessInv, Upright, Entitled, Abreast, Covered
  <2>6. \A p \in Call : Upright(p)'
    BY <1>2, <2>2, <2>5, StillUpright DEF AccessInv
  <2> QED BY <1>2, <2>3, <2>6 DEF AccessInv, Sourced, clients
<1> QED BY <1>3, <1>4

LEMMA CreateHolds ==
  ASSUME AccessInv, NEW q \in Call, NEW c \in Client, Create(q, c)
  PROVE  AccessInv'
<1>1. /\ registered' = registered \cup {c} /\ known' = known /\ Answer(q)
      /\ scopes' = [scopes EXCEPT ![c] = asked[q]]
      /\ source' = [source EXCEPT ![c] = held[q]]
      /\ stage[q] = "scopes" /\ unchecked[q] = {}
  BY DEF Create
<1>2. AccessTypeOK'
  <2>1. registered' \subseteq Client /\ scopes' \in [Client -> SUBSET Grants]
        /\ source' \in [Client -> SUBSET Grants]
    BY <1>1 DEF AccessInv, AccessTypeOK
  <2> QED BY <1>1, <2>1, AnswerHolds DEF AccessInv, AccessTypeOK
<1>3. \A p \in Call : Upright(p)'
  BY <1>1, AnswerHolds, StillUpright DEF AccessInv
<1>4. \A s \in asked[q] : Has(held[q], s)
  BY <1>1 DEF AccessInv, Upright, Covered
<1>5. Sourced'
  BY <1>1, <1>4 DEF AccessInv, AccessTypeOK, Sourced
<1> QED BY <1>2, <1>3, <1>5 DEF AccessInv

LEMMA DeleteHolds ==
  ASSUME AccessInv, NEW q \in Call, NEW c \in Client, Delete(q, c)
  PROVE  AccessInv'
<1>1. /\ registered' = registered \ {c} /\ known' = known /\ Answer(q)
      /\ scopes' = [scopes EXCEPT ![c] = {}]
      /\ source' = [source EXCEPT ![c] = {}]
  BY DEF Delete
<1>2. AccessTypeOK'
  <2>1. registered' \subseteq Client /\ scopes' \in [Client -> SUBSET Grants]
        /\ source' \in [Client -> SUBSET Grants]
    BY <1>1 DEF AccessInv, AccessTypeOK
  <2> QED BY <1>1, <2>1, AnswerHolds DEF AccessInv, AccessTypeOK
<1>3. \A p \in Call : Upright(p)'
  BY <1>1, AnswerHolds, StillUpright DEF AccessInv
<1>4. Sourced'
  BY <1>1 DEF AccessInv, AccessTypeOK, Sourced
<1> QED BY <1>2, <1>3, <1>4 DEF AccessInv

LEMMA AccessSteps == AccessInv /\ [AccessNext]_accessVars => AccessInv'
<1> SUFFICES ASSUME AccessInv, [AccessNext]_accessVars PROVE AccessInv'
  OBVIOUS
<1>1. CASE \E u \in Account, g \in Grants : Learn(u, g)
  BY <1>1, LearnHolds
<1>2. ASSUME NEW q \in Call, \E a \in Account \cup Client, walk \in Ways : Begin(q, a, walk)
      PROVE  AccessInv'
  BY <1>2, BeginHolds
<1>3. ASSUME NEW q \in Call, Gate(q) \/ CheckScope(q)
      PROVE  AccessInv'
  BY <1>3, GateHolds, CheckScopeHolds
<1>4. ASSUME NEW q \in Call, Respond(q) \/ Fail(q)
      PROVE  AccessInv'
  BY <1>4, AnsweredHolds DEF Respond, Fail
<1>5. ASSUME NEW q \in Call, NEW wanted \in SUBSET Grants, Ask(q, wanted)
      PROVE  AccessInv'
  BY <1>5, AskHolds
<1>6. ASSUME NEW q \in Call, NEW c \in Client, Create(q, c) \/ Delete(q, c)
      PROVE  AccessInv'
  BY <1>6, CreateHolds, DeleteHolds
<1>7. CASE UNCHANGED accessVars
  <2>1. AccessTypeOK'
    BY <1>7 DEF accessVars, clients, AccessInv, AccessTypeOK
  <2>2. Sourced' /\ \A p \in Call : Upright(p)'
    BY <1>7 DEF accessVars, clients, AccessInv, Sourced, Upright, Entitled, Abreast, Covered,
           Passed
  <2> QED BY <2>1, <2>2 DEF AccessInv
<1> QED BY <1>1, <1>2, <1>3, <1>4, <1>5, <1>6, <1>7 DEF AccessNext

LEMMA AccessHolds == AccessSpec => []AccessInv
BY InitAccess, AccessSteps, PTL DEF AccessSpec

-----------------------------------------------------------------------------
(* API clients: the theorems.                                              *)

\* Whoever calls which routes with which grants, the clients and the requests keep
\* their types, and nothing of a request is left when it is answered.
THEOREM AccessTypes == AccessSpec => []AccessTypeOK
<1>1. AccessInv => AccessTypeOK
  BY DEF AccessInv
<1> QED BY <1>1, AccessHolds, PTL

\* For any grants, with wildcards at their ends or without, and any changes of them
\* between two checks, no client opens more than its creator held while making it
\* (requireOwnScopes).
THEOREM NothingEscalates == AccessSpec => []NoEscalation
<1>1. AccessInv => NoEscalation
  BY CoveredReachLess DEF AccessInv, AccessTypeOK, Sourced, NoEscalation
<1> QED BY <1>1, AccessHolds, PTL

\* Whatever was registered before a route and below which prefix, its handler runs
\* only for an actor who has held the permission the documents give it.
THEOREM EveryRouteIsKept == AccessSpec => []Gatekept
<1>1. ASSUME AccessInv, NEW q \in Call, stage[q] = "handler"
      PROVE  Documented(route[q]) \in Reach(held[q])
  <2> DEFINE d == Documented(route[q])
  <2>1. route[q] \in Served /\ route[q] \in Routes
    BY <1>1, ServedAssumption DEF AccessInv, Upright, Entitled
  <2>2. PICK i \in GatesOf(route[q]) : Stack[i].gate = d
    BY <2>1, DocumentedIsAGate
  <2>3. Passed(q, i) /\ i \in DOMAIN Stack
    BY <1>1, <2>1, OwnGate DEF AccessInv, Upright, Entitled
  <2>4. \E p, a : d = Grant(p, a) /\ a \in {"read", "manage"}
    BY <2>1, RouteNames DEF Documented
  <2>5. d = Grant(d.resource, d.action) /\ d \notin {Open, Session, ApiKey}
    BY <2>4 DEF Grant, Open, Session, ApiKey
  <2>6. d.resource \in Resource
    BY <2>2, <2>3, <2>5, ServedAssumption
  <2>7. Has(held[q], d)
    BY <2>2, <2>3, <2>5 DEF Passed
  <2>8. held[q] \in SUBSET Grants
    BY <1>1 DEF AccessInv, AccessTypeOK
  <2> QED BY <2>5, <2>6, <2>7, <2>8, HasReaches
<1>2. AccessInv => Gatekept
  BY <1>1 DEF Gatekept
<1> QED BY <1>2, AccessHolds, PTL
=============================================================================
