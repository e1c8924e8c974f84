--------------------------- MODULE GroupHierarchy ---------------------------
(***************************************************************************)
(* The group tree of internal/rbac: every row of "groups" has at most one  *)
(* parent_group_id.  `parent' is that column, NoGroup standing for NULL.   *)
(***************************************************************************)
EXTENDS Naturals, SequencesExt

CONSTANTS
    Group,      \* ids a row of groups can have
    NoGroup,    \* parent_group_id IS NULL
    MaxDepth    \* levels the upward walk visits at most: 100 in the code

ASSUME NoGroupAssumption == NoGroup \notin Group
ASSUME DepthAssumption == MaxDepth \in Nat

ParentMap == [Group -> Group \cup {NoGroup}]

\* T holds the parent of each of its members.
Closed(parent, T) == \A g \in T : parent[g] # NoGroup => parent[g] \in T

\* The least set that holds S and the parent of each of its members: what a
\* recursive query over parent_group_id would return for the groups S.
Ancestors(parent, S) ==
    {g \in Group : \A T \in SUBSET Group :
                       S \subseteq T /\ Closed(parent, T) => g \in T}

\* A round of the inner loop of expandAncestorGroups: up by one group, unless that is
\* the root or was seen before.
Round(parent, was) ==
    IF was.cur \in was.seen \cup {NoGroup} THEN was
    ELSE [cur |-> parent[was.cur], seen |-> was.seen \cup {was.cur}]

\* The loop, from one group, with a guard of MaxDepth rounds: what it has seen and
\* where it is before each.
Rounds(parent, seen, start) ==
    LET at[i \in 0..MaxDepth] == IF i = 0 THEN [cur |-> start, seen |-> seen]
                                          ELSE Round(parent, at[i - 1])
    IN  at

WalkUp(parent, seen, start) == Rounds(parent, seen, start)[MaxDepth].seen

\* The outer loop, over the user's groups in the order the query gave them: what has
\* been seen after each.
Walks(parent, groupIDs) ==
    LET after[n \in 0..Len(groupIDs)] ==
            IF n = 0 THEN {} ELSE WalkUp(parent, after[n - 1], groupIDs[n])
    IN  after

expandAncestorGroups(parent, groupIDs) == Walks(parent, groupIDs)[Len(groupIDs)]
=============================================================================
