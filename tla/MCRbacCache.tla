----------------------------- MODULE MCRbacCache -----------------------------
(* Instance of RbacCache for TLC, and the upward walk over every parent map *)
(* on four groups, self-references and longer cycles included.              *)
EXTENDS RbacCache

Tree(depth) == INSTANCE GroupHierarchy
               WITH Group <- 1..4, NoGroup <- 0, MaxDepth <- depth

\* Whatever the order of the user's groups, the walk returns ancestors only, and
\* all of them unless one of those groups is more than depth levels deep: its
\* guard counts from each group anew, and a cycle never reaches it.
ASSUME WalkReturnsAncestors ==
    \A depth \in 1..4, parents \in Tree(1)!ParentMap, direct \in SUBSET (1..4) :
        LET all == Tree(1)!Ancestors(parents, direct)
            deep == \E g \in direct : Cardinality(Tree(1)!Ancestors(parents, {g})) > depth
        IN  \A rows \in SetToSeqs(direct) :
                LET got == Tree(depth)!expandAncestorGroups(parents, rows)
                IN  got \subseteq all /\ (deep \/ got = all)
=============================================================================
