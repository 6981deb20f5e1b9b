------------------------------ MODULE FrameTree ------------------------------
(* session.js: the tree of a frame's layers, rebuilt in JavaScript from the   *)
(* list of layers and the indices the dispatcher leaves.  A layer is its      *)
(* position in the list.                                                      *)
EXTENDS Dispatcher, SequencesExt

\* splice(0, n): what it removes and what it leaves.
Taken(n, seq) == SubSeq(seq, 1, IF n < Len(seq) THEN n ELSE Len(seq))
Rest(n, seq) == SubSeq(seq, n + 1, Len(seq))

\* consume(): each layer taken is given the children its index counts, from
\* the layers that are left when its turn comes.
RECURSIVE Consume(_, _)
Consume(n, st) ==
    LET taken == Taken(n, st.layers)
        Adopt(s, i) ==
            LET sub == Consume(Taken(n, st.indices)[i], s)
            IN  [sub EXCEPT !.kids[taken[i]] = s.kids[taken[i]] \o sub.taken]
        left == [st EXCEPT !.layers = Rest(n, @), !.indices = Rest(n, @)]
        Each == [i \in 1..Len(Taken(n, st.indices)) |-> i]
    IN  [FoldLeft(Adopt, left, Each) EXCEPT !.taken = taken]

\* treefy(): the children of every layer.  What is left of the indices, if
\* enough, is counted for the same layers once more.
Treefy(count, counts) ==
    LET all == [i \in 1..count |-> i]
        first == Consume(1, [layers |-> all, indices |-> counts,
                             kids |-> [i \in 1..count |-> <<>>], taken |-> <<>>])
        len == count - Len(first.layers)
    IN  IF Len(first.indices) >= len
        THEN Consume(len, [first EXCEPT !.layers = all]).kids
        ELSE first.kids

---------------------------------------------------------------------------
ChildrenOf(i) ==
    SelectSeq([j \in 1..Len(layers) |-> j],
              LAMBDA j : j > 1 /\ parents[j - 1] = i)

\* The list is in the order of creation, breadth first, and consume() reads
\* it depth first: the two agree on a frame unless a layer has children of
\* its own next to a sibling, or a cousin, that has grandchildren.
RECURSIVE Depth(_)
Depth(i) == IF i = 1 THEN 0 ELSE 1 + Depth(parents[i - 1])

BranchesApart ==
    \A i, j \in 1..Len(layers) :
        (i < j /\ Depth(i) = Depth(j) /\ ChildrenOf(j) # <<>>) =>
            \A k \in Range(ChildrenOf(i)) : ChildrenOf(k) = <<>>

\* The second pass appends a count for every leaf again, and takes the counts
\* that are there for those of the layers it adds.  consume() makes sense of
\* that when the first pass left only the root, or the second adds nothing, as
\* the one serial decoder of the packages, which adds attributes and payloads.
\* (A child added to x of [root, x], counted <<1, 0>>, gives <<1, 0, 1>>: the
\* new layer is taken for one that has a child and passed over, and treefy()
\* leaves it out of the tree.)
SecondPassApart == decoded \in {1, Len(layers)}

\* The tree JavaScript shows is the tree the decoders built: every layer has
\* the children its decoders gave it, in their order, on the frames whose
\* branches are apart, when the second pass adds layers to a root alone or
\* to no frame.
TreeRebuilt ==
    phase = "done" /\ BranchesApart /\ SecondPassApart =>
        Treefy(Len(layers), indices) = [i \in 1..Len(layers) |-> ChildrenOf(i)]
=============================================================================
