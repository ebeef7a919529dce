---------------------------- MODULE MCTalkServer ----------------------------
EXTENDS TalkServer, TLC

CONSTANTS c1, c2, c3, a, b

ThreeConns == {c1, c2, c3}
TwoNames   == {a, b}

\* Connections and names are interchangeable.
Symmetry == Permutations(ThreeConns) \cup Permutations(TwoNames)

\* What is claimed is claimed until the first refusal: the run stops behind it.
UpToFirstRefusal == ~ rejected \/ \E t \in Conns : At(t, "refuse")
=============================================================================
