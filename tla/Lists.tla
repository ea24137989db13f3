------------------------------- MODULE Lists --------------------------------
(***************************************************************************)
(* Lists as the Go code builds them: a loop that appends some elements of  *)
(* a slice to another one.  What is kept is told by a set of positions and *)
(* not, as for SelectSeq, by an operator, so that module ListLemmas can    *)
(* state facts about it once.                                              *)
(***************************************************************************)
EXTENDS Naturals, Sequences, SequencesExt

\* The elements of s at the positions in S, in their order.
Keep(s, S) == FlattenSeq([i \in DOMAIN s |-> IF i \in S THEN <<s[i]>> ELSE <<>>])

\* The positions of s whose element stands at no earlier one.
FirstOnes(s) == {i \in DOMAIN s : \A j \in 1..(i - 1) : s[j] # s[i]}

\* The positions of x in s, in their order.
Places(s, x) == Keep([i \in DOMAIN s |-> i], {i \in DOMAIN s : s[i] = x})
=============================================================================
