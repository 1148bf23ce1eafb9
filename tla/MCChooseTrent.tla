---------------------------- MODULE MCChooseTrent ----------------------------
(* ChooseTrent for TLC: the lists of users the signers may start from.     *)
EXTENDS ChooseTrent

\* Replicas of the users that agree, or differ in their order: the filter then
\* drops users, and throws when it meets again a list that it has shortened.
MixedLists == {<<1, 2>>, <<2, 1>>}
==============================================================================
