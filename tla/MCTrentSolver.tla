--------------------------- MODULE MCTrentSolver ---------------------------
(* TrentSolver for TLC: a bound on the number of distinct requests.        *)
EXTENDS TrentSolver

CONSTANT MaxRequests \* bound of the model: distinct requests published

MCNext ==
  \/ TrentReceives
  \/ \E p \in Parties, r \in ClaimRounds :
       /\ Ask(p, r)
       /\ Cardinality(requests') <= MaxRequests

MCSpec == TrentInit /\ [][MCNext]_trentVars
=============================================================================
