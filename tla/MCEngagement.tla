---------------------------- MODULE MCEngagement ----------------------------
(* Engagement on one user, who logs in and owns the code, and three        *)
(* referees, one more than the code admits before they race.               *)
EXTENDS Engagement, TLC

Symmetry == Permutations(Handlers) \cup Permutations(Referees) \cup Permutations(Moments)
=============================================================================
