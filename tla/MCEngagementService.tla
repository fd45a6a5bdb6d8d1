------------------------- MODULE MCEngagementService -------------------------
(* EngagementService on two users to remind, who are alike, and one who    *)
(* asks for a code and a badge, in two requests at once.                   *)
EXTENDS EngagementService, TLC

Symmetry == Permutations(Handlers) \cup Permutations(Absent)
=============================================================================
