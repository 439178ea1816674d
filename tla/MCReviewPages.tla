--------------------------- MODULE MCReviewPages ---------------------------
(* ReviewPages where the two scans find other pairs of files. *)
EXTENDS ReviewPages

CONSTANTS a, b, c

MCResults == {{{a, b}}, {{a, c}}}
=============================================================================
