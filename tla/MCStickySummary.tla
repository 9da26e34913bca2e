--------------------------- MODULE MCStickySummary ---------------------------
(* Two publishers are symmetric: nothing compares them.                     *)
EXTENDS StickySummary, TLC

PublisherSymmetry == Permutations(Publishers)

=============================================================================
