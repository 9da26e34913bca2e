--------------------------- MODULE MCProposalQueue ---------------------------
(* ProposalQueue for TLC: three reviewers, so that two accept while the      *)
(* third edits or rejects, two texts, and one call that dies.                *)
EXTENDS ProposalQueue

=============================================================================
