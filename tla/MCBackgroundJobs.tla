--------------------------- MODULE MCBackgroundJobs ---------------------------
(* The jobs for TLC: two tries of one job of each kind over lists of two     *)
(* items, with two faults.                                                   *)
EXTENDS BackgroundJobs

MCPrompts == 1 .. 2

MCQualities == {<<"good">>, <<"quiet">>, <<"bad">>,
  <<"good", "good">>, <<"quiet", "good">>, <<"bad", "good">>, <<"good", "bad">>}
=============================================================================
