--------------------------- MODULE MCGitHubClient ---------------------------
(* GitHubClient for TLC: the constants of MCGitHubClient.cfg are three       *)
(* goroutines that ask for one installation, so that a leader, a follower    *)
(* and a latecomer that finds the cache filled or expired interleave.        *)
(* Installations share no state but the mutex.                               *)
EXTENDS GitHubClient

=============================================================================
