------------------------------ MODULE Delivery ------------------------------
(***************************************************************************)
(* What a background job promises about the effects it has elsewhere (an   *)
(* alert, a pull request, an answer), given that it marks what it has done *)
(* in its own store and that either step may fail, be lost or be repeated. *)
(* The promise depends on the order in which the job's code takes the two. *)
(***************************************************************************)
EXTENDS Naturals

CONSTANT Items

VARIABLES promise, marked, effects

vars == <<promise, marked, effects>>

(* at_most_once: the mark decides who has the effect, and it is never made  *)
(*   up for.                                                                *)
(* at_least_once: nothing is marked that has had no effect.                 *)
(* once: the mark is the effect.                                            *)
(* after_mark: the effect follows the mark, any number of times.            *)
(* none: there is only the mark.                                            *)
Promises == {"at_most_once", "at_least_once", "once", "after_mark", "none"}

Init ==
  /\ promise \in Promises
  /\ marked = {} /\ effects = [i \in Items |-> 0]

Mark(i) ==
  /\ promise = "at_least_once" => effects[i] > 0
  /\ marked' = marked \cup {i}
  /\ effects' = IF promise = "once" /\ i \notin marked
                THEN [effects EXCEPT ![i] = @ + 1] ELSE effects
  /\ UNCHANGED promise

Effect(i) ==
  /\ promise = "at_most_once" => i \in marked /\ effects[i] = 0
  /\ promise = "after_mark" => i \in marked
  /\ promise \notin {"once", "none"}
  /\ effects' = [effects EXCEPT ![i] = @ + 1]
  /\ UNCHANGED <<promise, marked>>

Next == \E i \in Items : Mark(i) \/ Effect(i)

Spec == Init /\ [][Next]_vars
=============================================================================
