---------------------------- MODULE MCReviewRounds ----------------------------
(* The review rounds for TLC.  p is a P0 of which the model is less sure     *)
(* than of a and c; it is like both of them, and they are not like one       *)
(* another.  a2 is a after its code has moved to a file outside the scope of   *)
(* the suppression, and x has no evidence.                                   *)
EXTENDS ReviewRounds

F(fp, path, first, last, severity, type, confidence, title) ==
  [fp |-> fp, path |-> path, first |-> first, last |-> last, severity |-> severity,
   type |-> type, confidence |-> confidence, title |-> title, evidence |-> TRUE]

a  == F(1, 1, 1, 2, "P1", "style", 90, {1, 2, 3, 4})
a2 == F(1, 2, 3, 4, "P1", "style", 90, {1, 2, 3, 4})
c  == F(2, 1, 2, 3, "P1", "logic", 70, {2, 3, 4, 5, 6})
p  == F(3, 1, 2, 2, "P0", "logic", 60, {1, 2, 3, 4, 5})
x  == [a EXCEPT !.fp = 4, !.evidence = FALSE]

MCFindings == {a, a2, c, p, x}

Event(id, path, age) ==
  [id |-> id, category |-> "style", path |-> path, kind |-> "ignored", age |-> age]

(* Enough for a suppression; one event delivered twice and one out of scope. *)
MCHistories == {<<Event(1, 1, 0), Event(2, 1, 1), Event(3, 1, 1)>>,
                <<Event(1, 1, 0), Event(2, 1, 0), Event(2, 1, 0), Event(4, 2, 0)>>}

Span(path, first, last) == [path |-> path, first |-> first, last |-> last]

(* Nothing of this holds a2 in one range.                                    *)
MCDiffs == {{Span(1, 1, 3), Span(2, 1, 3), Span(2, 4, 4)}}

(* The loop of RankAndCapFindings over the sorted findings.                  *)
Loop(findings) ==
  LET Keep(kept, f) ==
        IF Len(kept) = MaxInline \/ \E i \in DOMAIN kept : SameFinding(kept[i], f)
        THEN kept ELSE Append(kept, f)
  IN  FoldLeft(Keep, <<>>, SetToSortSeq(findings, Stronger))

(* What RankAndCap says of the findings that are kept is what the loop keeps. *)
ASSUME LoopAssumption == \A S \in SUBSET MCFindings : RankAndCap(S) = ToSet(Loop(S))

Symmetric == Permutations(Workers)
=============================================================================
