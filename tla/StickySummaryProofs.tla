------------------------- MODULE StickySummaryProofs -------------------------
(***************************************************************************)
(* Proofs about StickySummary, for every number of publishers and pages    *)
(* and every page size: SummaryInv is inductive.                           *)
(***************************************************************************)
EXTENDS StickySummary, SequenceTheorems, TLAPS

(* What a new, an edited and a deleted comment do to the list.              *)
LEMMA Appended ==
  ASSUME comments \in Seq(Comment), NEW c \in Comment, comments' = Append(comments, c)
  PROVE  /\ comments' \in Seq(Comment)
         /\ Len(comments) \in Nat
         /\ DOMAIN comments = 1 .. Len(comments)
         /\ DOMAIN comments' = 1 .. Len(comments) + 1
         /\ \A i \in DOMAIN comments : comments'[i] = comments[i]
         /\ comments'[Len(comments) + 1] = c
OBVIOUS

\* A patch of one comment leaves the others, and its id and author, as they are.
LEMMA Patched ==
  ASSUME comments \in Seq(Comment), NEW i \in DOMAIN comments, NEW s \in Nat,
         comments' = [comments EXCEPT ![i] = Summary(comments[i].id, @.by, s)]
  PROVE  /\ comments' \in Seq(Comment)
         /\ DOMAIN comments' = DOMAIN comments
         /\ \A j \in DOMAIN comments \ {i} : comments'[j] = comments[j]
         /\ comments'[i].text = s /\ comments'[i].marked = TRUE
         /\ \A j \in DOMAIN comments :
              comments'[j].id = comments[j].id /\ comments'[j].by = comments[j].by
<1> DEFINE edited == Summary(comments[i].id, comments[i].by, s)
<1>1. comments[i] \in Comment
  OBVIOUS
<1>2. /\ edited \in Comment
      /\ edited.id = comments[i].id /\ edited.by = comments[i].by
      /\ edited.text = s /\ edited.marked = TRUE
  BY <1>1 DEF Comment, Summary
<1>3. comments' = [comments EXCEPT ![i] = edited]
  BY DEF Summary
<1> HIDE DEF edited
<1>4. comments' \in Seq(Comment) /\ DOMAIN comments' = DOMAIN comments
  BY <1>2, <1>3
<1>5. /\ comments'[i] = edited
      /\ \A j \in DOMAIN comments \ {i} : comments'[j] = comments[j]
  BY <1>3
<1>6. QED
  BY <1>2, <1>4, <1>5

\* RemoveAt takes one entry out and moves those behind it up.
LEMMA RemoveAtProperties ==
  ASSUME NEW S, NEW s \in Seq(S), NEW i \in 1 .. Len(s)
  PROVE  /\ RemoveAt(s, i) \in Seq(S)
         /\ Len(RemoveAt(s, i)) = Len(s) - 1
         /\ \A j \in 1 .. Len(s) - 1 :
              RemoveAt(s, i)[j] = s[IF j < i THEN j ELSE j + 1]
<1> DEFINE before == SubSeq(s, 1, i - 1)
           after  == SubSeq(s, i + 1, Len(s))
<1>1. Len(s) \in Nat /\ i \in Nat /\ 1 <= i /\ i <= Len(s)
  OBVIOUS
<1>2. /\ before \in Seq(S) /\ Len(before) = i - 1
      /\ \A j \in 1 .. i - 1 : before[j] = s[j]
  BY <1>1
<1>3. /\ after \in Seq(S) /\ Len(after) = Len(s) - i
      /\ \A j \in 1 .. Len(s) - i : after[j] = s[j + i]
  BY <1>1
<1>4. RemoveAt(s, i) = before \o after
  BY DEF RemoveAt
<1> HIDE DEF before, after
<1>5. /\ before \o after \in Seq(S)
      /\ Len(before \o after) = Len(before) + Len(after)
      /\ \A j \in 1 .. Len(before) + Len(after) :
           (before \o after)[j] = IF j <= Len(before) THEN before[j] ELSE after[j - Len(before)]
  BY <1>2, <1>3, ConcatProperties
<1>6. ASSUME NEW j \in 1 .. Len(s) - 1
      PROVE  RemoveAt(s, i)[j] = s[IF j < i THEN j ELSE j + 1]
  <2>1. RemoveAt(s, i)[j] = IF j <= i - 1 THEN before[j] ELSE after[j - (i - 1)]
    BY <1>1, <1>2, <1>3, <1>4, <1>5
  <2>2. CASE j < i
    BY <1>1, <1>2, <2>1, <2>2
  <2>3. CASE j >= i
    <3>1. j - (i - 1) \in 1 .. Len(s) - i /\ j - (i - 1) + i = j + 1
      BY <1>1, <2>3
    <3>2. after[j - (i - 1)] = s[j + 1]
      BY <1>3, <3>1
    <3>3. QED
      BY <1>1, <2>1, <2>3, <3>2
  <2>4. QED
    BY <1>1, <2>2, <2>3
<1>7. QED
  BY <1>1, <1>2, <1>3, <1>4, <1>5, <1>6

\* A comment that is removed leaves the others as they are.
LEMMA Withdrawn ==
  ASSUME comments \in Seq(Comment), NEW i \in DOMAIN comments,
         comments' = RemoveAt(comments, i)
  PROVE  /\ comments' \in Seq(Comment)
         /\ Len(comments) \in Nat /\ i \in 1 .. Len(comments)
         /\ DOMAIN comments = 1 .. Len(comments)
         /\ DOMAIN comments' = 1 .. Len(comments) - 1
         /\ \A j \in DOMAIN comments' :
              comments'[j] = comments[IF j < i THEN j ELSE j + 1]
<1>1. Len(comments) \in Nat /\ i \in 1 .. Len(comments) /\ DOMAIN comments = 1 .. Len(comments)
  OBVIOUS
<1> DEFINE rest == RemoveAt(comments, i)
<1>2. /\ rest \in Seq(Comment) /\ Len(rest) = Len(comments) - 1
      /\ \A j \in 1 .. Len(comments) - 1 : rest[j] = comments[IF j < i THEN j ELSE j + 1]
  BY <1>1, RemoveAtProperties
<1> HIDE DEF rest
<1>3. comments' = rest
  BY DEF rest
<1>4. QED
  BY SMTT(60), <1>1, <1>2, <1>3

-----------------------------------------------------------------------------

\* The invariant holds for a thread without comments.
LEMMA InitSummary == Init => SummaryInv
<1> SUFFICES ASSUME Init PROVE SummaryInv
  OBVIOUS
<1>1. comments \in Seq(Comment) /\ DOMAIN comments = {} /\ Own = {}
  BY DEF Init, Own
<1>2. TypeOK
  <2>1. /\ \A i, j \in DOMAIN comments : comments[i].id = comments[j].id => i = j
        /\ \A i \in DOMAIN comments : comments[i].id <= written
    BY <1>1
  <2>2. /\ at \in [Publishers -> Place] /\ page \in [Publishers -> 1 .. MaxPages]
        /\ target \in [Publishers -> Nat] /\ text \in [Publishers -> Nat]
    BY PagesAssumption DEF Init, Place
  <2>3. /\ written \in Nat /\ upserts \in Nat /\ flying \subseteq Request
        /\ confirmed \in Nat /\ disturbed \in BOOLEAN
    BY DEF Init
  <2>4. QED
    BY <1>1, <2>1, <2>2, <2>3 DEF TypeOK, CommentsOK
<1>3. OwnIsMarked /\ TargetsAreOwn /\ CallsStartEmpty
  BY <1>1 DEF Init, OwnIsMarked, TargetsAreOwn, AimsAtOwn, CallsStartEmpty
<1>4. Undisturbed
  BY <1>1 DEF Init, Undisturbed, OneAtATime, ReadIsWithout, CreatesTheFirst, NewerThanConfirmed
<1>5. QED
  BY <1>2, <1>3, <1>4 DEF SummaryInv

\* Comments have ids of their own.
LEMMA CommentFacts ==
  ASSUME CommentsOK
  PROVE  /\ Len(comments) \in Nat /\ DOMAIN comments = 1 .. Len(comments)
         /\ \A i \in DOMAIN comments :
              /\ comments[i] \in Comment
              /\ comments[i].id \in Nat \ {0} /\ comments[i].text \in Nat
<1>1. /\ Len(comments) \in Nat /\ DOMAIN comments = 1 .. Len(comments)
      /\ \A i \in DOMAIN comments : comments[i] \in Comment
  BY DEF CommentsOK
<1>2. QED
  BY <1>1 DEF Comment

(* A request without a target is aimed at nobody's comment.                 *)
LEMMA AimsAtNothing == ASSUME TypeOK PROVE AimsAtOwn(0)
BY CommentFacts DEF TypeOK, CommentsOK, AimsAtOwn

(* Steps of one call that leave the comments alone.                         *)
LEMMA UpsertSummary ==
  ASSUME SummaryInv, NEW p \in Publishers, Upsert(p) PROVE SummaryInv'
<1>1. TypeOK'
  BY PagesAssumption DEF Upsert, Disturb, SummaryInv, TypeOK, CommentsOK, Place
<1>2. OwnIsMarked'
  BY DEF Upsert, Disturb, SummaryInv, OwnIsMarked, Own
<1>3. TargetsAreOwn'
  <2>1. UNCHANGED <<comments, written, target, flying>> /\ target[p] = 0 /\ AimsAtOwn(0)
    BY AimsAtNothing DEF Upsert, SummaryInv, CallsStartEmpty
  <2>2. \A q \in Publishers \ {p} : at'[q] = at[q]
    BY DEF Upsert, SummaryInv, TypeOK
  <2>3. QED
    BY <2>1, <2>2 DEF SummaryInv, TargetsAreOwn, AimsAtOwn, Own
<1>4. CallsStartEmpty'
  BY DEF Upsert, Disturb, SummaryInv, TypeOK, CommentsOK, CallsStartEmpty
<1>5. ASSUME ~disturbed' PROVE Undisturbed'
  <2>1. ~disturbed /\ Undisturbed
    BY <1>5 DEF Upsert, Disturb, SummaryInv, TypeOK, CommentsOK
  <2>2. OneAtATime'
    <3>1. flying = {} /\ \A q \in Publishers : at[q] = "idle"
      BY <1>5 DEF Upsert, Disturb
    <3>2. QED
      BY <3>1 DEF Upsert, SummaryInv, TypeOK, CommentsOK, OneAtATime
  <2>3. ReadIsWithout'
    BY <2>1, PagesAssumption DEF Upsert, Disturb, SummaryInv, TypeOK, CommentsOK, CallsStartEmpty, Undisturbed, ReadIsWithout, Own
  <2>4. CreatesTheFirst'
    BY <2>1 DEF Upsert, Disturb, SummaryInv, TypeOK, CommentsOK, Undisturbed, CreatesTheFirst, Own
  <2>5. NewerThanConfirmed'
    BY <2>1 DEF Upsert, Disturb, SummaryInv, TypeOK, CommentsOK, Undisturbed, NewerThanConfirmed
  <2>6. QED
    BY <2>1, <2>2, <2>3, <2>4, <2>5 DEF Upsert, Disturb, Undisturbed, Own
<1>6. QED
  BY <1>1, <1>2, <1>3, <1>4, <1>5 DEF SummaryInv

\* A page with the summary names it as the target.
LEMMA FindSummary ==
  ASSUME SummaryInv, NEW p \in Publishers, Find(p) PROVE SummaryInv'
<1>1. TypeOK'
  BY CommentFacts DEF Find, Found, OnPage, IsSticky, SummaryInv, TypeOK, CommentsOK, Place
<1>2. OwnIsMarked'
  BY DEF Find, Found, OnPage, IsSticky, SummaryInv, OwnIsMarked, Own
<1>3. TargetsAreOwn'
  BY DEF Find, Found, OnPage, IsSticky, SummaryInv, TypeOK, CommentsOK, TargetsAreOwn, AimsAtOwn, Own, Comment
<1>4. CallsStartEmpty'
  BY DEF Find, Found, OnPage, IsSticky, SummaryInv, TypeOK, CommentsOK, CallsStartEmpty
<1>5. ASSUME ~disturbed' PROVE Undisturbed'
  <2>1. ~disturbed /\ Undisturbed
    BY <1>5 DEF Find, Found, OnPage, IsSticky, SummaryInv, TypeOK, CommentsOK
  <2>2. OneAtATime'
    BY <2>1 DEF Find, Found, OnPage, IsSticky, SummaryInv, TypeOK, CommentsOK, Undisturbed, OneAtATime
  <2>3. ReadIsWithout'
    BY <2>1, PagesAssumption DEF Find, Found, OnPage, IsSticky, SummaryInv, TypeOK, CommentsOK, CallsStartEmpty, Undisturbed, ReadIsWithout, Own
  <2>4. CreatesTheFirst'
    <3>1. target'[p] # 0
      BY CommentFacts DEF Find, Found, OnPage, SummaryInv, TypeOK, CommentsOK
    <3>2. QED
      BY <2>1, <3>1 DEF Find, SummaryInv, TypeOK, CommentsOK, Undisturbed, CreatesTheFirst, Own
  <2>5. NewerThanConfirmed'
    BY <2>1 DEF Find, Found, OnPage, IsSticky, SummaryInv, TypeOK, CommentsOK, Undisturbed, NewerThanConfirmed
  <2>6. QED
    BY <2>1, <2>2, <2>3, <2>4, <2>5 DEF Find, Found, OnPage, IsSticky, Undisturbed, Own
<1>6. QED
  BY <1>1, <1>2, <1>3, <1>4, <1>5 DEF SummaryInv

\* The last page without the summary leaves no target.
LEMMA FindNothingSummary ==
  ASSUME SummaryInv, NEW p \in Publishers, FindNothing(p) PROVE SummaryInv'
<1>1. TypeOK'
  BY PagesAssumption DEF FindNothing, Found, OnPage, IsFull, IsSticky, SummaryInv, TypeOK, CommentsOK, Place
<1>2. OwnIsMarked'
  BY DEF FindNothing, Found, OnPage, IsFull, IsSticky, SummaryInv, OwnIsMarked, Own
<1>3. TargetsAreOwn'
  BY DEF FindNothing, Found, OnPage, IsFull, IsSticky, SummaryInv, TypeOK, CommentsOK, TargetsAreOwn, AimsAtOwn, Own, Comment
<1>4. CallsStartEmpty'
  BY DEF FindNothing, Found, OnPage, IsFull, IsSticky, SummaryInv, TypeOK, CommentsOK, CallsStartEmpty
<1>5. ASSUME ~disturbed' PROVE Undisturbed'
  <2>1. ~disturbed /\ Undisturbed
    BY <1>5 DEF FindNothing, Found, OnPage, IsFull, IsSticky, SummaryInv, TypeOK, CommentsOK
  <2>2. OneAtATime'
    BY <2>1 DEF FindNothing, Found, OnPage, IsFull, IsSticky, SummaryInv, TypeOK, CommentsOK, Undisturbed, OneAtATime
  <2>3. ReadIsWithout'
    BY <2>1, PagesAssumption DEF FindNothing, Found, OnPage, IsFull, IsSticky, SummaryInv, TypeOK, CommentsOK, CallsStartEmpty, Undisturbed, ReadIsWithout, Own
  <2>4. CreatesTheFirst'
    <3>1. Own = {}
      <4> SUFFICES ASSUME NEW i \in Own PROVE FALSE
        OBVIOUS
      <4>1. i \in DOMAIN comments /\ IsSticky(comments[i])
        BY DEF SummaryInv, OwnIsMarked, Own, IsSticky
      <4>2. i > (page[p] - 1) * PerPage
        BY <2>1 DEF FindNothing, Undisturbed, ReadIsWithout
      <4>3. ~(i <= page[p] * PerPage)
        BY <4>1, <4>2 DEF FindNothing, Found, OnPage
      <4>4. ~(page[p] * PerPage <= Len(comments)) /\ i \in Nat /\ Len(comments) \in Nat /\ i <= Len(comments)
        BY <4>1, CommentFacts DEF FindNothing, IsFull, SummaryInv
      <4>5. page[p] * PerPage \in Nat
        BY PagesAssumption DEF SummaryInv, TypeOK, CommentsOK
      <4>6. QED
        BY <4>3, <4>4, <4>5
    <3>2. QED
      BY <2>1, <3>1 DEF FindNothing, SummaryInv, TypeOK, CommentsOK, Undisturbed, CreatesTheFirst, Own
  <2>5. NewerThanConfirmed'
    BY <2>1 DEF FindNothing, Found, OnPage, IsFull, IsSticky, SummaryInv, TypeOK, CommentsOK, Undisturbed, NewerThanConfirmed
  <2>6. QED
    BY <2>1, <2>2, <2>3, <2>4, <2>5 DEF FindNothing, Found, OnPage, IsFull, IsSticky, Undisturbed, Own
<1>6. QED
  BY <1>1, <1>2, <1>3, <1>4, <1>5 DEF SummaryInv

\* A full page without the summary leads to the next.
LEMMA NextPageSummary ==
  ASSUME SummaryInv, NEW p \in Publishers, NextPage(p) PROVE SummaryInv'
<1>1. TypeOK'
  BY PagesAssumption DEF NextPage, Found, OnPage, IsFull, IsSticky, IsLast, SummaryInv, TypeOK, CommentsOK, Place
<1>2. OwnIsMarked'
  BY DEF NextPage, Found, OnPage, IsFull, IsSticky, IsLast, SummaryInv, OwnIsMarked, Own
<1>3. TargetsAreOwn'
  BY DEF NextPage, Found, OnPage, IsFull, IsSticky, IsLast, SummaryInv, TypeOK, CommentsOK, TargetsAreOwn, AimsAtOwn, Own, Comment
<1>4. CallsStartEmpty'
  BY DEF NextPage, Found, OnPage, IsFull, IsSticky, IsLast, SummaryInv, TypeOK, CommentsOK, CallsStartEmpty
<1>5. ASSUME ~disturbed' PROVE Undisturbed'
  <2>1. ~disturbed /\ Undisturbed
    BY <1>5 DEF NextPage, Found, OnPage, IsFull, IsSticky, IsLast, SummaryInv, TypeOK, CommentsOK
  <2>2. OneAtATime'
    BY <2>1 DEF NextPage, Found, OnPage, IsFull, IsSticky, IsLast, SummaryInv, TypeOK, CommentsOK, Undisturbed, OneAtATime
  <2>3. ReadIsWithout'
    <3>1. ASSUME NEW i \in Own PROVE i > page[p] * PerPage
      <4>1. i \in DOMAIN comments /\ IsSticky(comments[i])
        BY DEF SummaryInv, OwnIsMarked, Own, IsSticky
      <4>2. i > (page[p] - 1) * PerPage
        BY <2>1 DEF NextPage, Undisturbed, ReadIsWithout
      <4>3. ~(i <= page[p] * PerPage)
        BY <4>1, <4>2 DEF NextPage, Found, OnPage
      <4>4. i \in Nat /\ page[p] * PerPage \in Nat
        BY <4>1, CommentFacts, PagesAssumption DEF SummaryInv, TypeOK, CommentsOK
      <4>5. QED
        BY <4>3, <4>4
    <3>2. page'[p] - 1 = page[p] /\ \A q \in Publishers \ {p} : page'[q] = page[q]
      BY DEF NextPage, SummaryInv, TypeOK, CommentsOK
    <3>3. QED
      BY <2>1, <3>1, <3>2 DEF NextPage, Undisturbed, ReadIsWithout, Own
  <2>4. CreatesTheFirst'
    BY <2>1 DEF NextPage, Found, OnPage, IsFull, IsSticky, IsLast, SummaryInv, TypeOK, CommentsOK, Undisturbed, CreatesTheFirst, Own
  <2>5. NewerThanConfirmed'
    BY <2>1 DEF NextPage, Found, OnPage, IsFull, IsSticky, IsLast, SummaryInv, TypeOK, CommentsOK, Undisturbed, NewerThanConfirmed
  <2>6. QED
    BY <2>1, <2>2, <2>3, <2>4, <2>5 DEF NextPage, Found, OnPage, IsFull, IsSticky, IsLast, Undisturbed, Own
<1>6. QED
  BY <1>1, <1>2, <1>3, <1>4, <1>5 DEF SummaryInv

\* The limit of pages ends the call.
LEMMA ReachLimitSummary ==
  ASSUME SummaryInv, NEW p \in Publishers, ReachLimit(p) PROVE SummaryInv'
<1>1. TypeOK'
  BY PagesAssumption DEF ReachLimit, Return, SummaryInv, TypeOK, CommentsOK, Place
<1>2. OwnIsMarked'
  BY DEF ReachLimit, Return, SummaryInv, OwnIsMarked, Own
<1>3. TargetsAreOwn'
  BY DEF ReachLimit, Return, SummaryInv, TypeOK, CommentsOK, TargetsAreOwn, AimsAtOwn, Own, Comment
<1>4. CallsStartEmpty'
  BY DEF ReachLimit, Return, SummaryInv, TypeOK, CommentsOK, CallsStartEmpty
<1>5. ASSUME ~disturbed' PROVE Undisturbed'
  <2>1. ~disturbed /\ Undisturbed
    BY <1>5 DEF ReachLimit, Return, SummaryInv, TypeOK, CommentsOK
  <2>2. OneAtATime'
    BY <2>1 DEF ReachLimit, Return, SummaryInv, TypeOK, CommentsOK, Undisturbed, OneAtATime
  <2>3. ReadIsWithout'
    BY <2>1, PagesAssumption DEF ReachLimit, Return, SummaryInv, TypeOK, CommentsOK, CallsStartEmpty, Undisturbed, ReadIsWithout, Own
  <2>4. CreatesTheFirst'
    BY <2>1 DEF ReachLimit, Return, SummaryInv, TypeOK, CommentsOK, Undisturbed, CreatesTheFirst, Own
  <2>5. NewerThanConfirmed'
    BY <2>1 DEF ReachLimit, Return, SummaryInv, TypeOK, CommentsOK, Undisturbed, NewerThanConfirmed
  <2>6. QED
    BY <2>1, <2>2, <2>3, <2>4, <2>5 DEF ReachLimit, Return, Undisturbed, Own
<1>6. QED
  BY <1>1, <1>2, <1>3, <1>4, <1>5 DEF SummaryInv

\* A refused request ends the call.
LEMMA RefusedSummary ==
  ASSUME SummaryInv, NEW p \in Publishers, Refused(p) PROVE SummaryInv'
<1>1. TypeOK'
  BY PagesAssumption DEF Refused, Return, SummaryInv, TypeOK, CommentsOK, Place
<1>2. OwnIsMarked'
  BY DEF Refused, Return, SummaryInv, OwnIsMarked, Own
<1>3. TargetsAreOwn'
  BY DEF Refused, Return, SummaryInv, TypeOK, CommentsOK, TargetsAreOwn, AimsAtOwn, Own, Comment
<1>4. CallsStartEmpty'
  BY DEF Refused, Return, SummaryInv, TypeOK, CommentsOK, CallsStartEmpty
<1>5. ASSUME ~disturbed' PROVE Undisturbed'
  <2>1. ~disturbed /\ Undisturbed
    BY <1>5 DEF Refused, Return, SummaryInv, TypeOK, CommentsOK
  <2>2. OneAtATime'
    BY <2>1 DEF Refused, Return, SummaryInv, TypeOK, CommentsOK, Undisturbed, OneAtATime
  <2>3. ReadIsWithout'
    BY <2>1, PagesAssumption DEF Refused, Return, SummaryInv, TypeOK, CommentsOK, CallsStartEmpty, Undisturbed, ReadIsWithout, Own
  <2>4. CreatesTheFirst'
    BY <2>1 DEF Refused, Return, SummaryInv, TypeOK, CommentsOK, Undisturbed, CreatesTheFirst, Own
  <2>5. NewerThanConfirmed'
    BY <2>1 DEF Refused, Return, SummaryInv, TypeOK, CommentsOK, Undisturbed, NewerThanConfirmed
  <2>6. QED
    BY <2>1, <2>2, <2>3, <2>4, <2>5 DEF Refused, Return, Undisturbed, Own
<1>6. QED
  BY <1>1, <1>2, <1>3, <1>4, <1>5 DEF SummaryInv

-----------------------------------------------------------------------------
(* The three ways in which the list of comments changes.                    *)

\* A post adds one comment of the application.
LEMMA PostChanges ==
  ASSUME CommentsOK, OwnIsMarked, NEW s \in Nat, Post(s)
  PROVE  /\ CommentsOK' /\ OwnIsMarked'
         /\ \E n \in DOMAIN comments' :
              Own' = Own \union {n} /\ comments'[n].text = s
         /\ \A t \in Nat : AimsAtOwn(t) => AimsAtOwn(t)'
<1> DEFINE new == Summary(written + 1, "bot", s)
           n   == Len(comments) + 1
<1>1. /\ new \in Comment /\ new.id = written + 1 /\ new.by = "bot"
      /\ new.text = s /\ new.marked = TRUE
  BY DEF Summary, Comment, CommentsOK
<1>2. comments' = Append(comments, new) /\ written' = written + 1
  BY DEF Post
<1> HIDE DEF new
<1>3. /\ comments' \in Seq(Comment)
      /\ Len(comments) \in Nat
      /\ DOMAIN comments = 1 .. Len(comments)
      /\ DOMAIN comments' = 1 .. Len(comments) + 1
      /\ \A i \in DOMAIN comments : comments'[i] = comments[i]
      /\ comments'[n] = new
  BY <1>1, <1>2, Appended DEF CommentsOK
<1>4. \A i \in DOMAIN comments' : i \in DOMAIN comments \/ i = n
  BY <1>3
<1>5. \A i \in DOMAIN comments : comments[i].id \in Nat /\ comments[i].id <= written
  BY CommentFacts DEF CommentsOK
<1>6. CommentsOK'
  BY <1>1, <1>2, <1>3, <1>4, <1>5 DEF CommentsOK
<1>7. n \in DOMAIN comments' /\ Own' = Own \union {n}
  BY <1>1, <1>3, <1>4 DEF Own
<1>8. OwnIsMarked'
  BY <1>1, <1>3, <1>7 DEF OwnIsMarked, Own
<1>9. ASSUME NEW t \in Nat, AimsAtOwn(t) PROVE AimsAtOwn(t)'
  BY <1>1, <1>2, <1>3, <1>4, <1>7, <1>9 DEF AimsAtOwn, CommentsOK
<1>10. QED
  BY <1>1, <1>3, <1>6, <1>7, <1>8, <1>9

\* A marker that somebody else edits changes no comment of the application.
LEMMA RemarkChanges ==
  ASSUME CommentsOK, OwnIsMarked, NEW marked \in BOOLEAN, Remark(marked)
  PROVE  /\ CommentsOK' /\ OwnIsMarked' /\ Own' = Own
         /\ \A i \in DOMAIN comments : i \in DOMAIN comments' /\ comments'[i] = comments[i]
         /\ \A t \in Nat : AimsAtOwn(t) => AimsAtOwn(t)'
<1> DEFINE new == [id |-> written + 1, by |-> "other", marked |-> marked, text |-> 0]
           n   == Len(comments) + 1
<1>1. new \in Comment /\ new.id = written + 1 /\ new.by = "other"
  BY DEF Comment, CommentsOK
<1>2. comments' = Append(comments, new) /\ written' = written + 1
  BY DEF Remark
<1> HIDE DEF new
<1>3. /\ comments' \in Seq(Comment)
      /\ Len(comments) \in Nat
      /\ DOMAIN comments = 1 .. Len(comments)
      /\ DOMAIN comments' = 1 .. Len(comments) + 1
      /\ \A i \in DOMAIN comments : comments'[i] = comments[i]
      /\ comments'[n] = new
  BY <1>1, <1>2, Appended DEF CommentsOK
<1>4. \A i \in DOMAIN comments' : i \in DOMAIN comments \/ i = n
  BY <1>3
<1>5. \A i \in DOMAIN comments : comments[i].id \in Nat /\ comments[i].id <= written
  BY CommentFacts DEF CommentsOK
<1>6. CommentsOK'
  BY <1>1, <1>2, <1>3, <1>4, <1>5 DEF CommentsOK
<1>7. Own' = Own
  BY <1>1, <1>3, <1>4 DEF Own
<1>8. OwnIsMarked'
  BY <1>3, <1>7 DEF OwnIsMarked, Own
<1>9. ASSUME NEW t \in Nat, AimsAtOwn(t) PROVE AimsAtOwn(t)'
  BY <1>1, <1>2, <1>3, <1>4, <1>7, <1>9 DEF AimsAtOwn, CommentsOK
<1>10. QED
  BY <1>3, <1>6, <1>7, <1>8, <1>9

\* A patch changes the text of one comment of the application.
LEMMA PatchChanges ==
  ASSUME CommentsOK, OwnIsMarked, NEW t \in Nat, NEW s \in Nat, Patch(t, s), AimsAtOwn(t)
  PROVE  /\ CommentsOK' /\ OwnIsMarked' /\ Own' = Own
         /\ DOMAIN comments' = DOMAIN comments
         /\ \E n \in Own :
              /\ comments'[n].text = s
              /\ \A i \in DOMAIN comments \ {n} : comments'[i] = comments[i]
         /\ \A u \in Nat : AimsAtOwn(u) => AimsAtOwn(u)'
<1>1. PICK n \in DOMAIN comments :
        /\ comments[n].id = t
        /\ comments' = [comments EXCEPT ![n] = Summary(comments[n].id, @.by, s)]
  BY DEF Patch
<1>2. /\ comments' \in Seq(Comment)
      /\ DOMAIN comments' = DOMAIN comments
      /\ \A j \in DOMAIN comments \ {n} : comments'[j] = comments[j]
      /\ comments'[n].text = s /\ comments'[n].marked = TRUE
      /\ \A j \in DOMAIN comments :
           comments'[j].id = comments[j].id /\ comments'[j].by = comments[j].by
  BY <1>1, Patched DEF CommentsOK
<1>3. written' = written /\ Own' = Own /\ n \in Own
  BY <1>1, <1>2 DEF Patch, Own, AimsAtOwn
<1>4. CommentsOK'
  BY <1>2, <1>3 DEF CommentsOK
<1>5. OwnIsMarked'
  BY <1>2, <1>3 DEF OwnIsMarked, Own
<1>6. ASSUME NEW u \in Nat, AimsAtOwn(u) PROVE AimsAtOwn(u)'
  BY <1>2, <1>3, <1>6 DEF AimsAtOwn
<1>7. QED
  BY <1>2, <1>3, <1>4, <1>5, <1>6

\* A comment that is deleted takes no other with it.
LEMMA WithdrawChanges ==
  ASSUME CommentsOK, OwnIsMarked, NEW n \in DOMAIN comments, Withdraw(n)
  PROVE  /\ CommentsOK' /\ OwnIsMarked'
         /\ \A i \in Own' : \E j \in Own : j # n /\ comments'[i] = comments[j]
         /\ \A j \in Own \ {n} : \E i \in Own' : comments'[i] = comments[j]
         /\ \A t \in Nat : AimsAtOwn(t) => AimsAtOwn(t)'
<1>1. /\ comments' \in Seq(Comment)
      /\ Len(comments) \in Nat /\ n \in 1 .. Len(comments)
      /\ DOMAIN comments = 1 .. Len(comments)
      /\ DOMAIN comments' = 1 .. Len(comments) - 1
      /\ \A j \in DOMAIN comments' :
           comments'[j] = comments[IF j < n THEN j ELSE j + 1]
  BY Withdrawn DEF CommentsOK, Withdraw
<1> DEFINE old(i) == IF i < n THEN i ELSE i + 1
<1>2. \A i \in DOMAIN comments' :
        old(i) \in DOMAIN comments /\ old(i) # n /\ comments'[i] = comments[old(i)]
  BY <1>1
<1>3. \A i, j \in DOMAIN comments' : old(i) = old(j) => i = j
  BY <1>1
<1>4. ASSUME NEW j \in DOMAIN comments \ {n}
      PROVE  \E i \in DOMAIN comments' : comments'[i] = comments[j]
  <2>1. CASE j < n
    <3>1. j \in DOMAIN comments' /\ old(j) = j
      BY <1>1, <2>1
    <3>2. QED
      BY <1>2, <3>1
  <2>2. CASE j > n
    <3>1. j - 1 \in DOMAIN comments' /\ old(j - 1) = j
      BY <1>1, <2>2
    <3>2. QED
      BY <1>2, <3>1
  <2>3. QED
    BY <1>1, <2>1, <2>2
<1> HIDE DEF old
<1>5. written' = written
  BY DEF Withdraw
<1>6. CommentsOK'
  BY <1>1, <1>2, <1>3, <1>5 DEF CommentsOK
<1>7. OwnIsMarked'
  BY <1>2 DEF OwnIsMarked, Own
<1>8. ASSUME NEW t \in Nat, AimsAtOwn(t) PROVE AimsAtOwn(t)'
  BY <1>2, <1>5, <1>8 DEF AimsAtOwn, Own
<1>9. QED
  BY <1>2, <1>4, <1>6, <1>7, <1>8 DEF Own

-----------------------------------------------------------------------------
(* Steps that change the list, or what is under way.                        *)

(* What a request does, whoever's it is.                                    *)
LEMMA ExecuteChanges ==
  ASSUME CommentsOK, OwnIsMarked, NEW t \in Nat, NEW s \in Nat,
         AimsAtOwn(t), Execute(t, s)
  PROVE  /\ CommentsOK' /\ OwnIsMarked'
         /\ \A u \in Nat : AimsAtOwn(u) => AimsAtOwn(u)'
         /\ \E n \in Own' : comments'[n].text = s
         /\ (\A i, j \in Own : i = j) /\ (t = 0 => Own = {}) => \A i, j \in Own' : i = j
<1>1. CASE t = 0
  <2>1. Post(s)
    BY <1>1 DEF Execute
  <2>2. PICK n \in DOMAIN comments' : Own' = Own \union {n} /\ comments'[n].text = s
    BY <2>1, PostChanges
  <2>3. QED
    BY <1>1, <2>1, <2>2, PostChanges
<1>2. CASE t # 0
  <2>1. Patch(t, s)
    BY <1>2 DEF Execute
  <2>2. QED
    BY <1>2, <2>1, PatchChanges
<1>3. QED
  BY <1>1, <1>2

\* A write that is answered keeps the invariant.
LEMMA WriteSummary ==
  ASSUME SummaryInv, NEW p \in Publishers, Write(p) PROVE SummaryInv'
<1>1. /\ CommentsOK' /\ OwnIsMarked'
      /\ \A u \in Nat : AimsAtOwn(u) => AimsAtOwn(u)'
      /\ \E n \in Own' : comments'[n].text = text[p]
      /\ (\A i, j \in Own : i = j) /\ (target[p] = 0 => Own = {}) => \A i, j \in Own' : i = j
  <2>1. target[p] \in Nat /\ text[p] \in Nat /\ AimsAtOwn(target[p])
    BY DEF SummaryInv, TypeOK, TargetsAreOwn, Write
  <2>2. QED
    BY <2>1, ExecuteChanges DEF SummaryInv, TypeOK, Write
<1>2. TypeOK'
  BY <1>1, PagesAssumption DEF Write, Return, SummaryInv, TypeOK, Place
<1>3. TargetsAreOwn'
  <2>1. ASSUME NEW q \in Publishers, at'[q] # "idle"
        PROVE  at[q] # "idle" /\ target'[q] = target[q] /\ target[q] \in Nat
    BY <2>1 DEF Write, Return, SummaryInv, TypeOK
  <2>2. ASSUME NEW q \in Publishers, at'[q] # "idle" PROVE AimsAtOwn(target[q])'
    <3>1. AimsAtOwn(target[q])
      BY <2>1, <2>2 DEF SummaryInv, TargetsAreOwn
    <3>2. QED
      BY <1>1, <2>1, <2>2, <3>1 DEF AimsAtOwn
  <2>3. \A r \in flying' : AimsAtOwn(r.target)'
    BY <1>1 DEF Write, SummaryInv, TypeOK, TargetsAreOwn, Request
  <2>4. QED
    BY <2>2, <2>3 DEF TargetsAreOwn
<1>4. CallsStartEmpty'
  BY DEF Write, Return, SummaryInv, TypeOK, CallsStartEmpty
<1>5. ASSUME ~disturbed' PROVE Undisturbed'
  <2>1. ~disturbed /\ Undisturbed
    BY <1>5 DEF Write, SummaryInv, TypeOK
  <2>2. flying' = {} /\ \A q \in Publishers : at'[q] = "idle"
    BY <2>1 DEF Write, Return, SummaryInv, TypeOK, Undisturbed, OneAtATime
  <2>3. OneAtATime' /\ ReadIsWithout' /\ CreatesTheFirst'
    BY <2>2 DEF OneAtATime, ReadIsWithout, CreatesTheFirst
  <2>4. confirmed' = text[p] /\ NewerThanConfirmed'
    BY <2>1, <2>2 DEF Write, SummaryInv, TypeOK, Undisturbed, NewerThanConfirmed
  <2>5. \A i, j \in Own' : i = j
    BY <1>1, <2>1 DEF Write, Undisturbed, CreatesTheFirst
  <2>6. \E i \in Own' : comments'[i].text >= confirmed'
    BY <1>1, <2>4 DEF SummaryInv, TypeOK
  <2>7. QED
    BY <2>3, <2>4, <2>5, <2>6 DEF Undisturbed
<1>6. QED
  BY <1>1, <1>2, <1>3, <1>4, <1>5 DEF SummaryInv

\* So does a write whose answer is not waited for,
LEMMA GiveUpSummary ==
  ASSUME SummaryInv, NEW p \in Publishers, GiveUp(p) PROVE SummaryInv'
<1> DEFINE r == [target |-> target[p], text |-> text[p]]
<1>1. r \in Request /\ r.target = target[p] /\ r.text = text[p] /\ flying' = flying \union {r}
  BY DEF GiveUp, SummaryInv, TypeOK, Request
<1> HIDE DEF r
<1>2. TypeOK'
  BY <1>1, PagesAssumption DEF GiveUp, Return, SummaryInv, TypeOK, CommentsOK, Place
<1>3. OwnIsMarked'
  BY DEF GiveUp, SummaryInv, OwnIsMarked, Own
<1>4. TargetsAreOwn'
  <2>1. \A t \in Nat : AimsAtOwn(t) => AimsAtOwn(t)'
    BY DEF GiveUp, AimsAtOwn, Own
  <2>2. ASSUME NEW q \in Publishers, at'[q] # "idle"
        PROVE  at[q] # "idle" /\ target'[q] = target[q]
    BY <2>2 DEF GiveUp, Return, SummaryInv, TypeOK
  <2>3. ASSUME NEW q \in Publishers, at'[q] # "idle" PROVE AimsAtOwn(target[q])'
    BY <2>2, <2>3 DEF GiveUp, SummaryInv, TargetsAreOwn, AimsAtOwn, Own
  <2>4. AimsAtOwn(r.target)
    BY <1>1 DEF GiveUp, SummaryInv, TargetsAreOwn
  <2>5. \A f \in flying' : AimsAtOwn(f.target)'
    BY <1>1, <2>1, <2>4 DEF SummaryInv, TypeOK, TargetsAreOwn, Request
  <2>6. QED
    BY <2>3, <2>5 DEF TargetsAreOwn
<1>5. CallsStartEmpty'
  BY DEF GiveUp, Return, SummaryInv, TypeOK, CallsStartEmpty
<1>6. ASSUME ~disturbed' PROVE Undisturbed'
  <2>1. ~disturbed /\ Undisturbed
    BY <1>6 DEF GiveUp, SummaryInv, TypeOK
  <2>2. flying' = {r} /\ \A q \in Publishers : at'[q] = "idle"
    BY <1>1, <2>1 DEF GiveUp, Return, SummaryInv, TypeOK, Undisturbed, OneAtATime
  <2>3. OneAtATime' /\ ReadIsWithout'
    BY <2>2 DEF OneAtATime, ReadIsWithout
  <2>4. Own' = Own /\ CreatesTheFirst'
    BY <1>1, <2>1, <2>2 DEF GiveUp, Undisturbed, CreatesTheFirst, Own
  <2>5. NewerThanConfirmed'
    BY <1>1, <2>1, <2>2 DEF GiveUp, Undisturbed, NewerThanConfirmed
  <2>6. QED
    BY <2>1, <2>3, <2>4, <2>5 DEF GiveUp, Undisturbed
<1>7. QED
  BY <1>2, <1>3, <1>4, <1>5, <1>6 DEF SummaryInv

\* one that lands later,
LEMMA LandSummary ==
  ASSUME SummaryInv, NEW r \in flying, Land(r) PROVE SummaryInv'
<1>1. /\ r.target \in Nat /\ r.text \in Nat /\ AimsAtOwn(r.target)
      /\ flying' \subseteq flying
  BY DEF Land, SummaryInv, TypeOK, TargetsAreOwn, Request
<1>2. /\ CommentsOK' /\ OwnIsMarked'
      /\ \A u \in Nat : AimsAtOwn(u) => AimsAtOwn(u)'
      /\ \E n \in Own' : comments'[n].text = r.text
      /\ (\A i, j \in Own : i = j) /\ (r.target = 0 => Own = {}) => \A i, j \in Own' : i = j
  BY <1>1, ExecuteChanges DEF SummaryInv, TypeOK, Land
<1>3. TypeOK'
  BY <1>1, <1>2 DEF Land, callVars, SummaryInv, TypeOK
<1>4. TargetsAreOwn'
  <2>1. ASSUME NEW q \in Publishers, at'[q] # "idle" PROVE AimsAtOwn(target[q])'
    <3>1. AimsAtOwn(target[q]) /\ target[q] \in Nat /\ target' = target
      BY <2>1 DEF Land, callVars, SummaryInv, TypeOK, TargetsAreOwn
    <3>2. QED
      BY <1>2, <3>1 DEF AimsAtOwn
  <2>2. \A f \in flying' : AimsAtOwn(f.target)'
    BY <1>1, <1>2 DEF SummaryInv, TypeOK, TargetsAreOwn, Request
  <2>3. QED
    BY <2>1, <2>2 DEF TargetsAreOwn
<1>5. CallsStartEmpty'
  BY DEF Land, callVars, SummaryInv, CallsStartEmpty
<1>6. ASSUME ~disturbed' PROVE Undisturbed'
  <2>1. ~disturbed /\ Undisturbed
    BY <1>6 DEF Land, SummaryInv, TypeOK
  <2>2. flying' = {} /\ \A q \in Publishers : at'[q] = "idle"
    BY <2>1 DEF Land, callVars, Undisturbed, OneAtATime
  <2>3. OneAtATime' /\ ReadIsWithout' /\ CreatesTheFirst'
    BY <2>2 DEF OneAtATime, ReadIsWithout, CreatesTheFirst
  <2>4. NewerThanConfirmed' /\ r.text >= confirmed'
    BY <2>1, <2>2 DEF Land, SummaryInv, TypeOK, Undisturbed, NewerThanConfirmed
  <2>5. \A i, j \in Own' : i = j
    BY <1>2, <2>1 DEF Undisturbed, CreatesTheFirst
  <2>6. \E i \in Own' : comments'[i].text >= confirmed'
    BY <1>2, <2>4
  <2>7. QED
    BY <2>3, <2>4, <2>5, <2>6 DEF Undisturbed
<1>7. QED
  BY <1>2, <1>3, <1>4, <1>5, <1>6 DEF SummaryInv

\* one that never lands,
LEMMA VanishSummary ==
  ASSUME SummaryInv, NEW r \in flying, Vanish(r) PROVE SummaryInv'
BY DEF Vanish, callVars, SummaryInv, TypeOK, CommentsOK, OwnIsMarked, TargetsAreOwn, AimsAtOwn,
       CallsStartEmpty, Undisturbed, OneAtATime, ReadIsWithout, CreatesTheFirst,
       NewerThanConfirmed, Own

\* an edit by somebody else,
LEMMA RemarkSummary ==
  ASSUME SummaryInv, NEW marked \in BOOLEAN, Remark(marked) PROVE SummaryInv'
<1>1. /\ CommentsOK' /\ OwnIsMarked' /\ Own' = Own
      /\ \A i \in DOMAIN comments : i \in DOMAIN comments' /\ comments'[i] = comments[i]
      /\ \A t \in Nat : AimsAtOwn(t) => AimsAtOwn(t)'
  BY RemarkChanges DEF SummaryInv, TypeOK
<1>2. /\ UNCHANGED <<upserts, at, page, target, text, flying, confirmed, disturbed>>
  BY DEF Remark, callVars
<1>3. TypeOK'
  BY <1>1, <1>2 DEF SummaryInv, TypeOK
<1>4. TargetsAreOwn'
  <2>1. ASSUME NEW q \in Publishers, at'[q] # "idle" PROVE AimsAtOwn(target[q])'
    <3>1. AimsAtOwn(target[q]) /\ target[q] \in Nat
      BY <1>2, <2>1 DEF SummaryInv, TypeOK, TargetsAreOwn
    <3>2. QED
      BY <1>1, <1>2, <3>1 DEF AimsAtOwn
  <2>2. \A f \in flying' : AimsAtOwn(f.target)'
    BY <1>1, <1>2 DEF SummaryInv, TypeOK, TargetsAreOwn, Request
  <2>3. QED
    BY <2>1, <2>2 DEF TargetsAreOwn
<1>5. CallsStartEmpty'
  BY <1>2 DEF SummaryInv, CallsStartEmpty
<1>6. ASSUME ~disturbed' PROVE Undisturbed'
  <2>1. ~disturbed /\ Undisturbed
    BY <1>2, <1>6 DEF SummaryInv
  <2>2. OneAtATime' /\ ReadIsWithout' /\ CreatesTheFirst' /\ NewerThanConfirmed'
    BY <1>1, <1>2, <2>1
       DEF Undisturbed, OneAtATime, ReadIsWithout, CreatesTheFirst, NewerThanConfirmed
  <2>3. confirmed' # 0 => \E i \in Own' : comments'[i].text >= confirmed'
    BY <1>1, <1>2, <2>1 DEF Undisturbed, Own
  <2>4. QED
    BY <1>1, <2>1, <2>2, <2>3 DEF Undisturbed
<1>7. QED
  BY <1>1, <1>3, <1>4, <1>5, <1>6 DEF SummaryInv

\* and a deletion.
LEMMA WithdrawSummary ==
  ASSUME SummaryInv, NEW n \in DOMAIN comments, Withdraw(n) PROVE SummaryInv'
<1>1. /\ CommentsOK' /\ OwnIsMarked'
      /\ \A i \in Own' : \E j \in Own : j # n /\ comments'[i] = comments[j]
      /\ \A j \in Own \ {n} : \E i \in Own' : comments'[i] = comments[j]
      /\ \A t \in Nat : AimsAtOwn(t) => AimsAtOwn(t)'
  BY WithdrawChanges DEF SummaryInv, TypeOK
<1>2. UNCHANGED <<upserts, at, page, target, text, flying>>
  BY DEF Withdraw, callVars
<1>3. confirmed' = IF n \in Own THEN 0 ELSE confirmed
  BY DEF Withdraw, Own
<1>4. TypeOK'
  BY <1>1, <1>2, <1>3 DEF Withdraw, Disturb, SummaryInv, TypeOK
<1>5. TargetsAreOwn'
  <2>1. ASSUME NEW q \in Publishers, at'[q] # "idle" PROVE AimsAtOwn(target[q])'
    <3>1. AimsAtOwn(target[q]) /\ target[q] \in Nat
      BY <1>2, <2>1 DEF SummaryInv, TypeOK, TargetsAreOwn
    <3>2. QED
      BY <1>1, <1>2, <3>1 DEF AimsAtOwn
  <2>2. \A f \in flying' : AimsAtOwn(f.target)'
    BY <1>1, <1>2 DEF SummaryInv, TypeOK, TargetsAreOwn, Request
  <2>3. QED
    BY <2>1, <2>2 DEF TargetsAreOwn
<1>6. CallsStartEmpty'
  BY <1>2 DEF SummaryInv, CallsStartEmpty
<1>7. ASSUME ~disturbed' PROVE Undisturbed'
  <2>1. /\ ~disturbed /\ Undisturbed
        /\ \A q \in Publishers : at[q] # "listing"
    BY <1>7 DEF Withdraw, Disturb, SummaryInv, TypeOK
  <2>2. OneAtATime' /\ ReadIsWithout'
    BY <1>2, <2>1 DEF Undisturbed, OneAtATime, ReadIsWithout
  <2>3. CreatesTheFirst'
    BY <1>1, <1>2, <2>1 DEF Undisturbed, CreatesTheFirst
  <2>4. NewerThanConfirmed'
    BY <1>2, <1>3, <2>1 DEF Undisturbed, NewerThanConfirmed, SummaryInv, TypeOK
  <2>5. ASSUME NEW i \in Own', NEW j \in Own' PROVE i = j
    <3>1. PICK k \in Own : k # n /\ comments'[i] = comments[k]
      BY <1>1
    <3>2. PICK l \in Own : l # n /\ comments'[j] = comments[l]
      BY <1>1
    <3>3. comments'[i] = comments'[j]
      BY <2>1, <3>1, <3>2 DEF Undisturbed
    <3>4. QED
      BY <1>1, <3>3 DEF CommentsOK, Own
  <2>6. ASSUME confirmed' # 0 PROVE \E i \in Own' : comments'[i].text >= confirmed'
    <3>1. n \notin Own /\ confirmed' = confirmed
      BY <1>3, <2>6
    <3>2. PICK j \in Own : comments[j].text >= confirmed
      BY <2>1, <2>6, <3>1 DEF Undisturbed
    <3>3. QED
      BY <1>1, <3>1, <3>2
  <2>7. QED
    BY <2>2, <2>3, <2>4, <2>5, <2>6 DEF Undisturbed
<1>8. QED
  BY <1>1, <1>4, <1>5, <1>6, <1>7 DEF SummaryInv

\* A step that changes nothing keeps the invariant.
LEMMA StutterSummary == ASSUME SummaryInv, UNCHANGED vars PROVE SummaryInv'
BY DEF vars, callVars, SummaryInv, TypeOK, CommentsOK, OwnIsMarked, TargetsAreOwn, AimsAtOwn,
       CallsStartEmpty, Undisturbed, OneAtATime, ReadIsWithout, CreatesTheFirst,
       NewerThanConfirmed, Own

-----------------------------------------------------------------------------

(* The invariant the four properties of the summary follow from.            *)
THEOREM SummaryInvariant == Spec => []SummaryInv
<1>1. Init => SummaryInv
  BY InitSummary
<1>2. SummaryInv /\ [Next]_vars => SummaryInv'
  <2>1. SUFFICES ASSUME SummaryInv, Next PROVE SummaryInv'
    BY StutterSummary
  <2>2. CASE \E p \in Publishers : Upsert(p) \/ Find(p) \/ FindNothing(p) \/ NextPage(p)
    BY <2>1, <2>2, UpsertSummary, FindSummary, FindNothingSummary, NextPageSummary
  <2>3. CASE \E p \in Publishers : ReachLimit(p) \/ Write(p) \/ Refused(p) \/ GiveUp(p)
    BY <2>1, <2>3, ReachLimitSummary, WriteSummary, RefusedSummary, GiveUpSummary
  <2>4. CASE \E r \in flying : Land(r) \/ Vanish(r)
    BY <2>1, <2>4, LandSummary, VanishSummary
  <2>5. CASE \E marked \in BOOLEAN : Remark(marked)
    BY <2>1, <2>5, RemarkSummary
  <2>6. CASE \E i \in DOMAIN comments : Withdraw(i)
    BY <2>1, <2>6, WithdrawSummary
  <2>7. QED
    BY <2>1, <2>2, <2>3, <2>4, <2>5, <2>6 DEF Next
<1>3. QED
  BY <1>1, <1>2, PTL DEF Spec

(* Types hold.                                                              *)
THEOREM SummaryTypes == Spec => []TypeOK
<1>1. SummaryInv => TypeOK
  BY DEF SummaryInv
<1>2. QED
  BY <1>1, SummaryInvariant, PTL

(* One summary at most, for every page size and page limit.                 *)
THEOREM OneStickyHolds == Spec => []OneSticky
<1>1. SummaryInv => OneSticky
  BY DEF SummaryInv, Undisturbed, OneSticky, Own
<1>2. QED
  BY <1>1, SummaryInvariant, PTL

(* A confirmed summary is there until it is deleted or replaced.            *)
THEOREM ConfirmedIsShownHolds == Spec => []ConfirmedIsShown
<1>1. SummaryInv => ConfirmedIsShown
  BY DEF SummaryInv, Undisturbed, ConfirmedIsShown, Own
<1>2. QED
  BY <1>1, SummaryInvariant, PTL

(* A step that keeps every comment where it is, or adds one with a new      *)
(* number, changes nobody's comment.                                        *)
LEMMA KeptIsUntouched ==
  ASSUME TypeOK, UNCHANGED comments
  PROVE  \A i \in DOMAIN comments, j \in DOMAIN comments' :
           comments'[j].id = comments[i].id => comments'[j] = comments[i]
BY DEF TypeOK, CommentsOK

\* A comment that is appended leaves the others as they are.
LEMMA AppendedIsUntouched ==
  ASSUME TypeOK, NEW c \in Comment, c.id = written + 1, comments' = Append(comments, c)
  PROVE  \A i \in DOMAIN comments, j \in DOMAIN comments' :
           comments'[j].id = comments[i].id => comments'[j] = comments[i]
<1>1. /\ Len(comments) \in Nat
      /\ DOMAIN comments = 1 .. Len(comments)
      /\ DOMAIN comments' = 1 .. Len(comments) + 1
      /\ \A i \in DOMAIN comments : comments'[i] = comments[i]
      /\ comments'[Len(comments) + 1] = c
  BY Appended DEF TypeOK, CommentsOK
<1>2. \A i \in DOMAIN comments : comments[i].id # c.id
  BY CommentFacts DEF TypeOK, CommentsOK
<1>3. QED
  BY <1>1, <1>2 DEF TypeOK, CommentsOK

(* ... and a request that is carried out changes its own.                   *)
LEMMA ExecuteSparesOthers ==
  ASSUME SummaryInv, NEW t \in Nat, NEW s \in Nat, AimsAtOwn(t), Execute(t, s),
         NEW i \in DOMAIN comments, NEW j \in DOMAIN comments',
         comments[i].by = "other", comments'[j].id = comments[i].id
  PROVE  comments'[j] = comments[i]
<1>1. CASE t = 0
  <2> DEFINE new == Summary(written + 1, "bot", s)
  <2>1. new \in Comment /\ new.id = written + 1
    BY DEF Summary, Comment, SummaryInv, TypeOK, CommentsOK
  <2>2. comments' = Append(comments, new)
    BY <1>1 DEF Execute, Post
  <2> HIDE DEF new
  <2>3. QED
    BY <2>1, <2>2, AppendedIsUntouched DEF SummaryInv
<1>2. CASE t # 0
  <2>1. PICK n \in DOMAIN comments :
          /\ comments[n].id = t
          /\ comments' = [comments EXCEPT ![n] = Summary(comments[n].id, @.by, s)]
    BY <1>2 DEF Execute, Patch
  <2>2. /\ DOMAIN comments' = DOMAIN comments
        /\ \A k \in DOMAIN comments \ {n} : comments'[k] = comments[k]
        /\ \A k \in DOMAIN comments : comments'[k].id = comments[k].id
    BY <2>1, Patched DEF SummaryInv, TypeOK, CommentsOK
  <2>3. j = i
    BY <2>2 DEF SummaryInv, TypeOK, CommentsOK
  <2>4. comments[n].by = "bot"
    BY <2>1 DEF AimsAtOwn, Own
  <2>5. QED
    BY <2>2, <2>3, <2>4
<1>3. QED
  BY <1>1, <1>2

(* The publisher never changes anybody else's comment, disturbed or not.    *)
THEOREM OthersUntouchedHolds == Spec => OthersUntouched
<1> DEFINE Spared ==
      \A i \in DOMAIN comments, j \in DOMAIN comments' :
        comments[i].by = "other" /\ comments'[j].id = comments[i].id => comments'[j] = comments[i]
<1>1. SummaryInv /\ [Next]_vars => Spared
  <2> SUFFICES ASSUME SummaryInv, [Next]_vars PROVE Spared
    OBVIOUS
  <2>1. CASE UNCHANGED comments
    BY <2>1, KeptIsUntouched DEF SummaryInv
  <2>2. CASE \E p \in Publishers : Write(p)
    <3>1. PICK p \in Publishers : Write(p)
      BY <2>2
    <3>2. /\ target[p] \in Nat /\ text[p] \in Nat /\ AimsAtOwn(target[p])
          /\ Execute(target[p], text[p])
      BY <3>1 DEF Write, SummaryInv, TypeOK, TargetsAreOwn
    <3>3. QED
      BY <3>2, ExecuteSparesOthers
  <2>3. CASE \E r \in flying : Land(r)
    <3>1. PICK r \in flying : Land(r)
      BY <2>3
    <3>2. /\ r.target \in Nat /\ r.text \in Nat /\ AimsAtOwn(r.target)
          /\ Execute(r.target, r.text)
      BY <3>1 DEF Land, SummaryInv, TypeOK, TargetsAreOwn, Request
    <3>3. QED
      BY <3>2, ExecuteSparesOthers
  <2>4. CASE \E marked \in BOOLEAN : Remark(marked)
    <3>1. PICK marked \in BOOLEAN : Remark(marked)
      BY <2>4
    <3> DEFINE new == [id |-> written + 1, by |-> "other", marked |-> marked, text |-> 0]
    <3>2. new \in Comment /\ new.id = written + 1
      BY DEF Comment, SummaryInv, TypeOK, CommentsOK
    <3>3. comments' = Append(comments, new)
      BY <3>1 DEF Remark
    <3> HIDE DEF new
    <3>4. QED
      BY <3>2, <3>3, AppendedIsUntouched DEF SummaryInv
  <2>5. CASE \E n \in DOMAIN comments : Withdraw(n)
    <3>1. PICK n \in DOMAIN comments : Withdraw(n)
      BY <2>5
    <3>2. \A j \in DOMAIN comments' : \E k \in DOMAIN comments : comments'[j] = comments[k]
      BY <3>1, Withdrawn DEF Withdraw, SummaryInv, TypeOK, CommentsOK
    <3>3. QED
      BY <3>2 DEF SummaryInv, TypeOK, CommentsOK
  <2>6. QED
    BY <2>1, <2>2, <2>3, <2>4, <2>5
       DEF Next, vars, Upsert, Find, FindNothing, NextPage, ReachLimit, Refused, GiveUp, Vanish
<1>2. QED
  BY <1>1, SummaryInvariant, PTL DEF Spec, OthersUntouched

=============================================================================
