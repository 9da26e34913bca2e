---------------------------- MODULE StickySummary ----------------------------
(***************************************************************************)
(* The one summary comment on a pull request: internal/hosted/githubapp/   *)
(* summary.go.  A publisher pages through the comments for its own marked  *)
(* comment and then edits it, or creates one.  Between these requests      *)
(* people comment and delete comments (which shifts the pages), other      *)
(* publishers run, and a request whose caller gave up may still reach      *)
(* GitHub, because neither POST nor PATCH is repeated or taken back        *)
(* (client.go 126).                                                        *)
(*                                                                         *)
(* Abstractions.  A summary is the number of its upsert.  GitHub lists     *)
(* comments in the order in which they were written.  The repetitions of a *)
(* GET are in GitHubClient and leave nothing behind.                       *)
(***************************************************************************)
EXTENDS Naturals, SequencesExt

CONSTANTS
  Publishers,   \* review jobs of one pull request
  PerPage,      \* comments on a page, 100 in the code
  MaxPages,     \* StickySummaryPublisher.MaxPages
  MaxComments,  \* bound on the comments ever written
  MaxUpserts    \* bound on the calls of Upsert

ASSUME PagesAssumption == PerPage \in Nat \ {0} /\ MaxPages \in Nat \ {0}

VARIABLES
  comments,   \* the comments of the pull request, in GitHub's order
  written,    \* comments ever written: the number of the last one
  upserts,    \* calls of Upsert so far
  at,         \* where each publisher is
  page,       \* the page it asks for next
  target,     \* the comment it found, 0 for none
  text,       \* the summary it publishes
  flying,     \* requests whose callers gave up and GitHub has not seen yet
  confirmed,  \* ghost: the last summary GitHub confirmed, 0 when it was deleted
  disturbed   \* ghost: see Disturb

callVars == <<at, page, target, text>>
vars == <<comments, written, upserts, callVars, flying, confirmed, disturbed>>

Place   == {"idle", "listing", "writing"}
Comment == [id : Nat \ {0}, by : {"bot", "other"}, marked : BOOLEAN, text : Nat]
Request == [target : Nat, text : Nat]

Init ==
  /\ comments = <<>> /\ written = 0 /\ upserts = 0
  /\ at = [p \in Publishers |-> "idle"]
  /\ page = [p \in Publishers |-> 1]
  /\ target = [p \in Publishers |-> 0]
  /\ text = [p \in Publishers |-> 0]
  /\ flying = {} /\ confirmed = 0 /\ disturbed = FALSE

(* Mutant: the marker is enough, whoever wrote it.                          *)
IsStickyByMarker(c) == c.marked

(* summary.go, line 105.  "other" is anybody else, bots included.           *)
IsSticky(c) == c.by = "bot" /\ c.marked

(* Page n of the list (line 85), as positions, and whether it has PerPage   *)
(* comments.                                                                *)
OnPage(n) == {i \in DOMAIN comments : (n - 1) * PerPage < i /\ i <= n * PerPage}
IsFull(n) == n * PerPage <= Len(comments)

(* The case in which find and write may miss each other: two upserts        *)
(* overlap, an old request is still under way when one starts, or a comment *)
(* disappears while somebody reads the list page by page.                   *)
Disturb(condition) == disturbed' = (disturbed \/ condition)

(* The variables of a call are gone when it returns.                        *)
Return(p) ==
  /\ at' = [at EXCEPT ![p] = "idle"]
  /\ page' = [page EXCEPT ![p] = 1]
  /\ target' = [target EXCEPT ![p] = 0]
  /\ text' = [text EXCEPT ![p] = 0]

-----------------------------------------------------------------------------

Upsert(p) ==
  /\ at[p] = "idle" /\ upserts < MaxUpserts
  /\ upserts' = upserts + 1
  /\ text' = [text EXCEPT ![p] = upserts']
  /\ at' = [at EXCEPT ![p] = "listing"]
  /\ Disturb(flying # {} \/ \E q \in Publishers : at[q] # "idle")
  /\ UNCHANGED <<comments, written, page, target, flying, confirmed>>

Found(p) == {i \in OnPage(page[p]) : IsSticky(comments[i])}

(* Lines 104-108: the first match on the page ends the search.              *)
Find(p) ==
  /\ at[p] = "listing"
  /\ \E i \in Found(p) :
       /\ \A j \in Found(p) : i <= j
       /\ target' = [target EXCEPT ![p] = comments[i].id]
  /\ at' = [at EXCEPT ![p] = "writing"]
  /\ UNCHANGED <<comments, written, upserts, page, text, flying, confirmed, disturbed>>

(* Lines 109-111: a page that is not full is the last one.                  *)
FindNothing(p) ==
  /\ at[p] = "listing" /\ Found(p) = {} /\ ~IsFull(page[p])
  /\ at' = [at EXCEPT ![p] = "writing"]
  /\ UNCHANGED <<comments, written, upserts, page, target, text, flying, confirmed, disturbed>>

IsLast(n) == n = MaxPages

NextPage(p) ==
  /\ at[p] = "listing" /\ Found(p) = {} /\ IsFull(page[p])
  /\ ~IsLast(page[p])
  /\ page' = [page EXCEPT ![p] = @ + 1]
  /\ UNCHANGED <<comments, written, upserts, at, target, text, flying, confirmed, disturbed>>

(* Mutant: without lines 112-114 the loop ends as if nothing was there.     *)
ReachLimitSilently(p) ==
  /\ at[p] = "listing" /\ Found(p) = {} /\ IsFull(page[p])
  /\ IsLast(page[p])
  /\ at' = [at EXCEPT ![p] = "writing"]
  /\ UNCHANGED <<comments, written, upserts, page, target, text, flying, confirmed, disturbed>>

(* Lines 112-114: an error, nothing is written.                             *)
ReachLimit(p) ==
  /\ at[p] = "listing" /\ Found(p) = {} /\ IsFull(page[p])
  /\ IsLast(page[p])
  /\ Return(p)
  /\ UNCHANGED <<comments, written, upserts, flying, confirmed, disturbed>>

(* A comment with a summary begins with the marker (line 42).               *)
Summary(id, by, s) == [id |-> id, by |-> by, marked |-> TRUE, text |-> s]

(* Lines 54-61: POST without a target, PATCH with one.                      *)
Post(s) ==
  /\ written < MaxComments
  /\ comments' = Append(comments, Summary(written + 1, "bot", s))
  /\ written' = written + 1

Patch(t, s) ==
  /\ \E i \in DOMAIN comments :
       /\ comments[i].id = t
       /\ comments' = [comments EXCEPT ![i] = Summary(t, @.by, s)]
  /\ UNCHANGED written

Execute(t, s) == IF t = 0 THEN Post(s) ELSE Patch(t, s)

(* Lines 67-76: GitHub does it and says so.                                 *)
Write(p) ==
  /\ at[p] = "writing"
  /\ Execute(target[p], text[p])
  /\ confirmed' = text[p]
  /\ Return(p)
  /\ UNCHANGED <<upserts, flying, disturbed>>

(* Mutant: without lines 72-75.                                             *)
RefusedAsDone(p) ==
  /\ at[p] # "idle"
  /\ Return(p)
  /\ confirmed' = text[p]
  /\ UNCHANGED <<comments, written, upserts, flying, disturbed>>

(* Lines 72-75 and 90-103: GitHub refuses, as it must when the target is    *)
(* gone; or a list cannot be read, or the process dies.                     *)
Refused(p) ==
  /\ at[p] # "idle"
  /\ Return(p)
  /\ UNCHANGED <<comments, written, upserts, flying, confirmed, disturbed>>

(* Lines 67-70: no answer.  The request may still be carried out.           *)
GiveUp(p) ==
  /\ at[p] = "writing"
  /\ Return(p)
  /\ flying' = flying \union {[target |-> target[p], text |-> text[p]]}
  /\ UNCHANGED <<comments, written, upserts, confirmed, disturbed>>

Land(r) ==
  /\ Execute(r.target, r.text)
  /\ flying' = flying \ {r}
  /\ UNCHANGED <<upserts, callVars, confirmed, disturbed>>

Vanish(r) ==
  /\ flying' = flying \ {r}
  /\ UNCHANGED <<comments, written, upserts, callVars, confirmed, disturbed>>

-----------------------------------------------------------------------------

(* Somebody comments, and may quote the marker.                             *)
Remark(marked) ==
  /\ written < MaxComments
  /\ comments' = Append(comments, [id |-> written + 1, by |-> "other", marked |-> marked, text |-> 0])
  /\ written' = written + 1
  /\ UNCHANGED <<upserts, callVars, flying, confirmed, disturbed>>

Withdraw(i) ==
  /\ comments' = RemoveAt(comments, i)
  /\ confirmed' = IF comments[i].by = "bot" THEN 0 ELSE confirmed
  /\ Disturb(\E p \in Publishers : at[p] = "listing")
  /\ UNCHANGED <<written, upserts, callVars, flying>>

Next ==
  \/ \E p \in Publishers :
       \/ Upsert(p) \/ Find(p) \/ FindNothing(p) \/ NextPage(p) \/ ReachLimit(p)
       \/ Write(p) \/ Refused(p) \/ GiveUp(p)
  \/ \E r \in flying : Land(r) \/ Vanish(r)
  \/ \E marked \in BOOLEAN : Remark(marked)
  \/ \E i \in DOMAIN comments : Withdraw(i)

Spec == Init /\ [][Next]_vars

-----------------------------------------------------------------------------

CommentsOK ==
  /\ comments \in Seq(Comment)
  /\ \A i, j \in DOMAIN comments : comments[i].id = comments[j].id => i = j
  /\ written \in Nat /\ \A i \in DOMAIN comments : comments[i].id <= written

TypeOK ==
  /\ CommentsOK
  /\ upserts \in Nat
  /\ at \in [Publishers -> Place]
  /\ page \in [Publishers -> 1 .. MaxPages]
  /\ target \in [Publishers -> Nat] /\ text \in [Publishers -> Nat]
  /\ flying \subseteq Request
  /\ confirmed \in Nat /\ disturbed \in BOOLEAN

(* However many comments there are, whatever people write or delete between *)
(* two upserts, and whichever of its requests failed or were carried out    *)
(* without an answer, a pull request has one summary at most (ROADMAP.md,   *)
(* item 23; summary.go 109-114: a search that is cut off must not create).  *)
OneSticky ==
  ~disturbed =>
    \A i, j \in DOMAIN comments : comments[i].by = "bot" /\ comments[j].by = "bot" => i = j

(* A summary GitHub confirmed is on the pull request until somebody deletes *)
(* it or a newer one replaces it (summary.go 57-76).                        *)
ConfirmedIsShown ==
  ~disturbed /\ confirmed # 0 =>
    \E i \in DOMAIN comments : comments[i].by = "bot" /\ comments[i].text >= confirmed

(* The publisher changes nobody else's comment, not even one that quotes    *)
(* the marker, and not even disturbed (summary.go 36-37, 105).              *)
OthersUntouched ==
  [][\A i \in DOMAIN comments, j \in DOMAIN comments' :
       comments[i].by = "other" /\ comments'[j].id = comments[i].id => comments'[j] = comments[i]]_vars

-----------------------------------------------------------------------------
(* The inductive invariant behind the four properties.                      *)

Own == {i \in DOMAIN comments : comments[i].by = "bot"}

OwnIsMarked == \A i \in Own : comments[i].marked

(* What a request is about to change is the publisher's own comment.        *)
AimsAtOwn(t) ==
  t <= written /\ \A i \in DOMAIN comments : comments[i].id = t => i \in Own

TargetsAreOwn ==
  /\ \A p \in Publishers : at[p] # "idle" => AimsAtOwn(target[p])
  /\ \A r \in flying : AimsAtOwn(r.target)

CallsStartEmpty ==
  \A p \in Publishers :
    /\ at[p] # "writing" => target[p] = 0
    /\ at[p] = "idle" => page[p] = 1

(* One request at a time is listing, writing or under way ...               *)
OneAtATime ==
  /\ \A p, q \in Publishers : at[p] # "idle" /\ at[q] # "idle" => p = q
  /\ \A p \in Publishers : at[p] # "idle" => flying = {}
  /\ \A r, s \in flying : r = s

(* ... the pages it has read hold no summary, and what it is about to write *)
(* creates one only if there is none.                                       *)
ReadIsWithout ==
  \A p \in Publishers :
    at[p] = "listing" => \A i \in Own : i > (page[p] - 1) * PerPage

CreatesTheFirst ==
  /\ \A p \in Publishers : at[p] = "writing" /\ target[p] = 0 => Own = {}
  /\ \A r \in flying : r.target = 0 => Own = {}

NewerThanConfirmed ==
  /\ confirmed <= upserts
  /\ \A p \in Publishers : at[p] # "idle" => text[p] \in confirmed .. upserts
  /\ \A r \in flying : r.text \in confirmed .. upserts

Undisturbed ==
  /\ OneAtATime
  /\ \A i, j \in Own : i = j
  /\ ReadIsWithout
  /\ CreatesTheFirst
  /\ NewerThanConfirmed
  /\ confirmed # 0 => \E i \in Own : comments[i].text >= confirmed

SummaryInv ==
  /\ TypeOK
  /\ OwnIsMarked
  /\ TargetsAreOwn
  /\ CallsStartEmpty
  /\ ~disturbed => Undisturbed

=============================================================================
