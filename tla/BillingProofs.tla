---------------------------- MODULE BillingProofs ----------------------------
(***************************************************************************)
(* Proofs about Billing, for every set of tenants, reviews, workers and    *)
(* applications and every bound.  The ledger is reached through Append     *)
(* alone, so what an append preserves is shown once (AppendPreserves) and  *)
(* every action that appends cites it.  The first part takes the sum of    *)
(* the credits apart: an append changes it by the credits of a new row.    *)
(***************************************************************************)
EXTENDS Billing, FiniteSetTheorems, TLAPS

(* A set of finite sets has one with no smaller one in the set: induction   *)
(* over finite sets is argued through a smallest counterexample.            *)
LEMMA SmallestSet ==
  ASSUME NEW U, NEW T, T \subseteq FiniteSubsetsOf(U), T # {}
  PROVE  \E s \in T : \A t \in T : t \subseteq s => t = s
<1>1. PICK s \in T : \A t \in T : <<t, s>> \notin StrictSubsetOrdering(U)
  <2>1. IsWellFoundedOn(StrictSubsetOrdering(U), FiniteSubsetsOf(U))
    BY FS_StrictSubsetOrderingWellFounded
  <2>2. QED BY <2>1, WFMin
<1>2. \A t \in T : t \in SUBSET U
  BY DEF FiniteSubsetsOf
<1>3. QED BY <1>1, <1>2 DEF StrictSubsetOrdering

(* The recursive function behind Credits: it takes one row after another, in *)
(* the order of the choice Any.                                             *)
Any(S) == CHOOSE x \in S : TRUE
IsSum(h, S) ==
  h = [s \in SUBSET S |-> IF s = {} THEN 0 ELSE Any(s).credits + h[s \ {Any(s)}]]
Summed(S) == CHOOSE h : IsSum(h, S)

LEMMA CreditsUnfold == ASSUME NEW S PROVE Credits(S) = Summed(S)[S]
BY DEF Credits, MapThenSumSet, MapThenFoldSet, Summed, IsSum, Any

(* Sums taken over two sets agree on what is in both.                       *)
LEMMA SumsAgree ==
  ASSUME NEW S, NEW V, IsFiniteSet(V), V \subseteq S,
         NEW g, NEW h, IsSum(g, S), IsSum(h, V)
  PROVE  g[V] = h[V]
<1> DEFINE Apart == {s \in FiniteSubsetsOf(V) : g[s] # h[s]}
<1>1. SUFFICES ASSUME Apart # {} PROVE FALSE
  BY DEF FiniteSubsetsOf
<1>2. PICK s \in Apart : \A t \in Apart : t \subseteq s => t = s
  <2>1. Apart \subseteq FiniteSubsetsOf(V) /\ Apart # {}
    BY <1>1
  <2> HIDE DEF Apart
  <2>2. QED BY <2>1, SmallestSet
<1>3. s \in SUBSET V /\ s \in SUBSET S /\ IsFiniteSet(s) /\ g[s] # h[s]
  BY DEF FiniteSubsetsOf
<1>4. s # {}
  BY <1>3 DEF IsSum
<1>5. Any(s) \in s
  BY <1>4 DEF Any
<1>6. s \ {Any(s)} \in FiniteSubsetsOf(V)
  BY <1>3, FS_RemoveElement DEF FiniteSubsetsOf
<1>7. g[s \ {Any(s)}] = h[s \ {Any(s)}]
  BY <1>2, <1>5, <1>6
<1>8. /\ g[s] = Any(s).credits + g[s \ {Any(s)}]
      /\ h[s] = Any(s).credits + h[s \ {Any(s)}]
  BY <1>3, <1>4 DEF IsSum
<1>9. QED BY <1>3, <1>7, <1>8

(* Every finite set has its sum.                                            *)
LEMMA SumExists ==
  ASSUME NEW S, IsFiniteSet(S)
  PROVE  IsSum(Summed(S), S)
<1> DEFINE Without == {s \in FiniteSubsetsOf(S) : ~ \E h : IsSum(h, s)}
<1>1. SUFFICES ASSUME Without # {} PROVE FALSE
  BY DEF FiniteSubsetsOf, Summed
<1>2. PICK s \in Without : \A t \in Without : t \subseteq s => t = s
  <2>1. Without \subseteq FiniteSubsetsOf(S) /\ Without # {}
    BY <1>1
  <2> HIDE DEF Without
  <2>2. QED BY <2>1, SmallestSet
<1>3. s \in SUBSET S /\ IsFiniteSet(s) /\ ~ \E h : IsSum(h, s)
  BY DEF FiniteSubsetsOf
<1>4. \A t \in SUBSET s : t # s => IsFiniteSet(t) /\ IsSum(Summed(t), t)
  <2>1. \A t \in SUBSET s : t \in FiniteSubsetsOf(S)
    BY <1>3, FS_Subset DEF FiniteSubsetsOf
  <2>2. QED BY <1>2, <2>1 DEF Summed, FiniteSubsetsOf
<1> DEFINE h == [t \in SUBSET s |-> IF t = {} THEN 0
                   ELSE Any(t).credits + Summed(t \ {Any(t)})[t \ {Any(t)}]]
<1>5. ASSUME NEW t \in SUBSET s, t # {}
      PROVE  h[t \ {Any(t)}] = Summed(t \ {Any(t)})[t \ {Any(t)}]
  <2> DEFINE u == t \ {Any(t)}
             v == u \ {Any(u)}
  <2>1. Any(t) \in t /\ u \in SUBSET s /\ u # s
    BY <1>5 DEF Any
  <2>2. IsFiniteSet(u) /\ IsSum(Summed(u), u)
    BY <1>4, <2>1
  <2>3. CASE u = {}
    BY <2>1, <2>2, <2>3 DEF IsSum
  <2>4. CASE u # {}
    <3>1. Any(u) \in u /\ v \in SUBSET u /\ v \in SUBSET s /\ v # s
      BY <2>1, <2>4 DEF Any
    <3>2. IsFiniteSet(v) /\ IsSum(Summed(v), v)
      BY <1>4, <3>1
    <3>3. Summed(u)[v] = Summed(v)[v]
      BY <2>2, <3>1, <3>2, SumsAgree
    <3>4. Summed(u)[u] = Any(u).credits + Summed(u)[v]
      BY <2>2, <2>4 DEF IsSum
    <3>5. h[u] = Any(u).credits + Summed(v)[v]
      BY <2>1, <2>4
    <3>6. QED BY <3>3, <3>4, <3>5
  <2>5. QED BY <2>3, <2>4
<1>6. h = [t \in SUBSET s |-> IF t = {} THEN 0 ELSE Any(t).credits + h[t \ {Any(t)}]]
  BY <1>5
<1>7. IsSum(h, s)
  BY <1>6 DEF IsSum
<1>8. QED BY <1>3, <1>7

(* The sum takes the chosen row off.                                        *)
LEMMA CreditsOfNone == Credits({}) = 0
BY FS_EmptySet, SumExists, CreditsUnfold DEF IsSum

LEMMA CreditsOfSome ==
  ASSUME NEW S, IsFiniteSet(S), S # {}
  PROVE  Credits(S) = Any(S).credits + Credits(S \ {Any(S)})
<1> DEFINE V == S \ {Any(S)}
<1>1. IsFiniteSet(V) /\ V \subseteq S
  BY FS_RemoveElement
<1>2. IsSum(Summed(S), S) /\ IsSum(Summed(V), V)
  BY <1>1, SumExists
<1>3. Summed(S)[V] = Summed(V)[V]
  BY <1>1, <1>2, SumsAgree
<1>4. Summed(S)[S] = Any(S).credits + Summed(S)[V]
  BY <1>2 DEF IsSum
<1>5. QED BY <1>3, <1>4, CreditsUnfold

(* Rows add up to a number, and whichever row is taken off first.           *)
LEMMA CreditsAreInt ==
  ASSUME NEW S, IsFiniteSet(S), S \subseteq Entry
  PROVE  Credits(S) \in Int
<1> DEFINE Bad == {s \in FiniteSubsetsOf(S) : Credits(s) \notin Int}
<1>1. SUFFICES ASSUME Bad # {} PROVE FALSE
  BY DEF FiniteSubsetsOf
<1>2. PICK s \in Bad : \A t \in Bad : t \subseteq s => t = s
  <2>1. Bad \subseteq FiniteSubsetsOf(S) /\ Bad # {}
    BY <1>1
  <2> HIDE DEF Bad
  <2>2. QED BY <2>1, SmallestSet
<1>3. s \in SUBSET S /\ IsFiniteSet(s) /\ Credits(s) \notin Int
  BY DEF FiniteSubsetsOf
<1>4. s # {} /\ Any(s) \in s
  BY <1>3, CreditsOfNone DEF Any
<1>5. s \ {Any(s)} \in FiniteSubsetsOf(S)
  BY <1>3, FS_RemoveElement DEF FiniteSubsetsOf
<1>6. Credits(s \ {Any(s)}) \in Int
  BY <1>2, <1>4, <1>5
<1>7. Any(s).credits \in Int
  BY <1>3, <1>4 DEF Entry
<1>8. QED BY <1>3, <1>4, <1>6, <1>7, CreditsOfSome

LEMMA CreditsWithout ==
  ASSUME NEW S, IsFiniteSet(S), S \subseteq Entry, NEW e \in S
  PROVE  Credits(S) = e.credits + Credits(S \ {e})
<1> DEFINE Bad == {s \in FiniteSubsetsOf(S) :
                     \E x \in s : Credits(s) # x.credits + Credits(s \ {x})}
<1>1. SUFFICES ASSUME Bad # {} PROVE FALSE
  BY DEF FiniteSubsetsOf
<1>2. PICK s \in Bad : \A t \in Bad : t \subseteq s => t = s
  <2>1. Bad \subseteq FiniteSubsetsOf(S) /\ Bad # {}
    BY <1>1
  <2> HIDE DEF Bad
  <2>2. QED BY <2>1, SmallestSet
<1>3. s \in SUBSET S /\ IsFiniteSet(s)
  BY DEF FiniteSubsetsOf
<1>4. PICK x \in s : Credits(s) # x.credits + Credits(s \ {x})
  OBVIOUS
<1>5. Any(s) \in s
  BY <1>4 DEF Any
<1> DEFINE y == Any(s)
           r == (s \ {x}) \ {y}
<1>6. Credits(s) = y.credits + Credits(s \ {y})
  BY <1>3, <1>4, CreditsOfSome
<1>7. x # y
  BY <1>4, <1>6
<1>8. /\ s \ {x} \in FiniteSubsetsOf(S) /\ s \ {y} \in FiniteSubsetsOf(S)
      /\ IsFiniteSet(r) /\ r \subseteq Entry
      /\ r = (s \ {y}) \ {x}
  BY <1>3, FS_RemoveElement DEF FiniteSubsetsOf
<1>9. s \ {x} \notin Bad /\ s \ {y} \notin Bad
  BY <1>2, <1>4, <1>5
<1>10. Credits(s \ {x}) = y.credits + Credits(r)
  BY <1>5, <1>7, <1>8, <1>9
<1>11. Credits(s \ {y}) = x.credits + Credits(r)
  BY <1>4, <1>7, <1>8, <1>9
<1>12. x.credits \in Int /\ y.credits \in Int /\ Credits(r) \in Int
  BY <1>3, <1>4, <1>5, <1>8, CreditsAreInt DEF Entry
<1>13. QED BY <1>4, <1>6, <1>10, <1>11, <1>12

(* One more row adds its credits.                                           *)
LEMMA CreditsAdd ==
  ASSUME NEW S, IsFiniteSet(S), S \subseteq Entry, NEW e \in Entry, e \notin S
  PROVE  Credits(S \union {e}) = Credits(S) + e.credits
<1>1. (S \union {e}) \ {e} = S /\ IsFiniteSet(S \union {e}) /\ S \union {e} \subseteq Entry
  BY FS_AddElement
<1>2. Credits(S \union {e}) = e.credits + Credits(S)
  BY <1>1, CreditsWithout
<1>3. Credits(S) \in Int /\ e.credits \in Int
  BY CreditsAreInt DEF Entry
<1>4. QED BY <1>2, <1>3

-----------------------------------------------------------------------------
(* What the table is, whoever wrote its rows.                               *)
Table == ledger \subseteq Entry /\ KeysNameRows /\ RowsPerReview

(* Appending a well-formed row keeps the table one, adds at most that row   *)
(* and takes none away; afterwards the row's key is taken, and a row that   *)
(* was really added had no rival under the unique indexes.                  *)
LEMMA AppendPreserves ==
  ASSUME Table, NEW e \in Entry, Append(e),
         e.key.op = e.kind, e.kind # "grant" => e.key.of = e.review
  PROVE  /\ Table'
         /\ ledger \subseteq ledger'
         /\ ledger' = IF Recorded(e) = {} THEN ledger \union {e} ELSE ledger
         /\ Recorded(e) = {} => ~BreaksConstraint(e)
<1> USE DEF Table, Append, Recorded
<1>1. CASE Recorded(e) # {}
  BY <1>1 DEF KeysNameRows, RowsPerReview
<1>2. CASE Recorded(e) = {}
  <2>1. ledger' = ledger \union {e} /\ ~BreaksConstraint(e)
    BY <1>2
  <2>2. KeysNameRows'
    BY <1>2, <2>1 DEF KeysNameRows
  <2>3. RowsPerReview'
    BY <2>1 DEF RowsPerReview, BreaksConstraint
  <2>4. QED
    BY <1>2, <2>1, <2>2, <2>3
<1>3. QED
  BY <1>1, <1>2

(* The balances of all tenants.                                             *)
Balances == [t \in Tenants |-> Balance(t)]

LEMMA BalancesAreInt ==
  ASSUME ledger \subseteq Entry, IsFiniteSet(ledger)
  PROVE  Balances \in [Tenants -> Int]
<1>1. ASSUME NEW t \in Tenants PROVE Balance(t) \in Int
  <2>1. IsFiniteSet(Rows(t)) /\ Rows(t) \subseteq Entry
    BY FS_Subset DEF Rows
  <2>2. QED
    BY <2>1, CreditsAreInt DEF Balance
<1>2. QED
  BY <1>1 DEF Balances

(* What an append does to the balances: nothing for a repeated key, the     *)
(* row's credits for a new one.                                             *)
LEMMA AppendBalance ==
  ASSUME ledger \subseteq Entry, IsFiniteSet(ledger), NEW e \in Entry, Append(e)
  PROVE  /\ IsFiniteSet(ledger')
         /\ Balances' \in [Tenants -> Int]
         /\ Balances' = IF Recorded(e) = {}
                       THEN [Balances EXCEPT ![e.tenant] = @ + e.credits] ELSE Balances
<1>1. Balances \in [Tenants -> Int]
  BY BalancesAreInt
<1>2. CASE Recorded(e) # {}
  <2>1. ledger' = ledger
    BY <1>2 DEF Append
  <2>2. Balances' = Balances
    BY <2>1 DEF Balances, Balance, Rows
  <2>3. QED
    BY <1>1, <1>2, <2>1, <2>2
<1>3. CASE Recorded(e) = {}
  <2>1. ledger' = ledger \union {e} /\ e \notin ledger
    BY <1>3 DEF Append, Recorded
  <2>2. IsFiniteSet(ledger') /\ ledger' \subseteq Entry
    BY <2>1, FS_AddElement
  <2>3. ASSUME NEW t \in Tenants
        PROVE  Balance(t)' = IF t = e.tenant THEN Balance(t) + e.credits ELSE Balance(t)
    <3>1. IsFiniteSet(Rows(t)) /\ Rows(t) \subseteq Entry /\ e \notin Rows(t)
      BY <2>1, FS_Subset DEF Rows
    <3>2. CASE t = e.tenant
      <4>1. Rows(t)' = Rows(t) \union {e}
        BY <2>1, <3>2 DEF Rows
      <4>2. Credits(Rows(t) \union {e}) = Credits(Rows(t)) + e.credits
        BY <3>1, CreditsAdd
      <4>3. QED
        BY <3>2, <4>1, <4>2 DEF Balance
    <3>3. CASE t # e.tenant
      <4>1. Rows(t)' = Rows(t)
        BY <2>1, <3>3 DEF Rows
      <4>2. QED
        BY <3>3, <4>1 DEF Balance
    <3>4. QED
      BY <3>2, <3>3
  <2>4. \A t \in Tenants :
          Balances'[t] = IF t = e.tenant THEN Balances[t] + e.credits ELSE Balances[t]
    BY <2>3 DEF Balances
  <2>5. Balances' = [t \in Tenants |-> Balances'[t]]
    BY DEF Balances
  <2>6. Balances' = [Balances EXCEPT ![e.tenant] = @ + e.credits]
    BY <1>1, <2>4, <2>5
  <2>7. e.credits \in Int
    BY DEF Entry
  <2>8. \A t \in Tenants : Balances'[t] \in Int
    BY <1>1, <2>4, <2>7
  <2>9. Balances' \in [Tenants -> Int]
    BY <2>5, <2>8
  <2>10. QED
    BY <1>3, <2>2, <2>6, <2>9
<1>4. QED
  BY <1>2, <1>3

LEMMA NegativeByBalance ==
  /\ OnlyOverrunsGoNegative <=> \A t \in Tenants : Balances[t] + overrun[t] >= 0
  /\ OnlyOverrunsGoNegative' <=> \A t \in Tenants : Balances'[t] + overrun'[t] >= 0
BY DEF OnlyOverrunsGoNegative, Balances

(* The initial state satisfies the invariant.                               *)
LEMMA BillingInitInv == Init => BillingInv
<1> SUFFICES ASSUME Init PROVE BillingInv
  OBVIOUS
<1> USE DEF Init, LedgerInit
<1>1. TypeOK
  BY FS_EmptySet DEF TypeOK, Phase
<1>2. KeysNameRows /\ RowsPerReview /\ ClosesReservation /\ GrantIsApplicants
  BY DEF KeysNameRows, RowsPerReview, ClosesReservation, GrantIsApplicants
<1>3. HeldIsRecorded /\ ApprovalMatchesGrant
  BY DEF HeldIsRecorded, ApprovalMatchesGrant
<1>4. OnlyOverrunsGoNegative
  <2>1. ASSUME NEW t \in Tenants PROVE Rows(t) = {}
    BY DEF Rows
  <2>2. ASSUME NEW t \in Tenants PROVE Balance(t) = 0
    BY <2>1, CreditsOfNone DEF Balance
  <2>3. QED
    BY <2>2 DEF OnlyOverrunsGoNegative
<1>5. QED
  BY <1>1, <1>2, <1>3, <1>4 DEF BillingInv

(* A purchase preserves the invariant: its key is not an application's.     *)
LEMMA PurchaseInv ==
  ASSUME BillingInv, NEW p \in Purchases, NEW t \in Tenants, NEW c \in Estimate,
         Purchase(p, t, c)
  PROVE  BillingInv'
<1> DEFINE e == [tenant |-> t, review |-> NoReview, key |-> KeyFor("grant", p, 1),
                 kind |-> "grant", credits |-> c]
<1>1. e \in Entry /\ e.key.op = e.kind /\ c > 0
  BY SourcesAssumption, TriesAssumption, CreditAssumption
     DEF KeyFor, Entry, Key, Kind, Estimate
<1>2. Append(e) /\ UNCHANGED <<overrun, charged, workerVars, explained, tenant, application>>
  BY DEF Purchase, Grant
<1>3. Table /\ IsFiniteSet(ledger) /\ Balances \in [Tenants -> Int]
  BY BalancesAreInt DEF BillingInv, Table, TypeOK
<1>4. /\ Table' /\ ledger \subseteq ledger'
      /\ ledger' = IF Recorded(e) = {} THEN ledger \union {e} ELSE ledger
  BY <1>1, <1>2, <1>3, AppendPreserves
<1>5. /\ IsFiniteSet(ledger') /\ Balances' \in [Tenants -> Int]
      /\ Balances' = IF Recorded(e) = {}
                    THEN [Balances EXCEPT ![t] = @ + c] ELSE Balances
  BY <1>1, <1>2, <1>3, AppendBalance DEF Table
<1>6. TypeOK'
  BY <1>2, <1>4, <1>5 DEF BillingInv, TypeOK, Table, workerVars
<1>7. HeldIsRecorded'
  BY <1>2, <1>4 DEF BillingInv, HeldIsRecorded, workerVars
<1>8. ClosesReservation'
  <2>1. \A d \in ledger' : d.kind \in Terminal => d \in ledger
    BY <1>4 DEF Terminal
  <2>2. charged' = charged
    BY <1>2
  <2>3. QED
    BY <1>4, <2>1, <2>2 DEF BillingInv, ClosesReservation
<1>9. GrantIsApplicants' /\ ApprovalMatchesGrant'
  BY <1>2, <1>4, SourcesAssumption
     DEF BillingInv, GrantIsApplicants, ApprovalMatchesGrant, KeyFor
<1>10. OnlyOverrunsGoNegative'
  <2>1. overrun' = overrun /\ overrun \in [Tenants -> Nat] /\ c \in Nat
    BY <1>2, CreditAssumption DEF BillingInv, TypeOK, Estimate
  <2>2. \A u \in Tenants : Balances'[u] >= Balances[u]
    BY <1>3, <1>5, <2>1
  <2>3. QED
    BY <1>3, <1>5, <2>1, <2>2, NegativeByBalance DEF BillingInv
<1>11. QED
  BY <1>4, <1>6, <1>7, <1>8, <1>9, <1>10 DEF BillingInv, Table

(* A reservation preserves the invariant.  The balance was at least the     *)
(* estimate in the same step, so it does not go below zero here; and what   *)
(* the worker holds is the row its key names, written now or before.        *)
LEMMA ReserveInv ==
  ASSUME BillingInv, NEW w \in Workers, NEW try \in Tries, Reserve(w, try)
  PROVE  BillingInv'
<1> DEFINE e == Reservation(job[w], need[w], KeyFor("reserve", job[w][2], try))
<1>0. job[w] \in Job /\ need[w] \in Nat
  BY DEF Reserve, BillingInv, HeldIsRecorded, TypeOK
<1>1. /\ e \in Entry /\ e.key.op = e.kind /\ e.key.of = e.review /\ e.review \in Reviews
      /\ e.kind = "reserve" /\ e.credits = -need[w]
  BY <1>0 DEF Reservation, KeyFor, Entry, Key, Kind, Job
<1>2. /\ Append(e) /\ UNCHANGED <<overrun, charged, job, need, explained, tenant, application>>
      /\ Recorded(e) # {} \/ Balances[e.tenant] >= need[w]
      /\ phase' = [phase EXCEPT ![w] = "running"]
  <2>1. e.tenant \in Tenants
    BY <1>1 DEF Entry
  <2>2. QED
    BY <2>1 DEF Reserve, ReserveAtomically, Balances
<1>3. Table /\ IsFiniteSet(ledger) /\ Balances \in [Tenants -> Int]
  BY BalancesAreInt DEF BillingInv, Table, TypeOK
<1>4. /\ Table' /\ ledger \subseteq ledger'
      /\ ledger' = IF Recorded(e) = {} THEN ledger \union {e} ELSE ledger
  BY <1>1, <1>2, <1>3, AppendPreserves
<1>5. /\ IsFiniteSet(ledger') /\ Balances' \in [Tenants -> Int]
      /\ Balances' = IF Recorded(e) = {}
                    THEN [Balances EXCEPT ![e.tenant] = @ + e.credits] ELSE Balances
  BY <1>1, <1>2, <1>3, AppendBalance DEF Table
<1>6. PICK o \in ledger' : /\ o.tenant = e.tenant /\ o.key = e.key
                           /\ reservation' = [reservation EXCEPT ![w] = o]
  BY DEF Reserve
<1>7. o \in Entry /\ o.kind = "reserve" /\ o.review \in Reviews
  BY <1>1, <1>4, <1>6 DEF Table, KeysNameRows
<1>8. TypeOK'
  BY <1>2, <1>4, <1>5, <1>6, <1>7 DEF BillingInv, TypeOK, Table, Phase
<1>9. HeldIsRecorded'
  BY <1>2, <1>4, <1>6, <1>7, NoneAssumption DEF BillingInv, TypeOK, HeldIsRecorded
<1>10. ClosesReservation'
  BY <1>1, <1>2, <1>4 DEF BillingInv, ClosesReservation, Terminal
<1>11. GrantIsApplicants' /\ ApprovalMatchesGrant'
  BY <1>1, <1>2, <1>4 DEF BillingInv, GrantIsApplicants, ApprovalMatchesGrant
<1>12. OnlyOverrunsGoNegative'
  BY <1>0, <1>1, <1>2, <1>3, <1>5, NegativeByBalance DEF BillingInv, TypeOK, Entry
<1>13. QED
  BY <1>4, <1>8, <1>9, <1>10, <1>11, <1>12 DEF BillingInv, Table

(* A settlement preserves the invariant.  A settlement that is recorded is  *)
(* the first terminal row of its review, so charged changes for a review    *)
(* without one, and overrun grows by what the balance may fall below zero.  *)
LEMMA FinishInv ==
  ASSUME BillingInv, NEW w \in Workers, NEW actual \in 0 .. MaxActual, Finish(w, actual)
  PROVE  BillingInv'
<1> DEFINE r == reservation[w]
           e == [tenant |-> r.tenant, review |-> r.review,
                 key |-> KeyFor("settle", r.review, 1), kind |-> "settle",
                 credits |-> -r.credits - actual]
           j == <<r.tenant, r.review>>
<1>0. r \in ledger /\ r \in Entry /\ r.kind = "reserve" /\ r.review \in Reviews /\ actual \in Nat
  BY CreditAssumption DEF Finish, BillingInv, HeldIsRecorded, TypeOK
<1>1. /\ e \in Entry /\ e.key.op = e.kind /\ e.key.of = e.review /\ j \in Job
      /\ e.kind = "settle" /\ e.tenant = r.tenant /\ e.review = r.review
      /\ r.credits + e.credits = -actual
  BY <1>0, TriesAssumption DEF KeyFor, Entry, Key, Kind, Job
<1>2. /\ Append(e) /\ CountSettlement(e, actual) /\ Idle(w)
      /\ UNCHANGED <<explained, tenant, application>>
  BY DEF Finish, Settle
<1>3. Table /\ IsFiniteSet(ledger) /\ Balances \in [Tenants -> Int]
  BY BalancesAreInt DEF BillingInv, Table, TypeOK
<1>4. /\ Table' /\ ledger \subseteq ledger'
      /\ ledger' = IF Recorded(e) = {} THEN ledger \union {e} ELSE ledger
      /\ Recorded(e) = {} => ~BreaksConstraint(e)
  BY <1>1, <1>2, <1>3, AppendPreserves
<1>5. /\ IsFiniteSet(ledger') /\ Balances' \in [Tenants -> Int]
      /\ Balances' = IF Recorded(e) = {}
                    THEN [Balances EXCEPT ![e.tenant] = @ + e.credits] ELSE Balances
  BY <1>1, <1>2, <1>3, AppendBalance DEF Table
<1>6. overrun' \in [Tenants -> Nat] /\ charged' \in [Job -> Nat]
  BY <1>0, <1>1, <1>2 DEF CountSettlement, BillingInv, TypeOK, Entry
<1>7. TypeOK'
  BY <1>2, <1>4, <1>5, <1>6 DEF Idle, BillingInv, TypeOK, Table, Phase
<1>8. HeldIsRecorded'
  BY <1>2, <1>4, NoneAssumption DEF Idle, BillingInv, TypeOK, HeldIsRecorded
<1>9. ClosesReservation'
  <2>1. CASE Recorded(e) # {}
    BY <1>2, <1>4, <2>1 DEF CountSettlement, BillingInv, ClosesReservation
  <2>2. CASE Recorded(e) = {}
    <3>1. /\ ledger' = ledger \union {e}
          /\ charged' = [charged EXCEPT ![j] = actual]
      BY <1>1, <1>2, <1>4, <2>2 DEF CountSettlement
    <3>2. \A d \in ledger : d.kind \in Terminal => ~(d.tenant = e.tenant /\ d.review = e.review)
      BY <1>1, <1>4, <2>2 DEF BreaksConstraint, Terminal
    <3>3. ASSUME NEW d \in ledger', d.kind \in Terminal
          PROVE  \E q \in ledger' :
                   /\ q.kind = "reserve" /\ q.tenant = d.tenant /\ q.review = d.review
                   /\ q.credits + d.credits =
                        IF d.kind = "refund" THEN 0 ELSE -charged'[<<d.tenant, d.review>>]
      <4>1. CASE d = e
        <5>1. charged'[<<d.tenant, d.review>>] = actual
          BY <1>1, <3>1, <4>1 DEF BillingInv, TypeOK
        <5>2. QED
          BY <1>0, <1>1, <1>4, <4>1, <5>1
      <4>2. CASE d # e
        <5>1. d \in ledger /\ <<d.tenant, d.review>> # j
          BY <1>1, <3>1, <3>2, <3>3, <4>2
        <5>2. charged'[<<d.tenant, d.review>>] = charged[<<d.tenant, d.review>>]
          BY <3>1, <5>1 DEF BillingInv, TypeOK
        <5>3. QED
          BY <1>4, <3>3, <5>1, <5>2 DEF BillingInv, ClosesReservation
      <4>3. QED
        BY <4>1, <4>2
    <3>4. QED
      BY <3>3 DEF ClosesReservation
  <2>3. QED
    BY <2>1, <2>2
<1>10. GrantIsApplicants' /\ ApprovalMatchesGrant'
  BY <1>1, <1>2, <1>4 DEF BillingInv, GrantIsApplicants, ApprovalMatchesGrant
<1>11. OnlyOverrunsGoNegative'
  <2>1. CASE Recorded(e) # {}
    BY <1>2, <1>5, <2>1, NegativeByBalance DEF CountSettlement, BillingInv
  <2>2. CASE Recorded(e) = {}
    <3>1. /\ Balances' = [Balances EXCEPT ![e.tenant] = @ + e.credits]
          /\ overrun' = [overrun EXCEPT ![e.tenant] = IF e.credits < 0 THEN @ - e.credits ELSE @]
      BY <1>2, <1>5, <2>2 DEF CountSettlement
    <3>2. e.credits \in Int /\ overrun \in [Tenants -> Nat]
      BY <1>1 DEF Entry, BillingInv, TypeOK
    <3>3. QED
      BY <1>3, <3>1, <3>2, NegativeByBalance DEF BillingInv
  <2>3. QED
    BY <2>1, <2>2
<1>12. QED
  BY <1>4, <1>7, <1>8, <1>9, <1>10, <1>11 DEF BillingInv, Table

(* A refund preserves the invariant: it gives back exactly what the held    *)
(* row, which is still in the ledger, took.                                 *)
LEMMA FailInv ==
  ASSUME BillingInv, NEW w \in Workers, Fail(w)
  PROVE  BillingInv'
<1> DEFINE r == reservation[w]
           e == [tenant |-> r.tenant, review |-> r.review,
                 key |-> KeyFor("refund", r.review, 1), kind |-> "refund",
                 credits |-> -r.credits]
<1>0. r \in ledger /\ r \in Entry /\ r.kind = "reserve" /\ r.review \in Reviews
  BY DEF Fail, BillingInv, HeldIsRecorded, TypeOK
<1>1. /\ e \in Entry /\ e.key.op = e.kind /\ e.key.of = e.review
      /\ e.kind = "refund" /\ e.tenant = r.tenant /\ e.review = r.review
      /\ r.credits + e.credits = 0
  BY <1>0, TriesAssumption DEF KeyFor, Entry, Key, Kind
<1>2. /\ Append(e) /\ Idle(w)
      /\ UNCHANGED <<overrun, charged, explained, tenant, application>>
  BY DEF Fail, Refund
<1>3. Table /\ IsFiniteSet(ledger) /\ Balances \in [Tenants -> Int]
  BY BalancesAreInt DEF BillingInv, Table, TypeOK
<1>4. /\ Table' /\ ledger \subseteq ledger'
      /\ ledger' = IF Recorded(e) = {} THEN ledger \union {e} ELSE ledger
      /\ Recorded(e) = {} => ~BreaksConstraint(e)
  BY <1>1, <1>2, <1>3, AppendPreserves
<1>5. /\ IsFiniteSet(ledger') /\ Balances' \in [Tenants -> Int]
      /\ Balances' = IF Recorded(e) = {}
                    THEN [Balances EXCEPT ![e.tenant] = @ + e.credits] ELSE Balances
  BY <1>1, <1>2, <1>3, AppendBalance DEF Table
<1>6. TypeOK'
  BY <1>2, <1>4, <1>5 DEF Idle, BillingInv, TypeOK, Table, Phase
<1>7. HeldIsRecorded'
  BY <1>2, <1>4, NoneAssumption DEF Idle, BillingInv, TypeOK, HeldIsRecorded
<1>8. ClosesReservation'
  <2>1. charged' = charged
    BY <1>2
  <2>2. ASSUME NEW d \in ledger', d.kind \in Terminal
        PROVE  \E q \in ledger' :
                 /\ q.kind = "reserve" /\ q.tenant = d.tenant /\ q.review = d.review
                 /\ q.credits + d.credits =
                      IF d.kind = "refund" THEN 0 ELSE -charged'[<<d.tenant, d.review>>]
    <3>1. CASE d \in ledger
      BY <1>4, <2>1, <2>2, <3>1 DEF BillingInv, ClosesReservation
    <3>2. CASE d = e
      BY <1>0, <1>1, <1>4, <3>2
    <3>3. QED
      BY <1>4, <2>2, <3>1, <3>2
  <2>3. QED
    BY <2>2 DEF ClosesReservation
<1>9. GrantIsApplicants' /\ ApprovalMatchesGrant'
  BY <1>1, <1>2, <1>4 DEF BillingInv, GrantIsApplicants, ApprovalMatchesGrant
<1>10. OnlyOverrunsGoNegative'
  <2>1. CASE Recorded(e) # {}
    BY <1>2, <1>5, <2>1, NegativeByBalance DEF BillingInv
  <2>2. CASE Recorded(e) = {}
    <3>1. e.credits > 0 /\ e.credits \in Int
      BY <1>1, <1>4, <2>2 DEF BreaksConstraint, Entry
    <3>2. overrun' = overrun /\ overrun \in [Tenants -> Nat]
      BY <1>2 DEF BillingInv, TypeOK
    <3>3. \A u \in Tenants : Balances'[u] >= Balances[u]
      BY <1>3, <1>5, <2>2, <3>1
    <3>4. QED
      BY <1>3, <1>5, <3>2, <3>3, NegativeByBalance DEF BillingInv
  <2>3. QED
    BY <2>1, <2>2
<1>11. QED
  BY <1>4, <1>6, <1>7, <1>8, <1>9, <1>10 DEF BillingInv, Table

(* An approval preserves the invariant: while the application is submitted  *)
(* its grant is not in the ledger, so the append adds it.                   *)
LEMMA DecideInv ==
  ASSUME BillingInv, NEW a \in Applications, NEW approve \in BOOLEAN, Decide(a, approve)
  PROVE  BillingInv'
<1> DEFINE t == ApplicantOf[a]
           e == [tenant |-> t, review |-> NoReview, key |-> KeyFor("grant", a, 1),
                 kind |-> "grant", credits |-> ApprovalCredits]
<1>1. /\ application[a] = "submitted"
      /\ application' = [application EXCEPT ![a] = IF approve THEN "approved" ELSE "rejected"]
      /\ UNCHANGED <<workerVars, explained, tenant>>
  BY DEF Decide
<1>2. CASE ~approve
  <2>1. UNCHANGED ledgerVars
    BY <1>2 DEF Decide
  <2>2. TypeOK' /\ HeldIsRecorded'
    BY <1>1, <1>2, <2>1 DEF BillingInv, TypeOK, HeldIsRecorded, ledgerVars, workerVars
  <2>3. KeysNameRows' /\ RowsPerReview' /\ ClosesReservation' /\ OnlyOverrunsGoNegative'
    BY <2>1 DEF BillingInv, KeysNameRows, RowsPerReview, ClosesReservation,
       OnlyOverrunsGoNegative, Balance, Rows, ledgerVars
  <2>4. GrantIsApplicants' /\ ApprovalMatchesGrant'
    BY <1>1, <1>2, <2>1 DEF BillingInv, TypeOK, GrantIsApplicants, ApprovalMatchesGrant, ledgerVars
  <2>5. QED
    BY <2>2, <2>3, <2>4 DEF BillingInv
<1>3. CASE approve
  <2>1. /\ t \in Tenants /\ e \in Entry /\ e.key.op = e.kind
        /\ e.credits > 0 /\ e.credits \in Nat
    BY ApplicantAssumption, SourcesAssumption, TriesAssumption, CreditAssumption
       DEF KeyFor, Entry, Key, Kind
  <2>2. Append(e) /\ UNCHANGED <<overrun, charged>>
    BY <1>3 DEF Decide, Grant
  <2>3. Table /\ IsFiniteSet(ledger) /\ Balances \in [Tenants -> Int]
    BY BalancesAreInt DEF BillingInv, Table, TypeOK
  <2>4. /\ Table' /\ ledger \subseteq ledger'
        /\ ledger' = IF Recorded(e) = {} THEN ledger \union {e} ELSE ledger
    BY <2>1, <2>2, <2>3, AppendPreserves
  <2>5. Recorded(e) = {}
    <3>1. \A o \in ledger : ~(o.kind = "grant" /\ o.key.of = a)
      BY <1>1 DEF BillingInv, ApprovalMatchesGrant
    <3>2. \A o \in ledger : o.key = e.key => o.kind = "grant" /\ o.key.of = a
      BY DEF BillingInv, KeysNameRows, KeyFor
    <3>3. QED
      BY <3>1, <3>2 DEF Recorded
  <2>6. /\ IsFiniteSet(ledger') /\ Balances' \in [Tenants -> Int]
        /\ Balances' = [Balances EXCEPT ![t] = @ + e.credits]
    BY <2>1, <2>2, <2>3, <2>5, AppendBalance DEF Table
  <2>7. TypeOK'
    BY <1>1, <2>2, <2>4, <2>6 DEF BillingInv, TypeOK, Table, workerVars
  <2>8. HeldIsRecorded'
    BY <1>1, <2>4 DEF BillingInv, HeldIsRecorded, workerVars
  <2>9. ClosesReservation'
    <3>1. \A d \in ledger' : d.kind \in Terminal => d \in ledger
      BY <2>4 DEF Terminal
    <3>2. QED
      BY <2>2, <2>4, <3>1 DEF BillingInv, ClosesReservation
  <2>10. GrantIsApplicants' /\ ApprovalMatchesGrant'
    BY <1>1, <1>3, <2>4, <2>5
       DEF BillingInv, TypeOK, GrantIsApplicants, ApprovalMatchesGrant, KeyFor
  <2>11. OnlyOverrunsGoNegative'
    <3>1. \A u \in Tenants : Balances'[u] \in Int /\ Balances'[u] >= Balances[u]
      BY <2>1, <2>3, <2>6
    <3>2. overrun' = overrun /\ overrun \in [Tenants -> Nat]
      BY <2>2 DEF BillingInv, TypeOK
    <3>3. \A u \in Tenants : Balances[u] + overrun[u] >= 0
      BY NegativeByBalance DEF BillingInv
    <3>4. QED
      BY <2>3, <3>1, <3>2, <3>3, NegativeByBalance
  <2>12. QED
    BY <2>4, <2>7, <2>8, <2>9, <2>10, <2>11 DEF BillingInv, Table
<1>4. QED
  BY <1>2, <1>3

(* The actions that leave the ledger alone preserve the invariant.  The     *)
(* deletion job resets the applications of a tenant without any row, so     *)
(* none of them had a grant.                                                *)
LEMMA QuietInv ==
  ASSUME BillingInv, UNCHANGED ledgerVars,
         \/ \E w \in Workers, j \in Job, c \in Estimate : Allow(w, j, c)
         \/ \E w \in Workers, j \in Job, c \in Estimate, b \in BOOLEAN : Skip(w, j, c, b)
         \/ \E w \in Workers : Drop(w)
         \/ \E a \in Applications : Apply(a)
         \/ \E t \in Tenants : Uninstall(t) \/ DeletionJob(t)
         \/ UNCHANGED vars
  PROVE  BillingInv'
<1>1. KeysNameRows' /\ RowsPerReview' /\ ClosesReservation' /\ OnlyOverrunsGoNegative'
      /\ GrantIsApplicants'
  BY DEF BillingInv, KeysNameRows, RowsPerReview, ClosesReservation,
     OnlyOverrunsGoNegative, GrantIsApplicants, Balance, Rows, ledgerVars
<1> SUFFICES TypeOK' /\ HeldIsRecorded' /\ ApprovalMatchesGrant'
  BY <1>1 DEF BillingInv
<1> USE DEF BillingInv, TypeOK, HeldIsRecorded, ApprovalMatchesGrant, ledgerVars, Phase
<1>2. ASSUME NEW w \in Workers, NEW j \in Job, NEW c \in Estimate, Allow(w, j, c)
      PROVE  TypeOK' /\ HeldIsRecorded' /\ ApprovalMatchesGrant'
  BY <1>2, CreditAssumption DEF Allow, Estimate
<1>3. ASSUME NEW w \in Workers, NEW j \in Job, NEW c \in Estimate, NEW b \in BOOLEAN,
             Skip(w, j, c, b)
      PROVE  TypeOK' /\ HeldIsRecorded' /\ ApprovalMatchesGrant'
  BY <1>3 DEF Skip
<1>4. ASSUME NEW w \in Workers, Drop(w)
      PROVE  TypeOK' /\ HeldIsRecorded' /\ ApprovalMatchesGrant'
  BY <1>4 DEF Drop, Idle
<1>5. ASSUME NEW a \in Applications, Apply(a)
      PROVE  TypeOK' /\ HeldIsRecorded' /\ ApprovalMatchesGrant'
  BY <1>5 DEF Apply, workerVars
<1>6. ASSUME NEW t \in Tenants, Uninstall(t)
      PROVE  TypeOK' /\ HeldIsRecorded' /\ ApprovalMatchesGrant'
  BY <1>6 DEF Uninstall, workerVars
<1>7. ASSUME NEW t \in Tenants, DeletionJob(t)
      PROVE  TypeOK' /\ HeldIsRecorded' /\ ApprovalMatchesGrant'
  BY <1>7 DEF DeletionJob, workerVars, GrantIsApplicants
<1>8. CASE UNCHANGED vars
  BY <1>8 DEF vars, workerVars
<1>9. QED
  BY <1>2, <1>3, <1>4, <1>5, <1>6, <1>7, <1>8

(* Every step preserves the invariant.                                      *)
LEMMA BillingStepInv == BillingInv /\ [Next]_vars => BillingInv'
<1> SUFFICES ASSUME BillingInv, [Next]_vars PROVE BillingInv'
  OBVIOUS
<1>1. ASSUME NEW w \in Workers, Work(w) PROVE BillingInv'
  <2>1. ASSUME NEW try \in Tries, Reserve(w, try) PROVE BillingInv'
    BY <2>1, ReserveInv
  <2>2. ASSUME NEW actual \in 0 .. MaxActual, Finish(w, actual) PROVE BillingInv'
    BY <2>2, FinishInv
  <2>3. CASE Fail(w)
    BY <2>3, FailInv
  <2>4. CASE Drop(w)
    BY <2>4, QuietInv DEF Drop
  <2>5. ASSUME NEW j \in Job, NEW c \in Estimate, Allow(w, j, c) PROVE BillingInv'
    BY <2>5, QuietInv DEF Allow
  <2>6. ASSUME NEW j \in Job, NEW c \in Estimate, NEW b \in BOOLEAN, Skip(w, j, c, b)
        PROVE  BillingInv'
    BY <2>6, QuietInv DEF Skip
  <2>7. QED
    BY <1>1, <2>1, <2>2, <2>3, <2>4, <2>5, <2>6 DEF Work
<1>2. ASSUME NEW p \in Purchases, NEW t \in Tenants, NEW c \in Estimate, Purchase(p, t, c)
      PROVE  BillingInv'
  BY <1>2, PurchaseInv
<1>3. ASSUME NEW a \in Applications, Apply(a) PROVE BillingInv'
  BY <1>3, QuietInv DEF Apply
<1>4. ASSUME NEW a \in Applications, NEW approve \in BOOLEAN, Decide(a, approve)
      PROVE  BillingInv'
  BY <1>4, DecideInv
<1>5. ASSUME NEW t \in Tenants, Uninstall(t) \/ DeletionJob(t) PROVE BillingInv'
  BY <1>5, QuietInv DEF Uninstall, DeletionJob
<1>6. CASE UNCHANGED vars
  BY <1>6, QuietInv DEF vars
<1>7. QED
  BY <1>1, <1>2, <1>3, <1>4, <1>5, <1>6 DEF Next

(* The invariant holds in every reachable state.                            *)
THEOREM BillingInvariance == Spec => []BillingInv
<1>1. QED
  BY BillingInitInv, BillingStepInv, PTL DEF Spec

(* The types of the ledger, the jobs and the applications.                  *)
THEOREM BillingTypes == Spec => []TypeOK
<1>1. BillingInv => TypeOK
  BY DEF BillingInv
<1>2. QED
  BY <1>1, BillingInvariance, PTL

(* Whatever workers race and repeat, and whatever they had estimated, a     *)
(* balance is below zero only by what settlements overran.                  *)
THEOREM BillingOnlyOverrunsGoNegative == Spec => []OnlyOverrunsGoNegative
<1>1. BillingInv => OnlyOverrunsGoNegative
  BY DEF BillingInv
<1>2. QED
  BY <1>1, BillingInvariance, PTL

(* A reservation is closed once, and to the credit.                         *)
THEOREM BillingReservationClosedOnce == Spec => []ReservationClosedOnce
<1>1. BillingInv => ReservationClosedOnce
  BY DEF BillingInv, RowsPerReview, ClosesReservation, ReservationClosedOnce
<1>2. QED
  BY <1>1, BillingInvariance, PTL

(* Approved applications and their grants correspond one to one.            *)
THEOREM BillingApprovalMatchesGrant == Spec => []ApprovalMatchesGrant
<1>1. BillingInv => ApprovalMatchesGrant
  BY DEF BillingInv
<1>2. QED
  BY <1>1, BillingInvariance, PTL

=============================================================================
