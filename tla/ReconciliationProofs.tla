------------------------ MODULE ReconciliationProofs ------------------------
(***************************************************************************)
(* Proofs about the reconciliation engine, for every set of observations   *)
(* and every choice of the constants Reconciliation assumes.               *)
(***************************************************************************)
EXTENDS Reconciliation, SequenceTheorems, TLAPS

-----------------------------------------------------------------------------
(* The scorer.                                                             *)

(* A quotient by a positive divisor is bounded by the bound on the dividend. *)
LEMMA QuotientBound ==
  ASSUME NEW n \in Nat, NEW k \in Nat, NEW d \in Nat \ {0}, n <= k * d
  PROVE  n \div d \in 0..k
<1> DEFINE q == n \div d
<1>1. q \in Int /\ (n % d) \in 0..(d - 1) /\ n = d * q + (n % d)
  OBVIOUS
<1>2. q >= 0
  <2>1. q < 0 => d * q <= -d
    BY <1>1
  <2> QED BY <1>1, <2>1
<1>3. q <= k
  <2>1. q >= k + 1 => d * q >= d * k + d
    BY <1>1
  <2> QED BY <1>1, <2>1
<1> QED BY <1>1, <1>2, <1>3

LEMMA TimeScoreBound ==
  ASSUME NEW a \in Int, NEW b \in Int
  PROVE  TimeScore(a, b) \in 0..250
<1> DEFINE d == Distance(a, b)
<1>1. d \in Nat /\ Day \in Nat \ {0}
  BY ScoringAssumption DEF Distance
<1>2. CASE d <= Day
  <2>1. (100 * (Day - d)) \div Day \in 0..100
    <3>1. 100 * (Day - d) \in Nat /\ 100 * (Day - d) <= 100 * Day
      BY <1>1, <1>2
    <3> QED BY <1>1, <3>1, QuotientBound
  <2> QED BY <1>2, <2>1 DEF TimeScore
<1>3. CASE d > Day /\ d <= 3 * Day
  <2>1. (100 * (3 * Day - d)) \div (2 * Day) \in 0..100
    <3>1. /\ 100 * (3 * Day - d) \in Nat
          /\ 100 * (3 * Day - d) <= 100 * (2 * Day)
          /\ 2 * Day \in Nat \ {0}
      BY <1>1, <1>3
    <3> QED BY <3>1, QuotientBound
  <2> QED BY <1>1, <1>3, <2>1 DEF TimeScore
<1>4. CASE d > Day /\ d > 3 * Day
  BY <1>1, <1>4 DEF TimeScore
<1> QED BY <1>1, <1>2, <1>3, <1>4

(* What a viable score means: the weights leave no way to 0.55 for         *)
(* evidence that contradicts the transaction's reference, nor for evidence *)
(* with neither a reference nor a similar merchant in common with it.      *)
LEMMA ViableHasReason ==
  ASSUME NEW e \in EvidenceType, NEW row \in Transaction,
         Score(e, row) >= ViabilityFloor
  PROVE  ScoredMergeHasReason(e, row)
<1> DEFINE m == MerchantScore(e, row)
           r == ReferenceScore(e, row)
<1>1. TimeScore(e.time, row.time) \in 0..250
  BY TimeScoreBound DEF EvidenceType, Transaction
<1>2. m \in 0..300 /\ r \in {-250, 0, 100, 250}
  <2>1. e.merchant \in Merchants \cup {None} /\ row.name \in Merchants \cup {None}
    BY DEF EvidenceType, Transaction
  <2>2. None \notin {e.merchant, row.name} => Similarity[<<e.merchant, row.name>>] \in 0..100
    BY <2>1, ScoringAssumption
  <2>3. m \in 0..300
    BY <2>2 DEF MerchantScore
  <2>4. r \in {-250, 0, 100, 250}
    BY DEF ReferenceScore
  <2> QED BY <2>3, <2>4
<1>3. m + r >= 100
  <2> DEFINE a == IF e.amount = row.amount THEN 100 ELSE 0
             d == IF e.direction = row.direction THEN 50 ELSE 0
             t == TimeScore(e.time, row.time)
             x == IF Complementary(e, row) THEN 50 ELSE 0
  <2>1. a \in 0..100 /\ d \in 0..50 /\ t \in 0..250 /\ x \in 0..50
    BY <1>1
  <2>2. DecimalScore(e, row) = m + r + a + d + t + x
    BY DEF DecimalScore
  <2> HIDE DEF m, r, a, d, t, x
  <2>3. DecimalScore(e, row) \in Int
    BY <1>2, <2>1, <2>2
  <2>4. RawScore(e, row) \in Int /\ RawScore(e, row) <= DecimalScore(e, row)
    BY <2>3 DEF RawScore
  <2>5. RawScore(e, row) >= 550
    BY <2>4 DEF Score, ViabilityFloor
  <2> QED BY <1>2, <2>1, <2>2, <2>3, <2>4, <2>5
<1>4. CASE None \notin {e.reference, row.reference}
  BY <1>2, <1>3, <1>4 DEF ReferenceScore, RelatedReferences, ScoredMergeHasReason
<1>5. CASE None \in {e.reference, row.reference}
  <2>1. r = 0 /\ m >= 100
    BY <1>2, <1>3, <1>5 DEF ReferenceScore
  <2>2. None \notin {e.merchant, row.name} /\ m = 3 * Similarity[<<e.merchant, row.name>>]
    BY <2>1 DEF MerchantScore
  <2>3. Similarity[<<e.merchant, row.name>>] \in 0..100
    BY <2>2, ScoringAssumption DEF EvidenceType, Transaction
  <2> QED BY <1>5, <2>1, <2>2, <2>3 DEF ScoredMergeHasReason
<1> QED BY <1>4, <1>5

-----------------------------------------------------------------------------
(* What the engine does to the rows of the ledger.                         *)

Agrees(e, row) ==
  SamePayment(e, row) /\ Distance(e.time, row.time) <= CandidateWindow

SameFacts(a, b) ==
  /\ a.instrument = b.instrument /\ a.direction = b.direction
  /\ a.amount = b.amount /\ a.time = b.time

(* A new transaction is a row that agrees with the evidence it comes from. *)
LEMMA NewTransactionType ==
  ASSUME NEW e \in EvidenceType
  PROVE  NewTransaction(e) \in Transaction /\ Agrees(e, NewTransaction(e))
<1>1. NormalName(e) \in Merchants \cup {None}
  BY ScoringAssumption DEF NormalName, EvidenceType
<1>2. NewTransaction(e) \in Transaction
  BY <1>1 DEF NewTransaction, EvidenceType, Sources, Transaction
<1>3. Distance(e.time, e.time) = 0 /\ CandidateWindow \in Nat
  BY ScoringAssumption DEF Distance, CandidateWindow, EvidenceType
<1> QED BY <1>2, <1>3 DEF Agrees, SamePayment, NewTransaction

(* Post-processing touches names, statuses and refund links, never what a  *)
(* row says of its payment.                                                *)
LEMMA PostProcessedFacts ==
  ASSUME NEW rows \in Seq(Transaction), NEW t \in DOMAIN rows, NEW e \in EvidenceType,
         NEW new \in PostProcessed(rows, t, e)
  PROVE  /\ new \in Seq(Transaction) /\ Len(new) = Len(rows)
         /\ \A i \in DOMAIN rows : SameFacts(rows[i], new[i])
<1>1. rows[t] \in Transaction /\ DOMAIN rows = 1..Len(rows)
  BY ElementOfSeq
<1>2. CASE e.direction = "debit"
  <2> DEFINE row == [rows[t] EXCEPT !.name = Coalesce(NormalName(e), @)]
  <2>1. NormalName(e) \in Merchants \cup {None}
    BY ScoringAssumption DEF NormalName, EvidenceType
  <2>2. row \in Transaction /\ SameFacts(rows[t], row)
    BY <1>1, <2>1 DEF Coalesce, Transaction, SameFacts
  <2>3. new = [rows EXCEPT ![t] = row]
    BY <1>2 DEF PostProcessed
  <2> HIDE DEF row
  <2> QED BY <1>1, <2>2, <2>3, ExceptSeq DEF SameFacts
<1>3. CASE e.direction # "debit" /\ Reversible(rows, e) = {}
  BY <1>3 DEF PostProcessed, SameFacts
<1>4. CASE e.direction # "debit" /\ Reversible(rows, e) # {}
  <2>1. PICK d \in DOMAIN rows : new = [rows EXCEPT ![t].parent = d, ![d].status = "refunded"]
    BY <1>4 DEF PostProcessed, Latest, Reversible
  <2> DEFINE child == [rows[t] EXCEPT !.parent = d]
             mid   == [rows EXCEPT ![t] = child]
             debit == [mid[d] EXCEPT !.status = "refunded"]
  <2>2. child \in Transaction /\ SameFacts(rows[t], child)
    <3>1. d \in Nat
      BY <1>1
    <3> QED BY <1>1, <3>1 DEF Transaction, SameFacts
  <2>3. /\ mid \in Seq(Transaction) /\ Len(mid) = Len(rows)
        /\ \A j \in DOMAIN rows : SameFacts(rows[j], mid[j])
    <3> HIDE DEF child
    <3> QED BY <1>1, <2>2, ExceptSeq DEF SameFacts
  <2>4. debit \in Transaction /\ SameFacts(mid[d], debit)
    <3> HIDE DEF mid
    <3>1. mid[d] \in Transaction
      BY <1>1, <2>3, ElementOfSeq
    <3> QED BY <3>1 DEF Transaction, SameFacts
  <2>5. new = [mid EXCEPT ![d] = debit]
    BY <2>1
  <2> HIDE DEF mid, debit
  <2> QED BY <1>1, <2>3, <2>4, <2>5, ExceptSeq DEF SameFacts
<1> QED BY <1>2, <1>3, <1>4

LEMMA CutShortFacts ==
  ASSUME NEW rows \in Seq(Transaction), NEW t \in DOMAIN rows, NEW e \in EvidenceType,
         NEW new \in CutShort(rows, t, e)
  PROVE  /\ new \in Seq(Transaction) /\ Len(new) = Len(rows)
         /\ \A i \in DOMAIN rows : SameFacts(rows[i], new[i])
<1>1. rows[t] \in Transaction /\ DOMAIN rows = 1..Len(rows)
  BY ElementOfSeq
<1>2. CASE new = rows
  BY <1>2 DEF SameFacts
<1>3. CASE new \in PostProcessed(rows, t, e)
  BY <1>3, PostProcessedFacts
<1>4. CASE \E d \in DOMAIN rows : new = [rows EXCEPT ![t].parent = d]
  <2>1. PICK d \in DOMAIN rows : new = [rows EXCEPT ![t].parent = d]
    BY <1>4
  <2> DEFINE child == [rows[t] EXCEPT !.parent = d]
  <2>2. child \in Transaction /\ SameFacts(rows[t], child)
    <3>1. d \in Nat
      BY <1>1
    <3> QED BY <1>1, <3>1 DEF Transaction, SameFacts
  <2>3. new = [rows EXCEPT ![t] = child]
    BY <2>1
  <2> HIDE DEF child
  <2> QED BY <1>1, <2>2, <2>3, ExceptSeq DEF SameFacts
<1> QED BY <1>2, <1>3, <1>4 DEF CutShort, Latest, Reversible

(* Whatever precedence leaves in a row, it is still the same payment: the  *)
(* amount a statement writes is the amount that was matched.               *)
LEMMA PrecedenceFacts ==
  ASSUME TypeOK, NEW o \in Observations, NEW t \in Ids,
         SamePayment(Evidence[o], transactions[t]),
         NEW row \in Precedence(o, t)
  PROVE  row \in Transaction /\ SameFacts(transactions[t], row)
<1> DEFINE e == Evidence[o]
           old == transactions[t]
<1>1. e \in EvidenceType /\ old \in Transaction /\ e.amount = old.amount
  BY LedgerAssumption, ElementOfSeq DEF TypeOK, Ids, SamePayment
<1>2. row \in {StatementUpdate(old, e), EmailBackfill(old, e), EmailOverwrite(old, e), old}
  BY DEF Precedence
<1> HIDE DEF e, old
<1>3. row = StatementUpdate(old, e) => row \in Transaction /\ SameFacts(old, row)
  BY <1>1 DEF StatementUpdate, Coalesce, SameFacts, Transaction, EvidenceType
<1>4. row = EmailBackfill(old, e) => row \in Transaction /\ SameFacts(old, row)
  BY <1>1 DEF EmailBackfill, Coalesce, SameFacts, Transaction, EvidenceType
<1>5. row = EmailOverwrite(old, e) => row \in Transaction /\ SameFacts(old, row)
  BY <1>1 DEF EmailOverwrite, Coalesce, SameFacts, Transaction, EvidenceType
<1>6. row = old => row \in Transaction /\ SameFacts(old, row)
  BY <1>1 DEF SameFacts
<1> QED BY <1>2, <1>3, <1>4, <1>5, <1>6 DEF old

LEMMA SameFactsAgree ==
  ASSUME NEW e, NEW a, NEW b, Agrees(e, a), SameFacts(a, b)
  PROVE  Agrees(e, b)
  BY DEF Agrees, SameFacts, SamePayment

-----------------------------------------------------------------------------
(* The inductive invariant.  MergedEvidenceAgrees speaks of what a link    *)
(* points at, so links and clusters must name rows that exist; a cluster   *)
(* must have a subject for a verdict to be about asked evidence.           *)

GoodClusters(cs, n) ==
  /\ cs \in Seq(Cluster)
  /\ \A c \in DOMAIN cs : cs[c].candidates \subseteq 1..n /\ cs[c].incoming # <<>>

RowsExist ==
  /\ \A o \in Observations : link[o] \in 0..Len(transactions)
  /\ GoodClusters(clusters, Len(transactions))

IInv == TypeOK /\ RowsExist /\ MergedEvidenceAgrees /\ EvidenceAccountedFor

(* What every step does to the state: rows are added and never contradict  *)
(* themselves unless the user edits them, questions are never withdrawn,   *)
(* and a link the engine sets points at a row that agrees.                 *)
RowsKept ==
  /\ transactions' \in Seq(Transaction) /\ Len(transactions) <= Len(transactions')
  /\ \A t \in Ids \ corrections' : SameFacts(transactions[t], transactions'[t])

QuestionsKept ==
  /\ GoodClusters(clusters', Len(transactions'))
  /\ \A p \in Observations : Asked(p) => Asked(p)'

LinksAgree ==
  /\ link' \in [Observations -> 0..Len(transactions')]
  /\ \A p \in Observations :
       \/ link'[p] = link[p] \/ Asked(p)'
       \/ link'[p] # 0 /\ Agrees(Evidence[p], transactions'[link'[p]])

Answered(o) == link'[o] # 0 \/ Asked(o)'

LEMMA LedgerStep ==
  ASSUME IInv, RowsKept, QuestionsKept, LinksAgree,
         intake' \in [Observations -> {"unseen", "held", "reconciled"}],
         decisions' \in Seq(Decision), crashes' \in Nat,
         \A p \in Observations :
           intake'[p] = "reconciled" => intake[p] = "reconciled" \/ Answered(p),
         corrections \subseteq corrections', corrections' \subseteq Nat
  PROVE  IInv'
<1>1. Len(transactions) \in Nat /\ Len(transactions') \in Nat
  BY LenProperties DEF IInv, TypeOK, RowsKept
<1>2. TypeOK'
  <2>1. link' \in [Observations -> Nat]
    BY <1>1 DEF LinksAgree
  <2> QED BY <2>1 DEF TypeOK, RowsKept, QuestionsKept, GoodClusters
<1>3. RowsExist'
  BY DEF RowsExist, QuestionsKept, LinksAgree
<1>4. MergedEvidenceAgrees'
  <2> SUFFICES ASSUME NEW o \in Observations, NEW t \in (Ids \ corrections)', EngineLinked(o, t)'
               PROVE  Agrees(Evidence[o], transactions'[t])
    BY DEF MergedEvidenceAgrees, Agrees
  <2>1. t # 0 /\ link'[o] = t /\ ~Asked(o)'
    BY DEF EngineLinked
  <2>2. CASE link'[o] = link[o]
    <3>1. t \in Ids \ corrections /\ EngineLinked(o, t)
      <4>1. Ids = 1..Len(transactions)
        BY LenProperties DEF Ids, IInv, TypeOK
      <4>2. t \in 0..Len(transactions) /\ t \notin corrections
        BY <2>1, <2>2 DEF IInv, RowsExist
      <4>3. ~Asked(o)
        BY <2>1 DEF QuestionsKept
      <4> QED BY <1>1, <2>1, <2>2, <4>1, <4>2, <4>3 DEF EngineLinked
    <3>2. Agrees(Evidence[o], transactions[t])
      BY <3>1 DEF IInv, MergedEvidenceAgrees, Agrees
    <3>3. SameFacts(transactions[t], transactions'[t])
      BY <3>1 DEF RowsKept
    <3> QED BY <3>2, <3>3, SameFactsAgree
  <2>3. CASE link'[o] # link[o]
    BY <2>1, <2>3 DEF LinksAgree
  <2> QED BY <2>2, <2>3
<1>5. EvidenceAccountedFor'
  <2> SUFFICES ASSUME NEW o \in Observations, intake'[o] = "reconciled"
               PROVE  link'[o] # 0 \/ Asked(o)'
    BY DEF EvidenceAccountedFor
  <2>1. CASE intake[o] = "reconciled"
    <3>1. link[o] # 0 \/ Asked(o)
      BY <2>1 DEF IInv, EvidenceAccountedFor
    <3> QED BY <3>1 DEF QuestionsKept, LinksAgree
  <2>2. CASE Answered(o)
    BY <2>2 DEF Answered
  <2> QED BY <2>1, <2>2
<1> QED BY <1>2, <1>3, <1>4, <1>5 DEF IInv
-----------------------------------------------------------------------------
(* The parts actions are made of.                                          *)

LEMMA DecideType ==
  ASSUME TypeOK, NEW o \in Observations, NEW t \in Nat,
         NEW kind \in {"auto_matched_exact", "auto_matched_scored", "new_canonical",
                       "ambiguous_pending", "manually_confirmed"},
         Decide(o, t, kind)
  PROVE  decisions' \in Seq(Decision)
  BY AppendProperties DEF TypeOK, Decide, Decision

LEMMA CloseKeepsQuestions ==
  ASSUME TypeOK, RowsExist, NEW c \in DOMAIN clusters,
         NEW status \in {"open", "deferred", "resolved", "rejected"},
         Close(c, status), Len(transactions') \in Nat, Len(transactions) <= Len(transactions')
  PROVE  QuestionsKept
<1> DEFINE row == [clusters[c] EXCEPT !.status = status]
<1>1. clusters[c] \in Cluster /\ clusters \in Seq(Cluster)
  BY ElementOfSeq DEF TypeOK
<1>2. /\ row \in Cluster /\ row.incoming = clusters[c].incoming
      /\ row.candidates = clusters[c].candidates
  BY <1>1 DEF Cluster
<1>3. clusters' = [clusters EXCEPT ![c] = row]
  BY DEF Close
<1> HIDE DEF row
<1>4. clusters' \in Seq(Cluster) /\ DOMAIN clusters' = DOMAIN clusters
  BY <1>1, <1>2, <1>3, ExceptSeq
<1>5. \A d \in DOMAIN clusters : /\ clusters'[d].incoming = clusters[d].incoming
                                 /\ clusters'[d].candidates = clusters[d].candidates
  BY <1>2, <1>3
<1>6. Len(transactions) \in Nat
  BY LenProperties DEF TypeOK
<1>7. GoodClusters(clusters', Len(transactions'))
  BY <1>4, <1>5, <1>6 DEF RowsExist, GoodClusters
<1> QED BY <1>4, <1>5, <1>7 DEF QuestionsKept, Asked

LEMMA UnchangedKeepsQuestions ==
  ASSUME TypeOK, RowsExist, UNCHANGED clusters,
         Len(transactions') \in Nat, Len(transactions) <= Len(transactions')
  PROVE  QuestionsKept
<1>1. Len(transactions) \in Nat
  BY LenProperties DEF TypeOK
<1> QED BY <1>1 DEF RowsExist, GoodClusters, QuestionsKept, Asked

(* Raising an ambiguity asks about the observation, in an open cluster     *)
(* nearby or in a new one.                                                 *)
LEMMA RaiseAmbiguityAsks ==
  ASSUME TypeOK, RowsExist, NEW o \in Observations, RaiseAmbiguity(o)
  PROVE  QuestionsKept /\ Asked(o)'
<1>1. clusters \in Seq(Cluster) /\ transactions' = transactions
  BY DEF TypeOK, RaiseAmbiguity
<1>2. CASE OverlappingOpen(Evidence[o]) # {}
  <2>1. PICK c \in DOMAIN clusters : clusters' = [clusters EXCEPT ![c].incoming = Append(@, o)]
    BY <1>2 DEF RaiseAmbiguity, OverlappingOpen
  <2> DEFINE old == clusters[c]
             row == [old EXCEPT !.incoming = Append(@, o)]
  <2>2. old \in Cluster
    BY <1>1, ElementOfSeq
  <2>3. old.incoming \in Seq(Observations)
    BY <2>2 DEF Cluster
  <2>4. /\ Append(old.incoming, o) \in Seq(Observations)
        /\ Append(old.incoming, o) # <<>>
        /\ \A i \in DOMAIN old.incoming : /\ i \in DOMAIN Append(old.incoming, o)
                                          /\ Append(old.incoming, o)[i] = old.incoming[i]
        /\ \E i \in DOMAIN Append(old.incoming, o) : Append(old.incoming, o)[i] = o
    BY <2>3, AppendProperties
  <2>5. /\ row \in Cluster /\ row.candidates = old.candidates
        /\ row.incoming = Append(old.incoming, o)
    BY <2>2, <2>4 DEF Cluster
  <2>6. clusters' = [clusters EXCEPT ![c] = row]
    BY <2>1
  <2> HIDE DEF row
  <2>7. clusters' \in Seq(Cluster) /\ DOMAIN clusters' = DOMAIN clusters
    BY <1>1, <2>5, <2>6, ExceptSeq
  <2>8. \A d \in DOMAIN clusters : clusters'[d] = IF d = c THEN row ELSE clusters[d]
    BY <2>6
  <2>9. GoodClusters(clusters', Len(transactions'))
    BY <1>1, <2>4, <2>5, <2>7, <2>8 DEF RowsExist, GoodClusters
  <2>10. Asked(o)'
    BY <2>4, <2>5, <2>7, <2>8 DEF Asked
  <2>11. ASSUME NEW p \in Observations, Asked(p) PROVE Asked(p)'
    BY <2>4, <2>5, <2>7, <2>8, <2>11 DEF Asked
  <2> QED BY <2>9, <2>10, <2>11 DEF QuestionsKept
<1>3. CASE OverlappingOpen(Evidence[o]) = {}
  <2> DEFINE row == [status |-> "open", incoming |-> <<o>>, candidates |-> Viable(Evidence[o])]
  <2>1. Ids = 1..Len(transactions) /\ Len(transactions) \in Nat
    BY LenProperties DEF Ids, TypeOK
  <2>2. Viable(Evidence[o]) \subseteq 1..Len(transactions)
    BY <2>1 DEF Viable, Candidates, Live
  <2>3. row \in Cluster /\ row.incoming = <<o>> /\ row.candidates = Viable(Evidence[o])
    BY <2>1, <2>2 DEF Cluster
  <2>4. clusters' = Append(clusters, row)
    BY <1>3 DEF RaiseAmbiguity
  <2> HIDE DEF row
  <2>5. /\ clusters' \in Seq(Cluster)
        /\ \A d \in DOMAIN clusters : d \in DOMAIN clusters' /\ clusters'[d] = clusters[d]
        /\ \A d \in DOMAIN clusters' : d \in DOMAIN clusters \/ clusters'[d] = row
        /\ Len(clusters) + 1 \in DOMAIN clusters' /\ clusters'[Len(clusters) + 1] = row
    BY <1>1, <2>3, <2>4, AppendProperties
  <2>6. GoodClusters(clusters', Len(transactions'))
    <3>1. row.incoming # <<>> /\ row.candidates \subseteq 1..Len(transactions)
      BY <2>2, <2>3
    <3>2. \A d \in DOMAIN clusters' : /\ clusters'[d].candidates \subseteq 1..Len(transactions)
                                      /\ clusters'[d].incoming # <<>>
      BY <2>5, <3>1 DEF RowsExist, GoodClusters
    <3> QED BY <1>1, <2>5, <3>2 DEF GoodClusters
  <2>7. Asked(o)' /\ \A p \in Observations : Asked(p) => Asked(p)'
    BY <2>3, <2>5 DEF Asked
  <2> QED BY <2>6, <2>7 DEF QuestionsKept
<1> QED BY <1>2, <1>3
LEMMA CreateCanonicalEffect ==
  ASSUME TypeOK, NEW o \in Observations, CreateCanonical(o)
  PROVE  /\ transactions' \in Seq(Transaction) /\ Len(transactions') = Len(transactions) + 1
         /\ \A t \in Ids : SameFacts(transactions[t], transactions'[t])
         /\ link' = [link EXCEPT ![o] = NextId] /\ NextId \in 1..Len(transactions')
         /\ Agrees(Evidence[o], transactions'[NextId])
<1> DEFINE e == Evidence[o]
           row == NewTransaction(e)
           rows == Append(transactions, row)
<1>1. e \in EvidenceType
  BY LedgerAssumption
<1>2. row \in Transaction /\ Agrees(e, row)
  BY <1>1, NewTransactionType
<1>3. transactions \in Seq(Transaction) /\ Len(transactions) \in Nat /\ Ids = 1..Len(transactions)
  BY LenProperties DEF TypeOK, Ids
<1> HIDE DEF row
<1>4. /\ rows \in Seq(Transaction) /\ Len(rows) = NextId
      /\ rows[NextId] = row /\ \A t \in Ids : rows[t] = transactions[t]
  BY <1>2, <1>3, AppendProperties DEF NextId
<1> HIDE DEF rows
<1>5. transactions' \in PostProcessed(rows, NextId, e) /\ link' = [link EXCEPT ![o] = NextId]
  BY DEF CreateCanonical, rows, row
<1>6. DOMAIN rows = 1..NextId /\ NextId \in Nat \ {0}
  BY <1>3, <1>4, LenProperties DEF NextId
<1>7. /\ transactions' \in Seq(Transaction) /\ Len(transactions') = NextId
      /\ \A t \in 1..NextId : SameFacts(rows[t], transactions'[t])
  <2>1. NextId \in DOMAIN rows
    BY <1>6
  <2> QED BY <1>1, <1>4, <1>5, <1>6, <2>1, PostProcessedFacts
<1>8. Agrees(e, transactions'[NextId])
  BY <1>2, <1>4, <1>6, <1>7, SameFactsAgree
<1>9. \A t \in Ids : SameFacts(transactions[t], transactions'[t])
  BY <1>3, <1>4, <1>6, <1>7 DEF NextId
<1> QED BY <1>3, <1>5, <1>6, <1>7, <1>8, <1>9 DEF NextId

LEMMA MergeIntoEffect ==
  ASSUME TypeOK, NEW o \in Observations, NEW t \in Ids, NEW kind,
         Agrees(Evidence[o], transactions[t]), MergeInto(o, t, kind)
  PROVE  /\ transactions' \in Seq(Transaction) /\ Len(transactions') = Len(transactions)
         /\ \A u \in Ids : SameFacts(transactions[u], transactions'[u])
         /\ Agrees(Evidence[o], transactions'[t])
<1> DEFINE e == Evidence[o]
<1>1. PICK row \in Precedence(o, t) :
        transactions' \in PostProcessed([transactions EXCEPT ![t] = row], t, e)
  BY DEF MergeInto
<1> DEFINE rows == [transactions EXCEPT ![t] = row]
<1>2. e \in EvidenceType
  BY LedgerAssumption
<1>3. row \in Transaction /\ SameFacts(transactions[t], row)
  BY PrecedenceFacts DEF Agrees
<1>4. transactions \in Seq(Transaction) /\ Ids = 1..Len(transactions)
  BY LenProperties DEF TypeOK, Ids
<1>5. /\ rows \in Seq(Transaction) /\ Len(rows) = Len(transactions) /\ DOMAIN rows = Ids
      /\ \A u \in Ids : SameFacts(transactions[u], rows[u])
  BY <1>3, <1>4, ExceptSeq DEF SameFacts
<1>6. transactions' \in PostProcessed(rows, t, e)
  BY <1>1
<1> HIDE DEF rows
<1>7. /\ transactions' \in Seq(Transaction) /\ Len(transactions') = Len(rows)
      /\ \A u \in Ids : SameFacts(rows[u], transactions'[u])
  BY <1>2, <1>5, <1>6, PostProcessedFacts
<1>8. \A u \in Ids : SameFacts(transactions[u], transactions'[u])
  BY <1>5, <1>7 DEF SameFacts
<1> QED BY <1>5, <1>7, <1>8, SameFactsAgree

(* One run of the engine keeps the ledger and answers for the observation: *)
(* it is linked to a row that agrees with it, or the user is asked.        *)
LEMMA ReconcileEffect ==
  ASSUME IInv, NEW o \in Observations, Reconcile(o), corrections' = corrections
  PROVE  RowsKept /\ QuestionsKept /\ LinksAgree /\ Answered(o) /\ decisions' \in Seq(Decision)
<1>1. /\ TypeOK /\ RowsExist /\ transactions \in Seq(Transaction)
      /\ Len(transactions) \in Nat /\ Ids = 1..Len(transactions)
      /\ link \in [Observations -> 0..Len(transactions)]
  BY LenProperties DEF IInv, TypeOK, Ids, RowsExist
<1>2. ASSUME NEW t \in Live, NEW kind \in {"auto_matched_exact", "auto_matched_scored"},
             Agrees(Evidence[o], transactions[t]), MergeInto(o, t, kind)
      PROVE  RowsKept /\ QuestionsKept /\ LinksAgree /\ Answered(o) /\ decisions' \in Seq(Decision)
  <2>1. t \in Ids
    BY DEF Live
  <2>2. /\ transactions' \in Seq(Transaction) /\ Len(transactions') = Len(transactions)
        /\ \A u \in Ids : SameFacts(transactions[u], transactions'[u])
        /\ Agrees(Evidence[o], transactions'[t])
    BY <1>1, <1>2, <2>1, MergeIntoEffect
  <2>3. link' = [link EXCEPT ![o] = t] /\ UNCHANGED clusters /\ Decide(o, t, kind)
    BY <1>2 DEF MergeInto
  <2>4. LinksAgree /\ Answered(o)
    BY <1>1, <2>1, <2>2, <2>3 DEF LinksAgree, Answered
  <2>5. t \in Nat
    BY <1>1, <2>1
  <2>6. RowsKept
    BY <1>1, <2>2 DEF RowsKept
  <2>7. decisions' \in Seq(Decision)
    BY <1>1, <2>3, <2>5, DecideType
  <2>8. QuestionsKept
    BY <1>1, <2>2, <2>3, UnchangedKeepsQuestions
  <2> QED BY <2>4, <2>6, <2>7, <2>8
<1>3. ASSUME NEW t \in FingerprintHits(o), ExactHit(o, t), MergeInto(o, t, "auto_matched_exact")
      PROVE  RowsKept /\ QuestionsKept /\ LinksAgree /\ Answered(o) /\ decisions' \in Seq(Decision)
  <2>1. t \in Live /\ t \in Ids
    BY <1>3 DEF ExactHit, Live
  <2>2. Evidence[o].time \in Int /\ transactions[t].time \in Int
    <3>1. Evidence[o] \in EvidenceType /\ transactions[t] \in Transaction
      BY <1>1, <2>1, LedgerAssumption, ElementOfSeq
    <3> QED BY <3>1 DEF EvidenceType, Transaction
  <2>3. Agrees(Evidence[o], transactions[t])
    BY <1>3, <2>2, ScoringAssumption DEF ExactHit, ExactMatch, Agrees, CandidateWindow, Distance
  <2> QED BY <1>2, <1>3, <2>1, <2>3
<1>4. ASSUME NEW t \in Winners(Evidence[o]), MergeInto(o, t, "auto_matched_scored")
      PROVE  RowsKept /\ QuestionsKept /\ LinksAgree /\ Answered(o) /\ decisions' \in Seq(Decision)
  <2>1. t \in Live /\ Agrees(Evidence[o], transactions[t])
    BY <1>4 DEF Winners, Viable, Candidates, Agrees
  <2> QED BY <1>2, <1>4, <2>1
<1>5. ASSUME NewCanonical(o)
      PROVE  RowsKept /\ QuestionsKept /\ LinksAgree /\ Answered(o) /\ decisions' \in Seq(Decision)
  <2>1. CreateCanonical(o) /\ Decide(o, 0, "new_canonical") /\ UNCHANGED clusters
    BY <1>5 DEF NewCanonical
  <2>2. /\ transactions' \in Seq(Transaction) /\ Len(transactions') = Len(transactions) + 1
        /\ \A t \in Ids : SameFacts(transactions[t], transactions'[t])
        /\ link' = [link EXCEPT ![o] = NextId] /\ NextId \in 1..Len(transactions')
        /\ Agrees(Evidence[o], transactions'[NextId])
    BY <1>1, <2>1, CreateCanonicalEffect
  <2>3. LinksAgree /\ Answered(o)
    BY <1>1, <2>2 DEF LinksAgree, Answered
  <2>4. RowsKept
    BY <1>1, <2>2 DEF RowsKept
  <2>5. decisions' \in Seq(Decision)
    BY <1>1, <2>1, DecideType
  <2>6. QuestionsKept
    BY <1>1, <2>1, <2>2, UnchangedKeepsQuestions
  <2> QED BY <2>3, <2>4, <2>5, <2>6
<1>6. ASSUME RaiseAmbiguity(o)
      PROVE  RowsKept /\ QuestionsKept /\ LinksAgree /\ Answered(o) /\ decisions' \in Seq(Decision)
  <2>1. Decide(o, 0, "ambiguous_pending") /\ UNCHANGED <<link, transactions>>
    BY <1>6 DEF RaiseAmbiguity
  <2>2. RowsKept /\ LinksAgree
    BY <1>1, <2>1 DEF RowsKept, LinksAgree, SameFacts
  <2>3. decisions' \in Seq(Decision)
    BY <1>1, <2>1, DecideType
  <2> QED BY <1>1, <1>6, <2>2, <2>3, RaiseAmbiguityAsks DEF Answered
<1> QED BY <1>3, <1>4, <1>5, <1>6 DEF Reconcile
-----------------------------------------------------------------------------
(* Every action keeps the inductive invariant.                             *)

LEMMA InitInvariant == Init => IInv
<1> SUFFICES ASSUME Init PROVE IInv
  OBVIOUS
<1>1. TypeOK
  BY LedgerAssumption, EmptySeq DEF Init, TypeOK
<1>2. RowsExist
  BY EmptySeq DEF Init, RowsExist, GoodClusters
<1>3. MergedEvidenceAgrees
  BY DEF Init, MergedEvidenceAgrees, Ids
<1>4. EvidenceAccountedFor
  BY DEF Init, EvidenceAccountedFor
<1> QED BY <1>1, <1>2, <1>3, <1>4 DEF IInv

LEMMA IntakeStep ==
  ASSUME IInv, NEW o \in Observations, NEW crash \in BOOLEAN,
         Ingest(o) \/ Hold(o) \/ SettleHeld(o) \/ ReconcileHeld(o, crash)
  PROVE  IInv'
<1>1. /\ intake \in [Observations -> {"unseen", "held", "reconciled"}]
      /\ corrections \subseteq Nat /\ crashes \in Nat
  BY DEF IInv, TypeOK
<1>2. intake' \in [Observations -> {"unseen", "held", "reconciled"}]
  BY <1>1 DEF Ingest, Hold, SettleHeld, ReconcileHeld
<1>3. corrections' = corrections /\ crashes' \in Nat
  BY <1>1 DEF Ingest, Hold, SettleHeld, ReconcileHeld
<1>4. CASE Ingest(o) \/ ReconcileHeld(o, crash)
  <2>1. Reconcile(o)
    BY <1>4 DEF Ingest, ReconcileHeld
  <2>2. RowsKept /\ QuestionsKept /\ LinksAgree /\ Answered(o) /\ decisions' \in Seq(Decision)
    BY <1>3, <2>1, ReconcileEffect
  <2>3. \A p \in Observations : p # o => intake'[p] = intake[p]
    BY <1>1, <1>4 DEF Ingest, ReconcileHeld
  <2> QED BY <1>1, <1>2, <1>3, <2>2, <2>3, LedgerStep
<1>5. CASE Hold(o) \/ SettleHeld(o)
  <2>1. UNCHANGED <<link, transactions, clusters, decisions, corrections>>
    BY <1>5 DEF Hold, SettleHeld
  <2>2. TypeOK' /\ RowsExist' /\ MergedEvidenceAgrees'
    BY <1>2, <1>3, <2>1 DEF IInv, TypeOK, RowsExist, GoodClusters, MergedEvidenceAgrees,
                            Ids, EngineLinked, Asked
  <2>3. EvidenceAccountedFor'
    BY <1>1, <1>5, <2>1 DEF IInv, EvidenceAccountedFor, Asked, Hold, SettleHeld
  <2> QED BY <2>2, <2>3 DEF IInv
<1> QED BY <1>4, <1>5

(* A verdict closes its cluster and touches at most the subject's link:    *)
(* the subject is evidence the user was asked about.                       *)
LEMMA SubjectAsked ==
  ASSUME IInv, NEW c \in DOMAIN clusters
  PROVE  Subject(c) \in Observations /\ Asked(Subject(c))
<1>1. clusters[c] \in Cluster
  BY ElementOfSeq DEF IInv, TypeOK
<1>2. clusters[c].incoming \in Seq(Observations) /\ clusters[c].incoming # <<>>
  BY <1>1 DEF Cluster, IInv, RowsExist, GoodClusters
<1>3. 1 \in DOMAIN clusters[c].incoming
  BY <1>2, EmptySeq, LenProperties
<1> QED BY <1>2, <1>3, ElementOfSeq DEF Subject, Asked

LEMMA VerdictStep ==
  ASSUME IInv, NEW c \in DOMAIN clusters,
         NEW status \in {"open", "deferred", "resolved", "rejected"}, Close(c, status),
         RowsKept, UNCHANGED <<intake, corrections>>, crashes' \in Nat,
         \/ UNCHANGED link
         \/ \E t \in 1..Len(transactions') : link' = [link EXCEPT ![Subject(c)] = t],
         \/ UNCHANGED decisions
         \/ \E t \in Nat : Decide(Subject(c), t, "manually_confirmed")
  PROVE  IInv'
<1>1. /\ TypeOK /\ RowsExist /\ Len(transactions) \in Nat /\ Len(transactions') \in Nat
      /\ Len(transactions) <= Len(transactions')
  BY LenProperties DEF IInv, TypeOK, RowsKept
<1>2. QuestionsKept
  BY <1>1, CloseKeepsQuestions
<1>3. PICK s \in Observations : s = Subject(c) /\ Asked(s)'
  <2>1. PICK s \in Observations : s = Subject(c) /\ Asked(s)
    BY SubjectAsked
  <2> QED BY <1>2, <2>1 DEF QuestionsKept
<1>4. link \in [Observations -> 0..Len(transactions')]
  BY <1>1 DEF TypeOK, RowsExist
<1>5. LinksAgree
  BY <1>3, <1>4 DEF LinksAgree
<1>6. decisions' \in Seq(Decision)
  BY <1>1, <1>3, DecideType DEF TypeOK
<1> QED BY <1>1, <1>2, <1>5, <1>6, LedgerStep DEF TypeOK

LEMMA ReviewStep ==
  ASSUME IInv, NEW c \in DOMAIN clusters,
         \/ \E t \in clusters[c].candidates, done \in 1..3 : ConfirmMatch(c, t, done)
         \/ \E done \in 1..2 : RejectCandidate(c, done)
         \/ \E done \in 1..4 : KeepSeparate(c, done)
         \/ MarkUnresolved(c) \/ Unmerge(c)
  PROVE  IInv'
<1>1. /\ TypeOK /\ RowsExist /\ transactions \in Seq(Transaction) /\ crashes \in Nat
      /\ Len(transactions) \in Nat /\ Ids = 1..Len(transactions)
  BY LenProperties DEF IInv, TypeOK, Ids
<1>2. ASSUME UNCHANGED transactions PROVE RowsKept
  BY <1>1, <1>2 DEF RowsKept, SameFacts
<1>3. ASSUME NEW t \in clusters[c].candidates, NEW done \in 1..3, ConfirmMatch(c, t, done)
      PROVE  IInv'
  <2>1. t \in 1..Len(transactions)
    BY DEF IInv, RowsExist, GoodClusters
  <2>2. /\ Close(c, "resolved") /\ UNCHANGED <<intake, transactions, corrections>>
        /\ link' = link \/ link' = [link EXCEPT ![Subject(c)] = t]
        /\ decisions' = decisions \/ Decide(Subject(c), t, "manually_confirmed")
        /\ crashes' \in Nat
    BY <1>1, <1>3 DEF ConfirmMatch, Interrupted
  <2> QED BY <1>1, <1>2, <2>1, <2>2, VerdictStep
<1>4. ASSUME NEW done \in 1..2, RejectCandidate(c, done)
      PROVE  IInv'
  <2>1. /\ Close(c, "rejected") /\ UNCHANGED <<intake, link, transactions, corrections>>
        /\ decisions' = decisions \/ Decide(Subject(c), 0, "manually_confirmed")
        /\ crashes' \in Nat
    BY <1>1, <1>4 DEF RejectCandidate, Interrupted
  <2> QED BY <1>2, <2>1, VerdictStep
<1>5. ASSUME NEW done \in 1..4, KeepSeparate(c, done)
      PROVE  IInv'
  <2> DEFINE e    == Evidence[Subject(c)]
             rows == Append(transactions, NewTransaction(e))
  <2>1. /\ Close(c, "resolved") /\ UNCHANGED <<intake, corrections>>
        /\ decisions' = decisions \/ Decide(Subject(c), 0, "manually_confirmed")
        /\ crashes' \in Nat
    BY <1>1, <1>5 DEF KeepSeparate, Interrupted
  <2>2. e \in EvidenceType /\ NewTransaction(e) \in Transaction
    BY SubjectAsked, LedgerAssumption, NewTransactionType
  <2>3. CASE done = 1
    <3>1. UNCHANGED <<link, transactions>>
      BY <1>5, <2>3 DEF KeepSeparate
    <3> QED BY <1>2, <2>1, <3>1, VerdictStep
  <2>4. CASE done # 1
    <3>1. /\ transactions' \in CutShort(rows, NextId, e)
          /\ link' = link \/ link' = [link EXCEPT ![Subject(c)] = NextId]
      BY <1>5, <2>4 DEF KeepSeparate, CutShort
    <3>2. /\ rows \in Seq(Transaction) /\ Len(rows) = NextId
          /\ \A t \in Ids : rows[t] = transactions[t]
      BY <1>1, <2>2, AppendProperties DEF NextId
    <3> HIDE DEF rows
    <3>3. NextId \in DOMAIN rows /\ DOMAIN rows = 1..NextId
      BY <1>1, <3>2, LenProperties DEF NextId
    <3>4. /\ transactions' \in Seq(Transaction) /\ Len(transactions') = NextId
          /\ \A t \in 1..NextId : SameFacts(rows[t], transactions'[t])
      BY <2>2, <3>1, <3>2, <3>3, CutShortFacts
    <3>5. RowsKept
      BY <1>1, <3>2, <3>4 DEF RowsKept, NextId
    <3>6. NextId \in 1..Len(transactions')
      BY <3>3, <3>4
    <3> QED BY <2>1, <3>1, <3>5, <3>6, VerdictStep
  <2> QED BY <2>3, <2>4
<1>6. ASSUME NEW status \in {"open", "deferred"}, Close(c, status),
             UNCHANGED <<intake, link, transactions, decisions, corrections, crashes>>
      PROVE  IInv'
  BY <1>1, <1>2, <1>6, VerdictStep
<1> QED BY <1>3, <1>4, <1>5, <1>6 DEF MarkUnresolved, Unmerge

LEMMA EditStep ==
  ASSUME IInv, NEW t \in Ids, DeleteTransaction(t) \/ EditTransaction(t)
  PROVE  IInv'
<1>1. /\ TypeOK /\ RowsExist /\ transactions \in Seq(Transaction) /\ transactions[t] \in Transaction
      /\ Len(transactions) \in Nat /\ Ids = 1..Len(transactions)
  BY LenProperties, ElementOfSeq DEF IInv, TypeOK, Ids
<1>2. ASSUME NEW row \in Transaction, transactions' = [transactions EXCEPT ![t] = row],
             t \in corrections' \/ SameFacts(transactions[t], row)
      PROVE  RowsKept /\ Len(transactions') = Len(transactions)
  BY <1>1, <1>2, ExceptSeq DEF RowsKept, SameFacts
<1>3. RowsKept /\ Len(transactions') = Len(transactions)
  <2>1. CASE DeleteTransaction(t)
    <3> DEFINE row == [transactions[t] EXCEPT !.deleted = TRUE]
    <3>1. row \in Transaction /\ SameFacts(transactions[t], row)
      BY <1>1 DEF Transaction, SameFacts
    <3>2. transactions' = [transactions EXCEPT ![t] = row]
      BY <2>1 DEF DeleteTransaction
    <3> HIDE DEF row
    <3> QED BY <1>2, <3>1, <3>2
  <2>2. CASE EditTransaction(t)
    <3>1. t \in corrections'
      BY <2>2 DEF EditTransaction
    <3>2. \E row \in Transaction : transactions' = [transactions EXCEPT ![t] = row]
      <4> DEFINE old == transactions[t]
      <4>1. \A a \in Amounts : [old EXCEPT !.amount = a] \in Transaction
        BY <1>1 DEF Transaction
      <4>2. \A i \in Instruments : [old EXCEPT !.instrument = i] \in Transaction
        BY <1>1 DEF Transaction
      <4>3. \A d \in {"debit", "credit"} : [old EXCEPT !.direction = d] \in Transaction
        BY <1>1 DEF Transaction
      <4>4. \A o \in Observations : [old EXCEPT !.time = Evidence[o].time] \in Transaction
        BY <1>1, LedgerAssumption DEF Transaction, EvidenceType
      <4>5. \A m \in Merchants :
              [old EXCEPT !.merchant = m, !.name = Coalesce(Normal[m], @)] \in Transaction
        BY <1>1, ScoringAssumption DEF Transaction, Coalesce
      <4>6. CASE \E a \in Amounts : transactions' = [transactions EXCEPT ![t].amount = a]
        BY <4>1, <4>6
      <4>7. CASE \E i \in Instruments : transactions' = [transactions EXCEPT ![t].instrument = i]
        BY <4>2, <4>7
      <4>8. CASE \E d \in {"debit", "credit"} :
                   transactions' = [transactions EXCEPT ![t].direction = d]
        BY <4>3, <4>8
      <4>9. CASE \E o \in Observations :
                   transactions' = [transactions EXCEPT ![t].time = Evidence[o].time]
        BY <4>4, <4>9
      <4>10. CASE \E m \in Merchants : transactions' =
                    [transactions EXCEPT ![t].merchant = m, ![t].name = Coalesce(Normal[m], @)]
        <5>1. PICK m \in Merchants : transactions' =
                [transactions EXCEPT ![t].merchant = m, ![t].name = Coalesce(Normal[m], @)]
          BY <4>10
        <5>2. transactions' = [transactions EXCEPT ![t] =
                [old EXCEPT !.merchant = m, !.name = Coalesce(Normal[m], @)]]
          BY <1>1, <5>1 DEF Transaction
        <5> QED BY <4>5, <5>2
      <4> QED BY <2>2, <4>6, <4>7, <4>8, <4>9, <4>10 DEF EditTransaction
    <3> QED BY <1>2, <3>1, <3>2
  <2> QED BY <2>1, <2>2
<1>4. /\ UNCHANGED <<intake, link, clusters, decisions, crashes>>
      /\ corrections \subseteq corrections' /\ corrections' \subseteq Nat
  BY <1>1 DEF TypeOK, DeleteTransaction, EditTransaction
<1>5. QuestionsKept /\ LinksAgree
  BY <1>1, <1>3, <1>4, UnchangedKeepsQuestions DEF LinksAgree, RowsExist, TypeOK
<1> QED BY <1>1, <1>3, <1>4, <1>5, LedgerStep DEF TypeOK

-----------------------------------------------------------------------------
LEMMA InductiveStep == IInv /\ [Next]_vars => IInv'
<1> SUFFICES ASSUME IInv, [Next]_vars PROVE IInv'
  OBVIOUS
<1>1. CASE UNCHANGED vars
  <2>1. TypeOK' /\ RowsExist' /\ MergedEvidenceAgrees' /\ EvidenceAccountedFor'
    BY <1>1 DEF vars, IInv, TypeOK, RowsExist, GoodClusters, MergedEvidenceAgrees,
                Ids, EngineLinked, Asked, EvidenceAccountedFor
  <2> QED BY <2>1 DEF IInv
<1>2. CASE Next
  <2>1. ASSUME NEW o \in Observations, Ingest(o) \/ Hold(o) \/ SettleHeld(o) PROVE IInv'
    BY <2>1, IntakeStep
  <2>2. ASSUME NEW o \in Observations, NEW crash \in BOOLEAN, ReconcileHeld(o, crash) PROVE IInv'
    BY <2>2, IntakeStep
  <2>3. ASSUME NEW c \in DOMAIN clusters,
               \/ \E t \in clusters[c].candidates, done \in 1..3 : ConfirmMatch(c, t, done)
               \/ \E done \in 1..2 : RejectCandidate(c, done)
               \/ \E done \in 1..4 : KeepSeparate(c, done)
               \/ MarkUnresolved(c) \/ Unmerge(c)
        PROVE  IInv'
    BY <2>3, ReviewStep
  <2>4. ASSUME NEW t \in Ids, DeleteTransaction(t) \/ EditTransaction(t) PROVE IInv'
    BY <2>4, EditStep
  <2> QED BY <1>2, <2>1, <2>2, <2>3, <2>4 DEF Next, EvidenceStep, ClusterStep
<1> QED BY <1>1, <1>2

LEMMA Invariance == Spec => []IInv
<1>1. Init => IInv
  BY InitInvariant
<1>2. IInv /\ [Next]_vars => IInv'
  BY InductiveStep
<1> QED BY <1>1, <1>2, PTL DEF Spec

(* The ledger's tables keep their types, whatever evidence arrives and     *)
(* whatever the user decides (db/transactions.rs, engine.rs).              *)
THEOREM TypeCorrect == Spec => []TypeOK
<1>1. IInv => TypeOK
  BY DEF IInv
<1> QED BY <1>1, Invariance, PTL

(* The engine only ever merges evidence of one payment, through any number *)
(* of merges, statement overwrites and reviews (engine.rs, canonical.rs).  *)
THEOREM MergesAgree == Spec => []MergedEvidenceAgrees
<1>1. IInv => MergedEvidenceAgrees
  BY DEF IInv
<1> QED BY <1>1, Invariance, PTL
(* Evidence is never lost between the engine, the review panel and a crash *)
(* inside either: once reconciled it supports a transaction or is part of  *)
(* a cluster (engine.rs, cluster.rs).                                      *)
THEOREM NoEvidenceLost == Spec => []EvidenceAccountedFor
<1>1. IInv => EvidenceAccountedFor
  BY DEF IInv
<1> QED BY <1>1, Invariance, PTL

-----------------------------------------------------------------------------
(* Only the engine decides "auto_matched_scored", and only for the winner  *)
(* among viable candidates.                                                *)
ScoredDecision(o, t) ==
  t \in Winners(Evidence[o]) /\ Decide(o, t, "auto_matched_scored")

OtherDecision ==
  \/ UNCHANGED decisions
  \/ \E o \in Observations, t \in Nat,
       kind \in {"auto_matched_exact", "new_canonical", "ambiguous_pending", "manually_confirmed"} :
         Decide(o, t, kind)

LEMMA ReconcileDecides ==
  ASSUME TypeOK, NEW o \in Observations, Reconcile(o)
  PROVE  OtherDecision \/ \E t \in Winners(Evidence[o]) : ScoredDecision(o, t)
<1>1. \A t \in FingerprintHits(o) : t \in Nat
  BY DEF FingerprintHits, TypeOK
<1>2. CASE \E t \in FingerprintHits(o) : MergeInto(o, t, "auto_matched_exact")
  BY <1>1, <1>2 DEF MergeInto, OtherDecision
<1>3. CASE \E t \in Winners(Evidence[o]) : MergeInto(o, t, "auto_matched_scored")
  BY <1>3 DEF MergeInto, ScoredDecision
<1>4. CASE NewCanonical(o) \/ RaiseAmbiguity(o)
  <2>1. Decide(o, 0, "new_canonical") \/ Decide(o, 0, "ambiguous_pending")
    BY <1>4 DEF NewCanonical, RaiseAmbiguity
  <2> QED BY <2>1 DEF OtherDecision
<1> QED BY <1>2, <1>3, <1>4 DEF Reconcile

LEMMA NextDecides ==
  ASSUME IInv, Next
  PROVE  \/ OtherDecision
         \/ \E o \in Observations : \E t \in Winners(Evidence[o]) : ScoredDecision(o, t)
<1>1. TypeOK
  BY DEF IInv
<1>2. ASSUME NEW o \in Observations, Ingest(o) \/ \E crash \in BOOLEAN : ReconcileHeld(o, crash)
      PROVE  OtherDecision \/ \E t \in Winners(Evidence[o]) : ScoredDecision(o, t)
  BY <1>1, <1>2, ReconcileDecides DEF Ingest, ReconcileHeld
<1>3. ASSUME NEW o \in Observations, Hold(o) \/ SettleHeld(o) PROVE OtherDecision
  BY <1>3 DEF Hold, SettleHeld, OtherDecision
<1>4. ASSUME NEW c \in DOMAIN clusters,
             \/ \E t \in clusters[c].candidates, done \in 1..3 : ConfirmMatch(c, t, done)
             \/ \E done \in 1..2 : RejectCandidate(c, done)
             \/ \E done \in 1..4 : KeepSeparate(c, done)
             \/ MarkUnresolved(c) \/ Unmerge(c)
      PROVE  OtherDecision
  <2>1. Subject(c) \in Observations
    BY SubjectAsked
  <2>2. clusters[c].candidates \subseteq Nat
    <3>1. clusters[c] \in Cluster
      BY <1>1, ElementOfSeq DEF TypeOK
    <3> QED BY <3>1 DEF Cluster
  <2>3. \/ UNCHANGED decisions
        \/ \E t \in Nat : Decide(Subject(c), t, "manually_confirmed")
    BY <1>4, <2>2 DEF ConfirmMatch, RejectCandidate, KeepSeparate, MarkUnresolved, Unmerge
  <2> QED BY <2>1, <2>3 DEF OtherDecision
<1>5. ASSUME NEW t \in Ids, DeleteTransaction(t) \/ EditTransaction(t) PROVE OtherDecision
  BY <1>5 DEF DeleteTransaction, EditTransaction, OtherDecision
<1> QED BY <1>2, <1>3, <1>4, <1>5 DEF Next, EvidenceStep, ClusterStep

LEMMA StepJustified ==
  ASSUME IInv, [Next]_vars, Len(decisions') > Len(decisions),
         decisions'[Len(decisions')].kind = "auto_matched_scored"
  PROVE  ScoredMergeHasReason(Evidence[decisions'[Len(decisions')].observation],
                              transactions[decisions'[Len(decisions')].matched])
<1>1. /\ TypeOK /\ decisions \in Seq(Decision) /\ Len(decisions) \in Nat
      /\ transactions \in Seq(Transaction) /\ Ids = 1..Len(transactions)
  BY LenProperties DEF IInv, TypeOK, Ids
<1>2. decisions' # decisions
  BY <1>1
<1>3. ASSUME NEW o \in Observations, NEW t \in Nat, NEW kind, Decide(o, t, kind)
      PROVE  decisions'[Len(decisions')] = [observation |-> o, matched |-> t, kind |-> kind]
  <2> DEFINE d == [observation |-> o, matched |-> t, kind |-> kind]
  <2>1. decisions \in Seq(Decision \cup {d}) /\ decisions' = Append(decisions, d)
    BY <1>1, <1>3, SeqMonotonic DEF Decide
  <2> HIDE DEF d
  <2>2. Len(decisions') = Len(decisions) + 1 /\ decisions'[Len(decisions) + 1] = d
    BY <2>1, AppendProperties
  <2> QED BY <2>2 DEF d
<1>4. ~OtherDecision
  <2>1. ASSUME NEW o \in Observations, NEW t \in Nat,
               NEW kind \in {"auto_matched_exact", "new_canonical",
                             "ambiguous_pending", "manually_confirmed"},
               Decide(o, t, kind)
        PROVE  FALSE
    <3>1. decisions'[Len(decisions')] = [observation |-> o, matched |-> t, kind |-> kind]
      BY <1>3, <2>1
    <3>2. decisions'[Len(decisions')].kind = kind
      BY <3>1
    <3> QED BY <3>2
  <2> QED BY <1>2, <2>1 DEF OtherDecision
<1>5. Next
  BY <1>2 DEF vars
<1>6. PICK o \in Observations :
        \E t \in Winners(Evidence[o]) : Decide(o, t, "auto_matched_scored")
  BY <1>4, <1>5, NextDecides DEF ScoredDecision
<1>7. PICK t \in Winners(Evidence[o]) : Decide(o, t, "auto_matched_scored")
  BY <1>6
<1>8. /\ t \in Ids /\ Score(Evidence[o], transactions[t]) >= ViabilityFloor
  BY <1>7 DEF Winners, Viable, Candidates, Live
<1>9. Evidence[o] \in EvidenceType /\ transactions[t] \in Transaction /\ t \in Nat
  BY <1>1, <1>8, LedgerAssumption, ElementOfSeq
<1>10. ScoredMergeHasReason(Evidence[o], transactions[t])
  BY <1>8, <1>9, ViableHasReason
<1>11. decisions'[Len(decisions')].observation = o /\ decisions'[Len(decisions')].matched = t
  <2>1. decisions'[Len(decisions')] =
          [observation |-> o, matched |-> t, kind |-> "auto_matched_scored"]
    BY <1>3, <1>7, <1>9
  <2> QED BY <2>1
<1> QED BY <1>10, <1>11

(* A merge by score always has a reason beyond amount and time, for every  *)
(* similarity measure and every set of references (scorer.rs, engine.rs).  *)
THEOREM ScoredMergesJustified == Spec => ScoredMergesAreJustified
<1>1. IInv /\ [Next]_vars =>
        [Len(decisions') > Len(decisions) =>
           LET d == decisions'[Len(decisions')] IN
           d.kind = "auto_matched_scored" =>
             ScoredMergeHasReason(Evidence[d.observation], transactions[d.matched])]_vars
  BY StepJustified
<1> QED BY <1>1, Invariance, PTL DEF Spec, ScoredMergesAreJustified
=============================================================================
