------------------------ MODULE LedgerHistoryProofs ------------------------
(***************************************************************************)
(* Proofs about what the ledger remembers: where its rows come from, which *)
(* sources they name, what a refund points at and what the decision log    *)
(* explains.                                                               *)
(***************************************************************************)
EXTENDS ReconciliationProofs

-----------------------------------------------------------------------------
(* What a merge and the post-processing after it leave of the rows.        *)

(* Everything a row says but its name, its refund link and a later refund. *)
Undisturbed(a, b) ==
  /\ SameFacts(a, b) /\ a.mix = b.mix
  /\ a.reference = b.reference /\ a.merchant = b.merchant /\ a.deleted = b.deleted
  /\ a.status = "refunded" => b.status = "refunded"

(* The rows before and after post-processing row t for the evidence e.     *)
Processed(old, new, t, e) ==
  /\ new \in Seq(Transaction) /\ Len(new) = Len(old)
  /\ \A i \in DOMAIN old :
       /\ Undisturbed(old[i], new[i])
       /\ \/ new[i].parent = old[i].parent
          \/ i = t /\ e.direction = "credit" /\ new[i].parent \in Reversible(old, e)

Marked(old, new, t) ==
  new[t].parent = old[t].parent \/ new[new[t].parent].status = "refunded"

LEMMA UndisturbedTransitive ==
  ASSUME NEW a, NEW b, NEW c, Undisturbed(a, b), Undisturbed(b, c)
  PROVE  Undisturbed(a, c)
  BY DEF Undisturbed, SameFacts

(* Linking a refund touches the link of one row.                           *)
LEMMA LinkRefund ==
  ASSUME NEW rows \in Seq(Transaction), NEW t \in DOMAIN rows, NEW e \in EvidenceType,
         e.direction = "credit", NEW d \in Reversible(rows, e),
         NEW new, new = [rows EXCEPT ![t].parent = d]
  PROVE  /\ Processed(rows, new, t, e) /\ new[t].parent = d
         /\ \A i \in DOMAIN rows : new[i].status = rows[i].status
<1> DEFINE child == [rows[t] EXCEPT !.parent = d]
<1>1. /\ rows[t] \in Transaction /\ DOMAIN rows = 1..Len(rows) /\ Len(rows) \in Nat
      /\ d \in DOMAIN rows
  BY ElementOfSeq, LenProperties DEF Reversible
<1> d \in Nat
  BY <1>1
<1>2. /\ child \in Transaction /\ Undisturbed(rows[t], child)
      /\ child.parent = d /\ child.status = rows[t].status
  BY <1>1 DEF Transaction, Undisturbed, SameFacts
<1>3. new = [rows EXCEPT ![t] = child]
  OBVIOUS
<1> HIDE DEF child
<1>4. new \in Seq(Transaction) /\ Len(new) = Len(rows)
  BY <1>1, <1>2, <1>3, ExceptSeq
<1>5. \A i \in DOMAIN rows : new[i] = IF i = t THEN child ELSE rows[i]
  BY <1>3
<1>6. \A i \in DOMAIN rows : Undisturbed(rows[i], rows[i])
  BY DEF Undisturbed, SameFacts
<1> QED BY <1>2, <1>4, <1>5, <1>6 DEF Processed

LEMMA PostProcessedEffect ==
  ASSUME NEW rows \in Seq(Transaction), NEW t \in DOMAIN rows, NEW e \in EvidenceType,
         rows[t].direction = e.direction, NEW new \in PostProcessed(rows, t, e)
  PROVE  Processed(rows, new, t, e) /\ Marked(rows, new, t)
<1>1. rows[t] \in Transaction /\ DOMAIN rows = 1..Len(rows) /\ Len(rows) \in Nat
  BY ElementOfSeq, LenProperties
<1>2. \A i \in DOMAIN rows : Undisturbed(rows[i], rows[i])
  BY DEF Undisturbed, SameFacts
<1>3. CASE e.direction = "debit"
  <2> DEFINE row == [rows[t] EXCEPT !.name = Coalesce(NormalName(e), @)]
  <2>1. NormalName(e) \in Merchants \cup {None}
    BY ScoringAssumption DEF NormalName, EvidenceType
  <2>2. row \in Transaction /\ Undisturbed(rows[t], row) /\ row.parent = rows[t].parent
    BY <1>1, <2>1 DEF Coalesce, Transaction, Undisturbed, SameFacts
  <2>3. new = [rows EXCEPT ![t] = row]
    BY <1>3 DEF PostProcessed
  <2> HIDE DEF row
  <2>4. new \in Seq(Transaction) /\ Len(new) = Len(rows)
    BY <1>1, <2>2, <2>3, ExceptSeq
  <2>5. \A i \in DOMAIN rows : new[i] = IF i = t THEN row ELSE rows[i]
    BY <2>3
  <2> QED BY <1>2, <2>2, <2>4, <2>5 DEF Processed, Marked
<1>4. CASE e.direction # "debit" /\ Reversible(rows, e) = {}
  BY <1>2, <1>4 DEF PostProcessed, Processed, Marked
<1>5. CASE e.direction # "debit" /\ Reversible(rows, e) # {}
  <2>1. PICK d \in Reversible(rows, e) :
          new = [rows EXCEPT ![t].parent = d, ![d].status = "refunded"]
    BY <1>5 DEF PostProcessed, Latest
  <2>2. e.direction = "credit" /\ d \in DOMAIN rows /\ rows[d].direction = "debit" /\ d # t
    BY <1>5, <2>1 DEF EvidenceType, Reversible
  <2> DEFINE mid   == [rows EXCEPT ![t].parent = d]
             debit == [mid[d] EXCEPT !.status = "refunded"]
  <2>3. Processed(rows, mid, t, e) /\ mid[t].parent = d
    BY <2>2, LinkRefund
  <2>4. new = [mid EXCEPT ![d] = debit]
    BY <2>1
  <2> HIDE DEF mid
  <2>5. mid \in Seq(Transaction) /\ Len(mid) = Len(rows) /\ DOMAIN mid = DOMAIN rows
    BY <1>1, <2>3, LenProperties DEF Processed
  <2>6. mid[d] \in Transaction
    BY <2>2, <2>5, ElementOfSeq
  <2>7. /\ debit \in Transaction /\ Undisturbed(mid[d], debit)
        /\ debit.parent = mid[d].parent /\ debit.status = "refunded"
    BY <2>6 DEF Transaction, Undisturbed, SameFacts
  <2> HIDE DEF debit
  <2>8. new \in Seq(Transaction) /\ Len(new) = Len(rows)
    BY <2>2, <2>4, <2>5, <2>7, ExceptSeq
  <2>9. \A i \in DOMAIN rows : new[i] = IF i = d THEN debit ELSE mid[i]
    BY <2>4, <2>5
  <2>10. \A i \in DOMAIN rows : Undisturbed(rows[i], new[i]) /\ new[i].parent = mid[i].parent
    <3>1. Undisturbed(rows[d], debit)
      BY <2>2, <2>3, <2>7, UndisturbedTransitive DEF Processed
    <3> QED BY <2>3, <2>7, <2>9, <3>1 DEF Processed
  <2>11. Processed(rows, new, t, e)
    BY <2>3, <2>8, <2>10 DEF Processed
  <2>12. new[t].parent = d /\ new[d].status = "refunded"
    BY <2>2, <2>3, <2>7, <2>9
  <2> QED BY <2>11, <2>12 DEF Marked
<1> QED BY <1>3, <1>4, <1>5

LEMMA CutShortEffect ==
  ASSUME NEW rows \in Seq(Transaction), NEW t \in DOMAIN rows, NEW e \in EvidenceType,
         rows[t].direction = e.direction, NEW new \in CutShort(rows, t, e)
  PROVE  Processed(rows, new, t, e)
<1>1. CASE new = rows
  BY <1>1 DEF Processed, Undisturbed, SameFacts
<1>2. CASE new \in PostProcessed(rows, t, e)
  BY <1>2, PostProcessedEffect
<1>3. CASE /\ e.direction = "credit"
           /\ \E d \in Reversible(rows, e) : new = [rows EXCEPT ![t].parent = d]
  BY <1>3, LinkRefund
<1> QED BY <1>1, <1>2, <1>3 DEF CutShort, Latest

-----------------------------------------------------------------------------
(* Every step of the engine and of the review panel is about one piece of  *)
(* evidence: no other observation is linked, settled, asked about first or *)
(* named by the decision it logs.                                          *)

Opens(d, s) ==
  \/ Subject(d)' = s
  \/ d \in DOMAIN clusters /\ Subject(d)' = Subject(d) /\ clusters'[d].status = clusters[d].status

About(s) ==
  /\ \A p \in Observations \ {s} : link'[p] = link[p] /\ intake'[p] = intake[p]
  /\ \A d \in DOMAIN clusters' : Opens(d, s)
  /\ \/ UNCHANGED decisions
     \/ \E t \in Nat, kind \in {"auto_matched_exact", "auto_matched_scored", "new_canonical",
                                "ambiguous_pending", "manually_confirmed"} : Decide(s, t, kind)

LEMMA UnchangedClustersOpen ==
  ASSUME UNCHANGED clusters, NEW s
  PROVE  \A d \in DOMAIN clusters' : Opens(d, s)
  BY DEF Opens, Subject

LEMMA CloseOpens ==
  ASSUME TypeOK, NEW c \in DOMAIN clusters, NEW status, Close(c, status)
  PROVE  /\ DOMAIN clusters' = DOMAIN clusters
         /\ \A d \in DOMAIN clusters : /\ clusters'[d].incoming = clusters[d].incoming
                                       /\ clusters'[d].candidates = clusters[d].candidates
                                       /\ d # c => clusters'[d] = clusters[d]
         /\ clusters'[c].status = status
         /\ \A d \in DOMAIN clusters' : Opens(d, Subject(c))
<1> DEFINE row == [clusters[c] EXCEPT !.status = status]
<1>1. clusters[c] \in Cluster
  BY ElementOfSeq DEF TypeOK
<1>2. /\ row.incoming = clusters[c].incoming /\ row.status = status
      /\ row.candidates = clusters[c].candidates
  BY <1>1 DEF Cluster
<1>3. clusters' = [clusters EXCEPT ![c] = row]
  BY DEF Close
<1> HIDE DEF row
<1>4. \A d \in DOMAIN clusters : clusters'[d] = IF d = c THEN row ELSE clusters[d]
  BY <1>3
<1> QED BY <1>2, <1>3, <1>4 DEF Opens, Subject

LEMMA RaiseAmbiguityOpens ==
  ASSUME TypeOK, RowsExist, NEW o \in Observations, RaiseAmbiguity(o)
  PROVE  /\ \A d \in DOMAIN clusters' : Opens(d, o)
         /\ \A d \in DOMAIN clusters' \ DOMAIN clusters : d = Len(clusters) + 1 /\ Subject(d)' = o
         /\ \A d \in DOMAIN clusters' \ DOMAIN clusters :
              clusters'[d].candidates = Viable(Evidence[o])
         /\ \A d \in DOMAIN clusters : /\ d \in DOMAIN clusters' /\ Subject(d)' = Subject(d)
                                       /\ clusters'[d].candidates = clusters[d].candidates
         /\ \A p \in Observations : Asked(p)' => Asked(p) \/ p = o
<1>1. clusters \in Seq(Cluster)
  BY DEF TypeOK
<1>2. CASE OverlappingOpen(Evidence[o]) # {}
  <2>1. PICK c \in DOMAIN clusters : clusters' = [clusters EXCEPT ![c].incoming = Append(@, o)]
    BY <1>2 DEF RaiseAmbiguity, OverlappingOpen
  <2> DEFINE old == clusters[c]
             row == [old EXCEPT !.incoming = Append(@, o)]
  <2>2. old \in Cluster /\ old.incoming # <<>>
    BY <1>1, ElementOfSeq DEF RowsExist, GoodClusters
  <2>3. old.incoming \in Seq(Observations)
    BY <2>2 DEF Cluster
  <2>4. /\ row.incoming = Append(old.incoming, o) /\ row.status = old.status
        /\ row.candidates = old.candidates
        /\ row.incoming[1] = old.incoming[1]
        /\ \A i \in DOMAIN row.incoming :
             \/ row.incoming[i] = o
             \/ i \in DOMAIN old.incoming /\ row.incoming[i] = old.incoming[i]
    <3>1. 1 \in DOMAIN old.incoming
      BY <2>2, <2>3, EmptySeq, LenProperties
    <3>2. /\ row.incoming = Append(old.incoming, o) /\ row.status = old.status
          /\ row.candidates = old.candidates
      BY <2>2 DEF Cluster
    <3> HIDE DEF row, old
    <3>3. /\ Len(Append(old.incoming, o)) = Len(old.incoming) + 1
          /\ DOMAIN Append(old.incoming, o) = 1..(Len(old.incoming) + 1)
          /\ DOMAIN old.incoming = 1..Len(old.incoming) /\ Len(old.incoming) \in Nat
          /\ \A i \in DOMAIN old.incoming : Append(old.incoming, o)[i] = old.incoming[i]
          /\ Append(old.incoming, o)[Len(old.incoming) + 1] = o
      BY <2>3, AppendProperties, LenProperties
    <3>4. row.incoming[1] = old.incoming[1]
      BY <3>1, <3>2, <3>3
    <3>5. ASSUME NEW i \in DOMAIN row.incoming
          PROVE  \/ row.incoming[i] = o
                 \/ i \in DOMAIN old.incoming /\ row.incoming[i] = old.incoming[i]
      <4>1. i \in 1..(Len(old.incoming) + 1)
        BY <3>2, <3>3
      <4>2. i = Len(old.incoming) + 1 \/ i \in DOMAIN old.incoming
        BY <3>3, <4>1
      <4>3. CASE i = Len(old.incoming) + 1
        BY <3>2, <3>3, <4>3
      <4>4. CASE i \in DOMAIN old.incoming
        BY <3>2, <3>3, <4>4
      <4> QED BY <4>2, <4>3, <4>4
    <3> QED BY <3>2, <3>4, <3>5
  <2>5. clusters' = [clusters EXCEPT ![c] = row]
    BY <2>1
  <2> HIDE DEF row
  <2>6. \A d \in DOMAIN clusters : clusters'[d] = IF d = c THEN row ELSE clusters[d]
    BY <2>5
  <2>7. DOMAIN clusters' = DOMAIN clusters
    BY <2>5
  <2>8. \A d \in DOMAIN clusters : /\ Subject(d)' = Subject(d)
                                    /\ clusters'[d].status = clusters[d].status
                                    /\ clusters'[d].candidates = clusters[d].candidates
    BY <2>4, <2>6 DEF Subject
  <2>9. \A p \in Observations : Asked(p)' => Asked(p) \/ p = o
    BY <2>4, <2>6, <2>7 DEF Asked
  <2> QED BY <2>7, <2>8, <2>9 DEF Opens
<1>3. CASE OverlappingOpen(Evidence[o]) = {}
  <2> DEFINE row == [status |-> "open", incoming |-> <<o>>, candidates |-> Viable(Evidence[o])]
  <2>1. /\ clusters' = Append(clusters, row) /\ row.incoming = <<o>>
        /\ row.candidates = Viable(Evidence[o])
    BY <1>3 DEF RaiseAmbiguity
  <2>2. row \in Cluster
    <3>1. Ids = 1..Len(transactions) /\ Len(transactions) \in Nat
      BY LenProperties DEF Ids, TypeOK
    <3>2. Viable(Evidence[o]) \subseteq Nat
      BY <3>1 DEF Viable, Candidates, Live
    <3> QED BY <3>2 DEF Cluster
  <2> HIDE DEF row
  <2>3. /\ \A d \in DOMAIN clusters : d \in DOMAIN clusters' /\ clusters'[d] = clusters[d]
        /\ \A d \in DOMAIN clusters' :
             \/ d \in DOMAIN clusters
             \/ d = Len(clusters) + 1 /\ clusters'[d] = row
    BY <1>1, <2>1, <2>2, AppendProperties
  <2>4. \A p \in Observations : Asked(p)' => Asked(p) \/ p = o
    BY <2>1, <2>3 DEF Asked
  <2> QED BY <2>1, <2>3, <2>4 DEF Opens, Subject
<1> QED BY <1>2, <1>3

LEMMA ReconcileAbout ==
  ASSUME TypeOK, RowsExist, NEW o \in Observations, Reconcile(o),
         \A p \in Observations \ {o} : intake'[p] = intake[p]
  PROVE  About(o)
<1>1. \A t \in FingerprintHits(o) : t \in Nat
  BY DEF FingerprintHits, TypeOK
<1>2. \A t \in Winners(Evidence[o]) : t \in Nat
  <2>1. Ids \subseteq Nat
    BY LenProperties DEF Ids, TypeOK
  <2> QED BY <2>1 DEF Winners, Viable, Candidates, Live
<1>3. ASSUME NEW t \in Nat, NEW kind \in {"auto_matched_exact", "auto_matched_scored"},
             MergeInto(o, t, kind)
      PROVE  About(o)
  BY <1>3, UnchangedClustersOpen DEF MergeInto, About, TypeOK
<1>4. ASSUME NewCanonical(o) PROVE About(o)
  BY <1>4, UnchangedClustersOpen DEF NewCanonical, CreateCanonical, About, TypeOK
<1>5. ASSUME RaiseAmbiguity(o) PROVE About(o)
  BY <1>5, RaiseAmbiguityOpens DEF RaiseAmbiguity, About
<1> QED BY <1>1, <1>2, <1>3, <1>4, <1>5 DEF Reconcile

(* What a verdict about cluster c does: nothing but what is about its      *)
(* subject.                                                                *)
Judges(c) ==
  \/ \E t \in clusters[c].candidates, done \in 1..3 : ConfirmMatch(c, t, done)
  \/ \E done \in 1..2 : RejectCandidate(c, done)
  \/ \E done \in 1..4 : KeepSeparate(c, done)
  \/ MarkUnresolved(c) \/ Unmerge(c)

LEMMA JudgesAbout ==
  ASSUME IInv, NEW c \in DOMAIN clusters, Judges(c)
  PROVE  About(Subject(c)) /\ UNCHANGED <<intake, corrections>> /\ \E status : Close(c, status)
<1>1. TypeOK /\ Subject(c) \in Observations
  BY SubjectAsked DEF IInv
<1>2. clusters[c].candidates \subseteq Nat
  <2>1. clusters[c] \in Cluster
    BY <1>1, ElementOfSeq DEF TypeOK
  <2> QED BY <2>1 DEF Cluster
<1>3. /\ \E status : Close(c, status)
      /\ UNCHANGED <<intake, corrections>>
      /\ link' = link \/ \E t : link' = [link EXCEPT ![Subject(c)] = t]
      /\ UNCHANGED decisions \/ \E t \in Nat : Decide(Subject(c), t, "manually_confirmed")
  BY <1>2 DEF Judges, ConfirmMatch, RejectCandidate, KeepSeparate, MarkUnresolved, Unmerge
<1>4. \A d \in DOMAIN clusters' : Opens(d, Subject(c))
  BY <1>1, <1>3, CloseOpens
<1>5. \A p \in Observations \ {Subject(c)} : link'[p] = link[p] /\ intake'[p] = intake[p]
  BY <1>1, <1>3 DEF TypeOK
<1> QED BY <1>3, <1>4, <1>5 DEF About

LEMMA NextCases ==
  ASSUME Next
  PROVE  \/ \E o \in Observations : \/ Ingest(o) \/ Hold(o) \/ SettleHeld(o)
                                    \/ \E crash \in BOOLEAN : ReconcileHeld(o, crash)
         \/ \E c \in DOMAIN clusters : Judges(c)
         \/ \E t \in Ids : DeleteTransaction(t) \/ EditTransaction(t)
  BY DEF Next, EvidenceStep, ClusterStep, Judges

-----------------------------------------------------------------------------
(* The decision log.                                                       *)

Explains(d, o, t) ==
  /\ d.observation = o
  /\ \/ d.matched = t
     \/ d.kind \in {"new_canonical", "manually_confirmed"} /\ d.matched = 0

LEMMA DecideAppends ==
  ASSUME TypeOK, NEW o \in Observations, NEW t \in Nat,
         NEW kind \in {"auto_matched_exact", "auto_matched_scored", "new_canonical",
                       "ambiguous_pending", "manually_confirmed"},
         Decide(o, t, kind)
  PROVE  /\ DOMAIN decisions = 1..Len(decisions) /\ Len(decisions) \in Nat
         /\ DOMAIN decisions' = 1..(Len(decisions) + 1)
         /\ \A i \in DOMAIN decisions : decisions'[i] = decisions[i]
         /\ decisions'[Len(decisions) + 1] = [observation |-> o, matched |-> t, kind |-> kind]
<1> DEFINE d == [observation |-> o, matched |-> t, kind |-> kind]
<1>1. d \in Decision /\ decisions \in Seq(Decision) /\ decisions' = Append(decisions, d)
  BY DEF TypeOK, Decide, Decision
<1> HIDE DEF d
<1>2. /\ DOMAIN decisions = 1..Len(decisions) /\ Len(decisions) \in Nat
      /\ DOMAIN decisions' = 1..(Len(decisions) + 1)
      /\ \A i \in DOMAIN decisions : decisions'[i] = decisions[i]
      /\ decisions'[Len(decisions) + 1] = d
  BY <1>1, AppendProperties, LenProperties
<1> QED BY <1>2 DEF d

LEMMA LogGrows ==
  ASSUME IInv, [Next]_vars
  PROVE  \A i \in DOMAIN decisions : i \in DOMAIN decisions' /\ decisions'[i] = decisions[i]
<1>1. TypeOK /\ RowsExist
  BY DEF IInv
<1>2. ASSUME NEW s \in Observations, About(s)
      PROVE  \A i \in DOMAIN decisions : i \in DOMAIN decisions' /\ decisions'[i] = decisions[i]
  <2>1. CASE UNCHANGED decisions
    BY <2>1
  <2>2. ASSUME NEW t \in Nat,
               NEW kind \in {"auto_matched_exact", "auto_matched_scored", "new_canonical",
                             "ambiguous_pending", "manually_confirmed"},
               Decide(s, t, kind)
        PROVE  \A i \in DOMAIN decisions : i \in DOMAIN decisions' /\ decisions'[i] = decisions[i]
    <3>1. /\ DOMAIN decisions = 1..Len(decisions) /\ Len(decisions) \in Nat
          /\ DOMAIN decisions' = 1..(Len(decisions) + 1)
          /\ \A i \in DOMAIN decisions : decisions'[i] = decisions[i]
      BY <1>1, <2>2, DecideAppends
    <3> QED BY <3>1
  <2> QED BY <1>2, <2>1, <2>2 DEF About
<1>3. ASSUME NEW o \in Observations, Ingest(o) \/ \E crash \in BOOLEAN : ReconcileHeld(o, crash)
      PROVE  About(o)
  <2>1. Reconcile(o) /\ \A p \in Observations \ {o} : intake'[p] = intake[p]
    BY <1>1, <1>3 DEF Ingest, ReconcileHeld, TypeOK
  <2> QED BY <1>1, <2>1, ReconcileAbout
<1>4. ASSUME NEW c \in DOMAIN clusters, Judges(c)
      PROVE  Subject(c) \in Observations /\ About(Subject(c))
  BY <1>4, JudgesAbout, SubjectAsked
<1>5. CASE UNCHANGED decisions
  BY <1>5
<1>6. CASE Next
  BY <1>2, <1>3, <1>4, <1>5, <1>6, NextCases DEF Hold, SettleHeld, DeleteTransaction, EditTransaction
<1> QED BY <1>5, <1>6 DEF vars

(* A step without a crash that links an observation logs why.              *)
LEMMA LinkLogged ==
  ASSUME IInv, [Next]_vars, crashes' = 0, NEW o \in Observations, link'[o] # link[o]
  PROVE  \E i \in DOMAIN decisions' : Explains(decisions'[i], o, link'[o])
<1>1. /\ TypeOK /\ RowsExist /\ crashes \in Nat /\ link \in [Observations -> Nat]
      /\ Len(transactions) \in Nat /\ Ids \subseteq Nat
  BY LenProperties DEF IInv, TypeOK, Ids
<1>2. ASSUME NEW t \in Nat, NEW u \in Nat,
             NEW kind \in {"auto_matched_exact", "auto_matched_scored", "new_canonical",
                           "manually_confirmed"},
             Decide(o, u, kind), link' = [link EXCEPT ![o] = t],
             u = t \/ (u = 0 /\ kind \in {"new_canonical", "manually_confirmed"})
      PROVE  \E i \in DOMAIN decisions' : Explains(decisions'[i], o, link'[o])
  <2> DEFINE last == Len(decisions) + 1
  <2>1. /\ last \in DOMAIN decisions'
        /\ decisions'[last] = [observation |-> o, matched |-> u, kind |-> kind]
    <3>1. kind \in {"auto_matched_exact", "auto_matched_scored", "new_canonical",
                    "ambiguous_pending", "manually_confirmed"}
      OBVIOUS
    <3>2. /\ DOMAIN decisions' = 1..(Len(decisions) + 1) /\ Len(decisions) \in Nat
          /\ decisions'[Len(decisions) + 1] = [observation |-> o, matched |-> u, kind |-> kind]
      BY <1>1, <1>2, <3>1, DecideAppends
    <3> QED BY <3>2
  <2> HIDE DEF last
  <2>2. link'[o] = t
    BY <1>1, <1>2
  <2>3. Explains(decisions'[last], o, link'[o])
    <3>1. /\ decisions'[last].observation = o /\ decisions'[last].matched = u
          /\ decisions'[last].kind = kind
      BY <2>1
    <3>2. CASE u = t
      BY <2>2, <3>1, <3>2 DEF Explains
    <3>3. CASE u = 0 /\ kind \in {"new_canonical", "manually_confirmed"}
      BY <3>1, <3>3 DEF Explains
    <3> QED BY <1>2, <3>2, <3>3
  <2> QED BY <2>1, <2>3
<1>3. ASSUME NEW p \in Observations, Ingest(p) \/ \E crash \in BOOLEAN : ReconcileHeld(p, crash)
      PROVE  \E i \in DOMAIN decisions' : Explains(decisions'[i], o, link'[o])
  <2>1. Reconcile(p)
    BY <1>3 DEF Ingest, ReconcileHeld
  <2>2. \A t \in FingerprintHits(p) \cup Winners(Evidence[p]) : t \in Nat
    BY <1>1 DEF FingerprintHits, Winners, Viable, Candidates, Live
  <2>3. CASE \E t \in FingerprintHits(p) : MergeInto(p, t, "auto_matched_exact")
    <3>1. PICK t \in FingerprintHits(p) : MergeInto(p, t, "auto_matched_exact")
      BY <2>3
    <3>2. link' = [link EXCEPT ![p] = t] /\ Decide(p, t, "auto_matched_exact")
      BY <3>1 DEF MergeInto
    <3>3. p = o
      BY <1>1, <3>2
    <3> QED BY <1>2, <2>2, <3>2, <3>3
  <2>4. CASE \E t \in Winners(Evidence[p]) : MergeInto(p, t, "auto_matched_scored")
    <3>1. PICK t \in Winners(Evidence[p]) : MergeInto(p, t, "auto_matched_scored")
      BY <2>4
    <3>2. link' = [link EXCEPT ![p] = t] /\ Decide(p, t, "auto_matched_scored")
      BY <3>1 DEF MergeInto
    <3>3. p = o
      BY <1>1, <3>2
    <3> QED BY <1>2, <2>2, <3>2, <3>3
  <2>5. CASE NewCanonical(p)
    <3>1. link' = [link EXCEPT ![p] = NextId] /\ Decide(p, 0, "new_canonical") /\ NextId \in Nat
      BY <1>1, <2>5 DEF NewCanonical, CreateCanonical, NextId
    <3>2. p = o
      BY <1>1, <3>1
    <3> QED BY <1>2, <3>1, <3>2
  <2>6. CASE RaiseAmbiguity(p)
    BY <2>6 DEF RaiseAmbiguity
  <2> QED BY <2>1, <2>3, <2>4, <2>5, <2>6 DEF Reconcile
<1>4. ASSUME NEW c \in DOMAIN clusters, Judges(c)
      PROVE  \E i \in DOMAIN decisions' : Explains(decisions'[i], o, link'[o])
  <2>1. CASE \E t \in clusters[c].candidates, done \in 1..3 : ConfirmMatch(c, t, done)
    <3>1. PICK t \in clusters[c].candidates, done \in 1..3 : ConfirmMatch(c, t, done)
      BY <2>1
    <3>2. done = 3 /\ t \in Nat
      <4>1. clusters[c].candidates \subseteq 1..Len(transactions)
        BY <1>1 DEF RowsExist, GoodClusters
      <4>2. done < 3 => crashes' = crashes + 1
        BY <3>1 DEF ConfirmMatch, Interrupted
      <4> QED BY <1>1, <4>1, <4>2
    <3>3. link' = [link EXCEPT ![Subject(c)] = t] /\ Decide(Subject(c), t, "manually_confirmed")
      BY <3>1, <3>2 DEF ConfirmMatch
    <3>4. Subject(c) = o
      BY <1>1, <3>3
    <3> QED BY <1>2, <3>2, <3>3, <3>4
  <2>2. CASE \E done \in 1..4 : KeepSeparate(c, done)
    <3>1. PICK done \in 1..4 : KeepSeparate(c, done)
      BY <2>2
    <3>2. done = 4
      <4>1. done < 4 => crashes' = crashes + 1
        BY <3>1 DEF KeepSeparate, Interrupted
      <4> QED BY <1>1, <4>1
    <3>3. link' = [link EXCEPT ![Subject(c)] = NextId] /\ Decide(Subject(c), 0, "manually_confirmed")
      BY <3>1, <3>2 DEF KeepSeparate
    <3>4. Subject(c) = o /\ NextId \in Nat
      BY <1>1, <3>3 DEF NextId
    <3> QED BY <1>2, <3>3, <3>4
  <2>3. CASE UNCHANGED link
    BY <2>3
  <2> QED BY <1>4, <2>1, <2>2, <2>3 DEF Judges, RejectCandidate, MarkUnresolved, Unmerge
<1>5. CASE UNCHANGED link
  BY <1>5
<1> QED BY <1>3, <1>4, <1>5, NextCases DEF Hold, SettleHeld, DeleteTransaction, EditTransaction, vars

LEMMA CrashesGrow ==
  ASSUME IInv, [Next]_vars
  PROVE  crashes' = 0 => crashes = 0
<1>1. crashes \in Nat
  BY DEF IInv, TypeOK
<1>2. ASSUME NEW o \in Observations, NEW crash \in BOOLEAN,
             Ingest(o) \/ Hold(o) \/ SettleHeld(o) \/ ReconcileHeld(o, crash)
      PROVE  crashes' = 0 => crashes = 0
  BY <1>1, <1>2 DEF Ingest, Hold, SettleHeld, ReconcileHeld
<1>3. ASSUME NEW c \in DOMAIN clusters, Judges(c) PROVE crashes' = 0 => crashes = 0
  <2>1. ASSUME NEW done, NEW last, Interrupted(done, last) PROVE crashes' = 0 => crashes = 0
    BY <1>1, <2>1 DEF Interrupted
  <2>2. CASE MarkUnresolved(c) \/ Unmerge(c)
    BY <2>2 DEF MarkUnresolved, Unmerge
  <2> QED BY <1>3, <2>1, <2>2 DEF Judges, ConfirmMatch, RejectCandidate, KeepSeparate
<1>4. ASSUME NEW t \in Ids, DeleteTransaction(t) \/ EditTransaction(t) PROVE crashes' = crashes
  BY <1>4 DEF DeleteTransaction, EditTransaction
<1>5. CASE Next
  BY <1>2, <1>3, <1>4, <1>5, NextCases
<1> QED BY <1>5 DEF vars

LEMMA LogStep ==
  ASSUME IInv, LogExplainsEveryLink, [Next]_vars
  PROVE  LogExplainsEveryLink'
<1> SUFFICES ASSUME NEW o \in Observations, crashes' = 0, link'[o] # 0
             PROVE  \E i \in DOMAIN decisions' : Explains(decisions'[i], o, link'[o])
  BY DEF LogExplainsEveryLink, Explains
<1>1. CASE link'[o] = link[o]
  <2>1. PICK i \in DOMAIN decisions : Explains(decisions[i], o, link[o])
    <3>1. crashes = 0 /\ link[o] # 0
      BY <1>1, CrashesGrow
    <3>2. \E i \in DOMAIN decisions :
            /\ decisions[i].observation = o
            /\ \/ decisions[i].matched = link[o]
               \/ /\ decisions[i].kind \in {"new_canonical", "manually_confirmed"}
                  /\ decisions[i].matched = 0
      BY <3>1 DEF LogExplainsEveryLink
    <3>3. PICK i \in DOMAIN decisions :
            /\ decisions[i].observation = o
            /\ \/ decisions[i].matched = link[o]
               \/ /\ decisions[i].kind \in {"new_canonical", "manually_confirmed"}
                  /\ decisions[i].matched = 0
      BY <3>2
    <3>4. Explains(decisions[i], o, link[o])
      BY <3>3 DEF Explains
    <3> QED BY <3>4
  <2>2. i \in DOMAIN decisions' /\ decisions'[i] = decisions[i]
    BY LogGrows
  <2>3. Explains(decisions'[i], o, link'[o])
    BY <1>1, <2>1, <2>2
  <2> QED BY <2>2, <2>3
<1>2. CASE link'[o] # link[o]
  BY <1>2, LinkLogged
<1> QED BY <1>1, <1>2

(* The decision log tells where every link comes from, whatever evidence   *)
(* arrives and however often verdicts are undone (audit.rs, cluster.rs,    *)
(* commands/mod.rs).                                                       *)
THEOREM EveryLinkExplained == Spec => []LogExplainsEveryLink
<1>1. Init => LogExplainsEveryLink
  BY DEF Init, LogExplainsEveryLink
<1>2. IInv /\ LogExplainsEveryLink /\ [Next]_vars => LogExplainsEveryLink'
  BY LogStep
<1> QED BY <1>1, <1>2, Invariance, PTL DEF Spec

-----------------------------------------------------------------------------
(* How a step changes the rows.                                            *)

Via(rows, t, e, whole) ==
  /\ rows \in Seq(Transaction) /\ t \in DOMAIN rows /\ Agrees(e, rows[t])
  /\ Processed(rows, transactions', t, e)
  /\ whole => Marked(rows, transactions', t)

Extended(s) == Append(transactions, NewTransaction(Evidence[s]))

(* A row is added for the evidence s.                                      *)
Adds(s, whole) ==
  Via(Extended(s), NextId, Evidence[s], whole) /\ link' = [link EXCEPT ![s] = NextId]

(* The evidence o is merged into row t.                                    *)
Merges(o, t) ==
  /\ t \in Ids /\ Agrees(Evidence[o], transactions[t]) /\ link' = [link EXCEPT ![o] = t]
  /\ \E row \in Precedence(o, t) :
       /\ row \in Transaction /\ SameFacts(transactions[t], row)
       /\ Via([transactions EXCEPT ![t] = row], t, Evidence[o], TRUE)

LEMMA ExtendedRows ==
  ASSUME TypeOK, NEW s \in Observations
  PROVE  /\ Extended(s) \in Seq(Transaction) /\ DOMAIN Extended(s) = 1..NextId
         /\ Len(Extended(s)) = NextId
         /\ NextId \in Nat \ {0} /\ NextId \notin Ids /\ Ids = 1..Len(transactions)
         /\ Len(transactions) \in Nat /\ DOMAIN Extended(s) = Ids \cup {NextId}
         /\ \A t \in Ids : Extended(s)[t] = transactions[t]
         /\ Extended(s)[NextId] = NewTransaction(Evidence[s])
         /\ Agrees(Evidence[s], NewTransaction(Evidence[s]))
<1> DEFINE row == NewTransaction(Evidence[s])
<1>1. Evidence[s] \in EvidenceType
  BY LedgerAssumption
<1>2. row \in Transaction /\ Agrees(Evidence[s], row)
  BY <1>1, NewTransactionType
<1>3. transactions \in Seq(Transaction) /\ Len(transactions) \in Nat /\ Ids = 1..Len(transactions)
  BY LenProperties DEF TypeOK, Ids
<1> HIDE DEF row
<1>4. /\ Append(transactions, row) \in Seq(Transaction)
      /\ DOMAIN Append(transactions, row) = 1..NextId /\ Len(Append(transactions, row)) = NextId
      /\ \A t \in Ids : Append(transactions, row)[t] = transactions[t]
      /\ Append(transactions, row)[NextId] = row
  BY <1>2, <1>3, AppendProperties, LenProperties DEF NextId
<1>5. NextId \in Nat \ {0} /\ NextId \notin Ids /\ 1..NextId = Ids \cup {NextId}
  BY <1>3 DEF NextId
<1> QED BY <1>2, <1>3, <1>4, <1>5 DEF Extended, row

LEMMA NewRowProcessed ==
  ASSUME TypeOK, NEW s \in Observations
  PROVE  /\ transactions' \in PostProcessed(Extended(s), NextId, Evidence[s]) =>
              Via(Extended(s), NextId, Evidence[s], TRUE)
         /\ transactions' \in CutShort(Extended(s), NextId, Evidence[s]) =>
              Via(Extended(s), NextId, Evidence[s], FALSE)
<1>1. Evidence[s] \in EvidenceType
  BY LedgerAssumption
<1>2. /\ Extended(s) \in Seq(Transaction) /\ NextId \in DOMAIN Extended(s)
      /\ Agrees(Evidence[s], Extended(s)[NextId])
  BY ExtendedRows
<1>3. Extended(s)[NextId].direction = Evidence[s].direction
  BY <1>2 DEF Agrees, SamePayment
<1>4. ASSUME transactions' \in PostProcessed(Extended(s), NextId, Evidence[s])
      PROVE  Via(Extended(s), NextId, Evidence[s], TRUE)
  BY <1>1, <1>2, <1>3, <1>4, PostProcessedEffect DEF Via
<1>5. ASSUME transactions' \in CutShort(Extended(s), NextId, Evidence[s])
      PROVE  Via(Extended(s), NextId, Evidence[s], FALSE)
  BY <1>1, <1>2, <1>3, <1>5, CutShortEffect DEF Via
<1> QED BY <1>4, <1>5

LEMMA MergeRows ==
  ASSUME TypeOK, NEW o \in Observations, NEW t \in Ids, NEW kind,
         Agrees(Evidence[o], transactions[t]), MergeInto(o, t, kind)
  PROVE  Merges(o, t)
<1>1. PICK row \in Precedence(o, t) :
        transactions' \in PostProcessed([transactions EXCEPT ![t] = row], t, Evidence[o])
  BY DEF MergeInto
<1> DEFINE rows == [transactions EXCEPT ![t] = row]
<1>2. Evidence[o] \in EvidenceType
  BY LedgerAssumption
<1>3. row \in Transaction /\ SameFacts(transactions[t], row)
  BY PrecedenceFacts DEF Agrees
<1>4. transactions \in Seq(Transaction) /\ t \in 1..Len(transactions)
  BY LenProperties DEF TypeOK, Ids
<1>5. rows \in Seq(Transaction) /\ t \in DOMAIN rows /\ rows[t] = row
  BY <1>3, <1>4, ExceptSeq
<1>6. Agrees(Evidence[o], row)
  BY <1>3, SameFactsAgree
<1>7. row.direction = Evidence[o].direction
  BY <1>6 DEF Agrees, SamePayment
<1> HIDE DEF rows
<1>8. transactions' \in PostProcessed(rows, t, Evidence[o])
  BY <1>1 DEF rows
<1>9. Via(rows, t, Evidence[o], TRUE)
  BY <1>2, <1>5, <1>6, <1>7, <1>8, PostProcessedEffect DEF Via
<1>10. link' = [link EXCEPT ![o] = t]
  BY DEF MergeInto
<1> QED BY <1>3, <1>9, <1>10 DEF Merges, rows

LEMMA ReconcileRows ==
  ASSUME IInv, NEW o \in Observations, Reconcile(o)
  PROVE  \/ Viable(Evidence[o]) = {} /\ Adds(o, TRUE) /\ UNCHANGED clusters
         \/ (\E t \in Ids : t \in Live /\ Merges(o, t)) /\ UNCHANGED clusters
         \/ RaiseAmbiguity(o)
<1>1. TypeOK /\ transactions \in Seq(Transaction)
  BY DEF IInv, TypeOK
<1>2. ASSUME NEW t \in FingerprintHits(o), ExactHit(o, t), MergeInto(o, t, "auto_matched_exact")
      PROVE  t \in Ids /\ t \in Live /\ Merges(o, t) /\ UNCHANGED clusters
  <2>1. t \in Ids /\ t \in Live
    BY <1>2 DEF ExactHit, Live
  <2>2. Evidence[o].time \in Int /\ transactions[t].time \in Int
    <3>1. Evidence[o] \in EvidenceType /\ transactions[t] \in Transaction
      BY <1>1, <2>1, LedgerAssumption, ElementOfSeq DEF Ids
    <3> QED BY <3>1 DEF EvidenceType, Transaction
  <2>3. Agrees(Evidence[o], transactions[t])
    BY <1>2, <2>2, ScoringAssumption DEF ExactHit, ExactMatch, Agrees, CandidateWindow, Distance
  <2>4. UNCHANGED clusters
    BY <1>2 DEF MergeInto
  <2> QED BY <1>1, <1>2, <2>1, <2>3, <2>4, MergeRows
<1>3. ASSUME NEW t \in Winners(Evidence[o]), MergeInto(o, t, "auto_matched_scored")
      PROVE  t \in Ids /\ t \in Live /\ Merges(o, t) /\ UNCHANGED clusters
  <2>1. t \in Ids /\ t \in Live /\ Agrees(Evidence[o], transactions[t])
    BY <1>3 DEF Winners, Viable, Candidates, Agrees, Live
  <2>2. UNCHANGED clusters
    BY <1>3 DEF MergeInto
  <2> QED BY <1>1, <1>3, <2>1, <2>2, MergeRows
<1>4. ASSUME NewCanonical(o) PROVE Adds(o, TRUE) /\ UNCHANGED clusters
  BY <1>1, <1>4, NewRowProcessed DEF NewCanonical, CreateCanonical, Adds, Extended
<1> QED BY <1>2, <1>3, <1>4 DEF Reconcile

LEMMA JudgesRows ==
  ASSUME IInv, NEW c \in DOMAIN clusters, Judges(c)
  PROVE  \/ /\ UNCHANGED transactions
            /\ \/ link' = link
               \/ \E t \in Ids : /\ t \in clusters[c].candidates
                                 /\ link' = [link EXCEPT ![Subject(c)] = t]
         \/ /\ Via(Extended(Subject(c)), NextId, Evidence[Subject(c)], crashes' = 0)
            /\ link' = link \/ link' = [link EXCEPT ![Subject(c)] = NextId]
            /\ crashes' = 0 => /\ Adds(Subject(c), TRUE) /\ Close(c, "resolved")
                               /\ Decide(Subject(c), 0, "manually_confirmed")
<1> DEFINE s == Subject(c)
<1>1. TypeOK /\ RowsExist /\ s \in Observations /\ crashes \in Nat
  BY SubjectAsked DEF IInv, TypeOK
<1>2. clusters[c].candidates \subseteq Ids
  <2>1. Ids = 1..Len(transactions)
    BY <1>1, LenProperties DEF TypeOK, Ids
  <2> QED BY <1>1, <2>1 DEF RowsExist, GoodClusters
<1>3. ASSUME NEW done \in 1..4, done # 1, KeepSeparate(c, done)
      PROVE  /\ Via(Extended(s), NextId, Evidence[s], crashes' = 0)
             /\ link' = link \/ link' = [link EXCEPT ![s] = NextId]
             /\ crashes' = 0 => /\ Adds(s, TRUE) /\ Close(c, "resolved")
                                /\ Decide(s, 0, "manually_confirmed")
  <2>1. transactions' \in CutShort(Extended(s), NextId, Evidence[s])
    BY <1>3 DEF KeepSeparate, CutShort, Extended
  <2>2. Via(Extended(s), NextId, Evidence[s], FALSE)
    BY <1>1, <2>1, NewRowProcessed
  <2>3. done < 4 => crashes' # 0
    BY <1>1, <1>3 DEF KeepSeparate, Interrupted
  <2>4. CASE done = 4
    <3>1. /\ transactions' \in PostProcessed(Extended(s), NextId, Evidence[s])
          /\ link' = [link EXCEPT ![s] = NextId]
          /\ Close(c, "resolved") /\ Decide(s, 0, "manually_confirmed")
      BY <1>3, <2>4 DEF KeepSeparate, Extended
    <3>2. Via(Extended(s), NextId, Evidence[s], TRUE)
      BY <1>1, <3>1, NewRowProcessed
    <3> QED BY <3>1, <3>2 DEF Adds, Via
  <2>5. CASE done < 4
    <3>1. Via(Extended(s), NextId, Evidence[s], crashes' = 0)
      BY <2>2, <2>3, <2>5 DEF Via
    <3>2. link' = link \/ link' = [link EXCEPT ![s] = NextId]
      BY <1>3 DEF KeepSeparate
    <3> QED BY <2>3, <2>5, <3>1, <3>2
  <2>6. done = 4 \/ done < 4
    OBVIOUS
  <2> QED BY <2>4, <2>5, <2>6
<1>4. ASSUME KeepSeparate(c, 1) PROVE UNCHANGED <<transactions, link>>
  BY <1>4 DEF KeepSeparate
<1>5. ASSUME NEW t \in clusters[c].candidates, NEW done \in 1..3, ConfirmMatch(c, t, done)
      PROVE  UNCHANGED transactions /\ (link' = link \/ link' = [link EXCEPT ![s] = t])
  BY <1>5 DEF ConfirmMatch
<1>6. ASSUME \/ \E done \in 1..2 : RejectCandidate(c, done)
             \/ MarkUnresolved(c) \/ Unmerge(c)
      PROVE  UNCHANGED <<transactions, link>>
  BY <1>6 DEF RejectCandidate, MarkUnresolved, Unmerge
<1> QED BY <1>2, <1>3, <1>4, <1>5, <1>6 DEF Judges

LEMMA EditRows ==
  ASSUME TypeOK, NEW t \in Ids, DeleteTransaction(t) \/ EditTransaction(t)
  PROVE  /\ UNCHANGED <<intake, link, clusters, decisions, crashes>>
         /\ transactions' \in Seq(Transaction) /\ Ids' = Ids
         /\ \A u \in Ids : /\ transactions'[u].mix = transactions[u].mix
                           /\ transactions'[u].parent = transactions[u].parent
                           /\ transactions'[u].status = transactions[u].status
                           /\ u \notin corrections' => SameFacts(transactions[u], transactions'[u])
         /\ corrections \subseteq corrections'
<1> DEFINE old == transactions[t]
<1>1. old \in Transaction /\ transactions \in Seq(Transaction) /\ Ids = 1..Len(transactions)
  BY LenProperties, ElementOfSeq DEF TypeOK, Ids
<1>2. ASSUME NEW row \in Transaction, transactions' = [transactions EXCEPT ![t] = row],
             row.mix = old.mix, row.parent = old.parent, row.status = old.status,
             t \in corrections' \/ SameFacts(old, row), corrections \subseteq corrections',
             UNCHANGED <<intake, link, clusters, decisions, crashes>>
      PROVE  /\ UNCHANGED <<intake, link, clusters, decisions, crashes>>
             /\ transactions' \in Seq(Transaction) /\ Ids' = Ids
             /\ \A u \in Ids : /\ transactions'[u].mix = transactions[u].mix
                               /\ transactions'[u].parent = transactions[u].parent
                               /\ transactions'[u].status = transactions[u].status
                               /\ u \notin corrections' => SameFacts(transactions[u], transactions'[u])
             /\ corrections \subseteq corrections'
  <2>1. transactions' \in Seq(Transaction) /\ Ids' = Ids
    BY <1>1, <1>2, ExceptSeq DEF Ids
  <2>2. \A u \in Ids : transactions'[u] = IF u = t THEN row ELSE transactions[u]
    BY <1>1, <1>2
  <2> QED BY <1>2, <2>1, <2>2 DEF SameFacts
<1>3. CASE DeleteTransaction(t)
  <2> DEFINE row == [old EXCEPT !.deleted = TRUE]
  <2>1. /\ row \in Transaction /\ SameFacts(old, row)
        /\ row.mix = old.mix /\ row.parent = old.parent /\ row.status = old.status
    BY <1>1 DEF Transaction, SameFacts
  <2>2. /\ transactions' = [transactions EXCEPT ![t] = row]
        /\ UNCHANGED <<intake, link, clusters, decisions, crashes>>
        /\ corrections \subseteq corrections'
    BY <1>3 DEF DeleteTransaction
  <2> HIDE DEF row, old
  <2> QED BY <1>2, <2>1, <2>2
<1>4. CASE EditTransaction(t)
  <2>1. \E row \in Transaction : /\ transactions' = [transactions EXCEPT ![t] = row]
                                 /\ row.mix = old.mix /\ row.parent = old.parent
                                 /\ row.status = old.status
    <3>2. \A a \in Amounts : LET row == [old EXCEPT !.amount = a] IN
            /\ row \in Transaction /\ row.mix = old.mix /\ row.parent = old.parent
            /\ row.status = old.status
      BY <1>1 DEF Transaction
    <3>3. \A i \in Instruments : LET row == [old EXCEPT !.instrument = i] IN
            /\ row \in Transaction /\ row.mix = old.mix /\ row.parent = old.parent
            /\ row.status = old.status
      BY <1>1 DEF Transaction
    <3>4. \A d \in {"debit", "credit"} : LET row == [old EXCEPT !.direction = d] IN
            /\ row \in Transaction /\ row.mix = old.mix /\ row.parent = old.parent
            /\ row.status = old.status
      BY <1>1 DEF Transaction
    <3>5. \A o \in Observations : LET row == [old EXCEPT !.time = Evidence[o].time] IN
            /\ row \in Transaction /\ row.mix = old.mix /\ row.parent = old.parent
            /\ row.status = old.status
      BY <1>1, LedgerAssumption DEF Transaction, EvidenceType
    <3>6. \A m \in Merchants :
            LET row == [old EXCEPT !.merchant = m, !.name = Coalesce(Normal[m], @)] IN
            /\ row \in Transaction /\ row.mix = old.mix /\ row.parent = old.parent
            /\ row.status = old.status
      BY <1>1, ScoringAssumption DEF Transaction, Coalesce
    <3>7. CASE \E a \in Amounts : transactions' = [transactions EXCEPT ![t].amount = a]
      BY <3>2, <3>7
    <3>8. CASE \E i \in Instruments : transactions' = [transactions EXCEPT ![t].instrument = i]
      BY <3>3, <3>8
    <3>9. CASE \E d \in {"debit", "credit"} :
                 transactions' = [transactions EXCEPT ![t].direction = d]
      BY <3>4, <3>9
    <3>10. CASE \E o \in Observations :
                  transactions' = [transactions EXCEPT ![t].time = Evidence[o].time]
      BY <3>5, <3>10
    <3>11. CASE \E m \in Merchants : transactions' =
                  [transactions EXCEPT ![t].merchant = m, ![t].name = Coalesce(Normal[m], @)]
      <4>1. PICK m \in Merchants : transactions' =
              [transactions EXCEPT ![t].merchant = m, ![t].name = Coalesce(Normal[m], @)]
        BY <3>11
      <4>2. transactions' = [transactions EXCEPT ![t] =
              [old EXCEPT !.merchant = m, !.name = Coalesce(Normal[m], @)]]
        BY <1>1, <4>1 DEF Transaction
      <4> QED BY <3>6, <4>2
    <3> QED BY <1>4, <3>7, <3>8, <3>9, <3>10, <3>11 DEF EditTransaction
  <2>2. /\ t \in corrections' /\ corrections \subseteq corrections'
        /\ UNCHANGED <<intake, link, clusters, decisions, crashes>>
    BY <1>4 DEF EditTransaction
  <2> HIDE DEF old
  <2> QED BY <1>2, <2>1, <2>2
<1> QED BY <1>3, <1>4

(* The sources a row names after a merge: precedence promotes the mix.     *)
Honest(source, mix) ==
  /\ mix = "email_only" => source # "statement_pdf"
  /\ mix = "statement_only" => source # "gmail_transaction"

LEMMA PrecedenceMix ==
  ASSUME TypeOK, NEW o \in Observations, NEW t \in Ids, NEW row \in Precedence(o, t)
  PROVE  LET mix == transactions[t].mix IN
         /\ Honest(Evidence[o].source, row.mix)
         /\ \/ row.mix = mix
            \/ row.mix = "merged" /\ mix = "email_only" /\ Evidence[o].source = "statement_pdf"
            \/ row.mix = "merged" /\ mix = "statement_only" /\ Evidence[o].source = "gmail_transaction"
<1> DEFINE e == Evidence[o]
           old == transactions[t]
<1>1. old \in Transaction
  BY ElementOfSeq DEF TypeOK, Ids
<1>2. /\ StatementUpdate(old, e).mix = IF old.mix = "email_only" THEN "merged" ELSE old.mix
      /\ EmailBackfill(old, e).mix = IF old.mix = "statement_only" THEN "merged" ELSE old.mix
      /\ EmailOverwrite(old, e).mix = old.mix
  BY <1>1 DEF StatementUpdate, EmailBackfill, EmailOverwrite, Transaction
<1>3. \/ e.source = "statement_pdf" /\ row = StatementUpdate(old, e)
      \/ /\ e.source = "gmail_transaction" /\ old.mix \in {"statement_only", "merged"}
         /\ row = EmailBackfill(old, e)
      \/ /\ e.source = "gmail_transaction" /\ old.mix = "email_only"
         /\ row \in {EmailOverwrite(old, e), old}
      \/ e.source # "statement_pdf" /\ old.mix \notin {"statement_only"} /\ row = old
      \/ e.source \notin {"statement_pdf", "gmail_transaction"} /\ row = old
  BY DEF Precedence
<1> HIDE DEF e, old
<1>4. /\ Honest(e.source, row.mix)
      /\ \/ row.mix = old.mix
         \/ row.mix = "merged" /\ old.mix = "email_only" /\ e.source = "statement_pdf"
         \/ row.mix = "merged" /\ old.mix = "statement_only" /\ e.source = "gmail_transaction"
  BY <1>2, <1>3 DEF Honest
<1> QED BY <1>4 DEF e, old

LEMMA NewMix ==
  ASSUME NEW e \in EvidenceType
  PROVE  LET mix == NewTransaction(e).mix IN
         /\ Honest(e.source, mix) /\ mix # "merged"
         /\ mix = "email_only" <=> e.source = "gmail_transaction"
         /\ mix = "statement_only" <=> e.source = "statement_pdf"
  BY DEF NewTransaction, Honest, EvidenceType, Sources

LEMMA AddsMix ==
  ASSUME TypeOK, NEW s \in Observations, NEW w, Via(Extended(s), NextId, Evidence[s], w)
  PROVE  /\ Ids' = Ids \cup {NextId} /\ Len(transactions') \in Nat
         /\ \A t \in Ids : Undisturbed(transactions[t], transactions'[t])
         /\ transactions'[NextId].mix = NewTransaction(Evidence[s]).mix
<1>1. /\ DOMAIN Extended(s) = Ids \cup {NextId} /\ DOMAIN Extended(s) = 1..NextId
      /\ Len(Extended(s)) = NextId
      /\ NextId \in Nat /\ NextId \notin Ids
      /\ \A t \in Ids : Extended(s)[t] = transactions[t]
      /\ Extended(s)[NextId] = NewTransaction(Evidence[s])
  BY ExtendedRows
<1>2. /\ transactions' \in Seq(Transaction) /\ Len(transactions') = Len(Extended(s))
      /\ \A i \in DOMAIN Extended(s) : Undisturbed(Extended(s)[i], transactions'[i])
  BY DEF Via, Processed
<1>3. DOMAIN transactions' = 1..NextId
  BY <1>1, <1>2, LenProperties
<1> QED BY <1>1, <1>2, <1>3 DEF Undisturbed, Ids

LEMMA MergesMix ==
  ASSUME TypeOK, NEW o \in Observations, NEW t \in Ids, Merges(o, t)
  PROVE  LET mix == transactions[t].mix IN
         /\ Ids' = Ids
         /\ \A u \in Ids \ {t} : Undisturbed(transactions[u], transactions'[u])
         /\ Honest(Evidence[o].source, transactions'[t].mix)
         /\ \/ transactions'[t].mix = mix
            \/ /\ transactions'[t].mix = "merged" /\ mix = "email_only"
               /\ Evidence[o].source = "statement_pdf"
            \/ /\ transactions'[t].mix = "merged" /\ mix = "statement_only"
               /\ Evidence[o].source = "gmail_transaction"
<1>1. PICK row \in Precedence(o, t) :
        Via([transactions EXCEPT ![t] = row], t, Evidence[o], TRUE)
  BY DEF Merges
<1> DEFINE rows == [transactions EXCEPT ![t] = row]
<1>2. \A u \in Ids : rows[u] = IF u = t THEN row ELSE transactions[u]
  BY DEF Ids
<1>3. DOMAIN rows = Ids
  BY DEF Ids
<1> HIDE DEF rows
<1>4. /\ transactions' \in Seq(Transaction) /\ rows \in Seq(Transaction)
      /\ Len(transactions') = Len(rows)
      /\ \A i \in DOMAIN rows : Undisturbed(rows[i], transactions'[i])
  BY <1>1 DEF Via, Processed, rows
<1>5. Ids' = Ids
  BY <1>3, <1>4, LenProperties DEF Ids
<1>6. transactions'[t].mix = row.mix
  BY <1>2, <1>3, <1>4 DEF Undisturbed
<1>7. \A u \in Ids \ {t} : Undisturbed(transactions[u], transactions'[u])
  BY <1>2, <1>3, <1>4
<1>8. LET mix == transactions[t].mix IN
      /\ Honest(Evidence[o].source, row.mix)
      /\ \/ row.mix = mix
         \/ row.mix = "merged" /\ mix = "email_only" /\ Evidence[o].source = "statement_pdf"
         \/ row.mix = "merged" /\ mix = "statement_only" /\ Evidence[o].source = "gmail_transaction"
  BY PrecedenceMix
<1> QED BY <1>5, <1>6, <1>7, <1>8

-----------------------------------------------------------------------------
(* What the engine alone linked to a row never contradicts its source_mix. *)
MixHonest ==
  \A o \in Observations, t \in Ids :
    EngineLinked(o, t) => Honest(Evidence[o].source, transactions[t].mix)

LEMMA MixHonestKept ==
  ASSUME IInv, MixHonest, NEW o \in Observations,
         \A p \in Observations \ {o} : link'[p] = link[p],
         \A p \in Observations : Asked(p) => Asked(p)',
         Ids' \subseteq Ids \cup {NextId},
         \A t \in Ids : transactions'[t].mix \in {transactions[t].mix, "merged"},
         \A t \in Ids' : EngineLinked(o, t)' => Honest(Evidence[o].source, transactions'[t].mix)
  PROVE  MixHonest'
<1> SUFFICES ASSUME NEW p \in Observations, NEW t \in Ids', EngineLinked(p, t)'
             PROVE  Honest(Evidence[p].source, transactions'[t].mix)
  BY DEF MixHonest
<1>1. CASE p = o
  BY <1>1
<1>2. CASE p # o
  <2>1. EngineLinked(p, t)
    BY <1>2 DEF EngineLinked
  <2>2. t \in Ids
    <3>1. link[p] \in 0..Len(transactions) /\ Len(transactions) \in Nat
      BY LenProperties DEF IInv, TypeOK, RowsExist
    <3>2. t # NextId
      BY <2>1, <3>1 DEF EngineLinked, NextId
    <3> QED BY <3>2
  <2>3. Honest(Evidence[p].source, transactions[t].mix)
    BY <2>1, <2>2 DEF MixHonest
  <2> QED BY <2>2, <2>3 DEF Honest
<1> QED BY <1>1, <1>2

LEMMA MixHonestSame ==
  ASSUME IInv, MixHonest, UNCHANGED <<link, clusters>>, Ids' = Ids,
         \A t \in Ids : transactions'[t].mix = transactions[t].mix
  PROVE  MixHonest'
  BY DEF MixHonest, EngineLinked, Asked

LEMMA MixHonestStep ==
  ASSUME IInv, MixHonest, [Next]_vars
  PROVE  MixHonest'
<1>1. /\ TypeOK /\ RowsExist /\ link \in [Observations -> Nat]
      /\ Len(transactions) \in Nat /\ Ids = 1..Len(transactions)
  BY LenProperties DEF IInv, TypeOK, Ids
<1>2. ASSUME NEW o \in Observations, Reconcile(o) PROVE MixHonest'
  <2>1. CASE Adds(o, TRUE) /\ UNCHANGED clusters
    <3>1. link' = [link EXCEPT ![o] = NextId] /\ NextId \in Nat /\ NextId \notin Ids
      BY <1>1, <2>1 DEF Adds, NextId
    <3>2. /\ Ids' = Ids \cup {NextId}
          /\ \A t \in Ids : Undisturbed(transactions[t], transactions'[t])
          /\ transactions'[NextId].mix = NewTransaction(Evidence[o]).mix
      BY <1>1, <2>1, AddsMix DEF Adds
    <3>3. Honest(Evidence[o].source, transactions'[NextId].mix)
      BY <3>2, LedgerAssumption, NewMix
    <3>4. \A p \in Observations : Asked(p) => Asked(p)'
      BY <2>1 DEF Asked
    <3>5. \A t \in Ids' : EngineLinked(o, t)' => t = NextId
      BY <1>1, <3>1 DEF EngineLinked
    <3>6. \A p \in Observations \ {o} : link'[p] = link[p]
      BY <1>1, <3>1
    <3> QED BY <3>2, <3>3, <3>4, <3>5, <3>6, MixHonestKept DEF Undisturbed
  <2>2. CASE (\E t \in Ids : Merges(o, t)) /\ UNCHANGED clusters
    <3>1. PICK t \in Ids : Merges(o, t)
      BY <2>2
    <3>2. link' = [link EXCEPT ![o] = t]
      BY <3>1 DEF Merges
    <3>3. /\ Ids' = Ids
          /\ \A u \in Ids \ {t} : Undisturbed(transactions[u], transactions'[u])
          /\ Honest(Evidence[o].source, transactions'[t].mix)
          /\ transactions'[t].mix \in {transactions[t].mix, "merged"}
      BY <1>1, <3>1, MergesMix
    <3>4. \A p \in Observations : Asked(p) => Asked(p)'
      BY <2>2 DEF Asked
    <3>5. \A u \in Ids' : EngineLinked(o, u)' => u = t
      BY <1>1, <3>2 DEF EngineLinked
    <3>6. \A p \in Observations \ {o} : link'[p] = link[p]
      BY <1>1, <3>2
    <3>7. \A u \in Ids : transactions'[u].mix \in {transactions[u].mix, "merged"}
      BY <3>3 DEF Undisturbed
    <3> QED BY <3>3, <3>4, <3>5, <3>6, <3>7, MixHonestKept
  <2>3. CASE RaiseAmbiguity(o)
    <3>1. /\ UNCHANGED <<link, transactions>> /\ Asked(o)'
          /\ \A p \in Observations : Asked(p) => Asked(p)'
      BY <1>1, <2>3, RaiseAmbiguityAsks DEF RaiseAmbiguity, QuestionsKept
    <3>2. Ids' = Ids /\ \A t \in Ids : transactions'[t].mix = transactions[t].mix
      BY <3>1 DEF Ids
    <3>3. \A t \in Ids' : ~EngineLinked(o, t)'
      BY <3>1 DEF EngineLinked
    <3> QED BY <3>1, <3>2, <3>3, MixHonestKept
  <2> QED BY <1>2, <2>1, <2>2, <2>3, ReconcileRows
<1>3. ASSUME NEW o \in Observations, Hold(o) \/ SettleHeld(o) PROVE MixHonest'
  <2>1. UNCHANGED <<link, clusters, transactions>>
    BY <1>3 DEF Hold, SettleHeld
  <2> QED BY <2>1, MixHonestSame DEF Ids
<1>4. ASSUME NEW c \in DOMAIN clusters, Judges(c) PROVE MixHonest'
  <2>1. PICK s \in Observations : s = Subject(c) /\ Asked(s) /\ About(s)
    BY <1>4, SubjectAsked, JudgesAbout
  <2>2. \A p \in Observations : Asked(p) => Asked(p)'
    <3>1. PICK status : Close(c, status)
      BY <1>4, JudgesAbout
    <3> QED BY <1>1, <3>1, CloseOpens DEF Asked
  <2>3. \A t \in Ids' : ~EngineLinked(s, t)'
    BY <2>1, <2>2 DEF EngineLinked
  <2>4. \A p \in Observations \ {s} : link'[p] = link[p]
    BY <2>1 DEF About
  <2>5. Ids' \subseteq Ids \cup {NextId} /\ \A t \in Ids : transactions'[t].mix = transactions[t].mix
    <3>1. CASE UNCHANGED transactions
      BY <3>1 DEF Ids
    <3>2. CASE Via(Extended(s), NextId, Evidence[s], crashes' = 0)
      BY <1>1, <2>1, <3>2, AddsMix DEF Undisturbed
    <3> QED BY <1>4, <2>1, <3>1, <3>2, JudgesRows
  <2> QED BY <2>1, <2>2, <2>3, <2>4, <2>5, MixHonestKept
<1>5. ASSUME NEW t \in Ids, DeleteTransaction(t) \/ EditTransaction(t) PROVE MixHonest'
  BY <1>1, <1>5, EditRows, MixHonestSame
<1>6. CASE UNCHANGED vars
  BY <1>6, MixHonestSame DEF vars, Ids
<1>7. CASE Next
  BY <1>2, <1>3, <1>4, <1>5, <1>7, NextCases DEF Ingest, ReconcileHeld
<1> QED BY <1>6, <1>7

-----------------------------------------------------------------------------
(* Evidence that no verdict can move any more: it was reconciled, and what *)
(* cluster it is the subject of was closed by a verdict that Undo does not *)
(* take back.  As long as the application does not die, a row keeps such   *)
(* evidence of every source its mix names.                                 *)

Kept(o) ==
  \E i \in Verdicts :
    /\ decisions[i].observation = o /\ decisions[i].matched = 0
    /\ \A j \in Verdicts : decisions[j].observation = o => j <= i

Settled(o) ==
  /\ intake[o] = "reconciled"
  /\ \A c \in DOMAIN clusters :
       Subject(c) = o => clusters[c].status \notin {"open", "deferred"} /\ Kept(o)

Backs(o, t) == link[o] = t /\ Settled(o)

BackedBy(source, t) == \E o \in Observations : Backs(o, t) /\ Evidence[o].source = source

Backing ==
  \A t \in Ids :
    /\ \E o \in Observations : Backs(o, t)
    /\ transactions[t].mix \in {"email_only", "merged"} => BackedBy("gmail_transaction", t)
    /\ transactions[t].mix \in {"statement_only", "merged"} => BackedBy("statement_pdf", t)

AskedOnce ==
  /\ \A o \in Observations : Asked(o) => intake[o] = "reconciled"
  /\ \A c, d \in DOMAIN clusters : Subject(c) = Subject(d) => c = d

HistoryInv == crashes = 0 => AskedOnce /\ Backing

LEMMA KeptKept ==
  ASSUME TypeOK, NEW s \in Observations, About(s), NEW p \in Observations, p # s, Kept(p)
  PROVE  Kept(p)'
<1>1. CASE UNCHANGED decisions
  BY <1>1 DEF Kept, Verdicts
<1>2. ASSUME NEW t \in Nat,
             NEW kind \in {"auto_matched_exact", "auto_matched_scored", "new_canonical",
                           "ambiguous_pending", "manually_confirmed"},
             Decide(s, t, kind)
      PROVE  Kept(p)'
  <2> DEFINE last == Len(decisions) + 1
  <2>1. /\ DOMAIN decisions = 1..Len(decisions) /\ Len(decisions) \in Nat
        /\ DOMAIN decisions' = 1..(Len(decisions) + 1)
        /\ \A i \in DOMAIN decisions : decisions'[i] = decisions[i]
        /\ decisions'[last] = [observation |-> s, matched |-> t, kind |-> kind]
    BY <1>2, DecideAppends
  <2>2. decisions'[last].observation = s
    BY <2>1
  <2>3. \A j \in DOMAIN decisions' :
          \/ j = last
          \/ j \in DOMAIN decisions /\ decisions'[j] = decisions[j]
    BY <2>1
  <2>4. DOMAIN decisions \subseteq DOMAIN decisions'
    BY <2>1
  <2> HIDE DEF last
  <2>5. PICK i \in Verdicts : /\ decisions[i].observation = p /\ decisions[i].matched = 0
                              /\ \A j \in Verdicts : decisions[j].observation = p => j <= i
    BY DEF Kept
  <2>6. i \in Verdicts' /\ decisions'[i].observation = p /\ decisions'[i].matched = 0
    BY <2>1, <2>4, <2>5 DEF Verdicts
  <2>7. ASSUME NEW j \in Verdicts', decisions'[j].observation = p PROVE j <= i
    <3>1. j \in DOMAIN decisions /\ decisions'[j] = decisions[j]
      BY <2>2, <2>3, <2>7 DEF Verdicts
    <3>2. j \in Verdicts
      BY <3>1 DEF Verdicts
    <3> QED BY <2>5, <2>7, <3>1, <3>2
  <2> QED BY <2>6, <2>7 DEF Kept
<1> QED BY <1>1, <1>2 DEF About

LEMMA SettledKept ==
  ASSUME TypeOK, NEW s \in Observations, About(s), NEW p \in Observations, p # s, Settled(p)
  PROVE  Settled(p)'
<1>1. intake'[p] = "reconciled"
  BY DEF About, Settled
<1>2. ASSUME NEW d \in DOMAIN clusters', Subject(d)' = p
      PROVE  clusters'[d].status \notin {"open", "deferred"} /\ Kept(p)'
  <2>1. d \in DOMAIN clusters /\ Subject(d) = p /\ clusters'[d].status = clusters[d].status
    BY <1>2 DEF About, Opens
  <2> QED BY <2>1, KeptKept DEF Settled
<1> QED BY <1>1, <1>2 DEF Settled

(* Backing evidence survives a step that leaves it alone.                  *)
LEMMA BackingKept ==
  ASSUME Backing, NEW N \in SUBSET Observations,
         \A p \in Observations : Settled(p) => p \notin N /\ Settled(p)',
         \A p \in Observations \ N : link'[p] = link[p],
         NEW t \in Ids
  PROVE  /\ \E o \in Observations : Backs(o, t)'
         /\ \A source : BackedBy(source, t) => BackedBy(source, t)'
  BY DEF Backing, Backs, BackedBy

(* Evidence the engine reconciles without a crash was never asked about,   *)
(* so what it backs from then on it backs for good.                        *)
LEMMA ReconcileHistory ==
  ASSUME IInv, AskedOnce, Backing, NEW o \in Observations, Reconcile(o),
         intake[o] # "reconciled", intake' = [intake EXCEPT ![o] = "reconciled"]
  PROVE  AskedOnce' /\ Backing'
<1>1. /\ TypeOK /\ RowsExist /\ link \in [Observations -> Nat]
      /\ intake \in [Observations -> {"unseen", "held", "reconciled"}]
  BY DEF IInv, TypeOK
<1>2. /\ intake'[o] = "reconciled" /\ ~Asked(o) /\ ~Settled(o)
      /\ \A p \in Observations \ {o} : intake'[p] = intake[p]
  BY <1>1 DEF AskedOnce, Settled
<1>3. About(o)
  BY <1>1, <1>2, ReconcileAbout
<1>4. /\ \A p \in Observations : Settled(p) => p \notin {o} /\ Settled(p)'
      /\ \A p \in Observations \ {o} : link'[p] = link[p]
  BY <1>1, <1>2, <1>3, SettledKept DEF About
<1>5. ASSUME NEW t \in Ids
      PROVE  /\ \E p \in Observations : Backs(p, t)'
             /\ \A source : BackedBy(source, t) => BackedBy(source, t)'
  BY <1>4, BackingKept
<1>6. ASSUME UNCHANGED clusters PROVE AskedOnce' /\ Settled(o)'
  <2>1. AskedOnce'
    BY <1>2, <1>6 DEF AskedOnce, Asked, Subject
  <2>2. \A c \in DOMAIN clusters : Subject(c) # o
    BY <1>2, SubjectAsked
  <2> QED BY <1>2, <1>6, <2>1, <2>2 DEF Settled, Subject
<1>7. CASE Adds(o, TRUE) /\ UNCHANGED clusters
  <2>1. link' = [link EXCEPT ![o] = NextId] /\ link'[o] = NextId
    BY <1>1, <1>7 DEF Adds
  <2>2. /\ Ids' = Ids \cup {NextId}
        /\ \A t \in Ids : Undisturbed(transactions[t], transactions'[t])
        /\ transactions'[NextId].mix = NewTransaction(Evidence[o]).mix
    BY <1>1, <1>7, AddsMix DEF Adds
  <2>3. PICK n : n = NextId
    OBVIOUS
  <2>4. Backs(o, n)'
    BY <1>6, <1>7, <2>1, <2>3 DEF Backs
  <2>5. \A source : Evidence[o].source = source => BackedBy(source, n)'
    BY <2>4 DEF BackedBy
  <2>6. /\ transactions'[n].mix \in {"email_only", "merged"} => BackedBy("gmail_transaction", n)'
        /\ transactions'[n].mix \in {"statement_only", "merged"} => BackedBy("statement_pdf", n)'
    BY <2>2, <2>3, <2>5, LedgerAssumption, NewMix
  <2>7. ASSUME NEW t \in Ids
        PROVE  /\ transactions'[t].mix \in {"email_only", "merged"} => BackedBy("gmail_transaction", t)'
               /\ transactions'[t].mix \in {"statement_only", "merged"} => BackedBy("statement_pdf", t)'
    BY <1>5, <2>2 DEF Backing, Undisturbed
  <2>8. Backing'
    BY <1>5, <2>2, <2>3, <2>4, <2>6, <2>7 DEF Backing
  <2> QED BY <1>6, <1>7, <2>8
<1>8. CASE (\E t \in Ids : Merges(o, t)) /\ UNCHANGED clusters
  <2>1. PICK t \in Ids : Merges(o, t)
    BY <1>8
  <2>2. link'[o] = t
    BY <1>1, <2>1 DEF Merges
  <2>3. Backs(o, t)'
    BY <1>6, <1>8, <2>2 DEF Backs
  <2>4. /\ Ids' = Ids
        /\ \A u \in Ids \ {t} : Undisturbed(transactions[u], transactions'[u])
        /\ \/ transactions'[t].mix = transactions[t].mix
           \/ /\ transactions'[t].mix = "merged" /\ transactions[t].mix = "email_only"
              /\ Evidence[o].source = "statement_pdf"
           \/ /\ transactions'[t].mix = "merged" /\ transactions[t].mix = "statement_only"
              /\ Evidence[o].source = "gmail_transaction"
    BY <1>1, <2>1, MergesMix
  <2>5. \A source : Evidence[o].source = source => BackedBy(source, t)'
    BY <2>3 DEF BackedBy
  <2>6. /\ transactions'[t].mix \in {"email_only", "merged"} => BackedBy("gmail_transaction", t)'
        /\ transactions'[t].mix \in {"statement_only", "merged"} => BackedBy("statement_pdf", t)'
    BY <1>5, <2>4, <2>5 DEF Backing
  <2>7. ASSUME NEW u \in Ids, u # t
        PROVE  /\ transactions'[u].mix \in {"email_only", "merged"} => BackedBy("gmail_transaction", u)'
               /\ transactions'[u].mix \in {"statement_only", "merged"} => BackedBy("statement_pdf", u)'
    BY <1>5, <2>4, <2>7 DEF Backing, Undisturbed
  <2>8. Backing'
    BY <1>5, <2>4, <2>6, <2>7 DEF Backing
  <2> QED BY <1>6, <1>8, <2>8
<1>9. CASE RaiseAmbiguity(o)
  <2>1. /\ UNCHANGED transactions
        /\ \A d \in DOMAIN clusters' \ DOMAIN clusters : d = Len(clusters) + 1 /\ Subject(d)' = o
        /\ \A d \in DOMAIN clusters : Subject(d)' = Subject(d)
        /\ \A p \in Observations : Asked(p)' => Asked(p) \/ p = o
    BY <1>1, <1>9, RaiseAmbiguityOpens DEF RaiseAmbiguity
  <2>2. \A p \in Observations : Asked(p)' => intake'[p] = "reconciled"
    BY <1>2, <2>1 DEF AskedOnce
  <2>3. ASSUME NEW c \in DOMAIN clusters', NEW d \in DOMAIN clusters', Subject(c)' = Subject(d)'
        PROVE  c = d
    <3>1. \A x \in DOMAIN clusters : Subject(x)' # o
      BY <1>2, <2>1, SubjectAsked
    <3>2. CASE c \in DOMAIN clusters /\ d \in DOMAIN clusters
      BY <2>1, <2>3, <3>2 DEF AskedOnce
    <3>3. CASE c \notin DOMAIN clusters /\ d \notin DOMAIN clusters
      BY <2>1, <3>3
    <3> QED BY <2>1, <2>3, <3>1, <3>2, <3>3
  <2>4. AskedOnce'
    BY <2>2, <2>3 DEF AskedOnce
  <2>5. Backing'
    BY <1>5, <2>1 DEF Backing, Ids
  <2> QED BY <2>4, <2>5
<1> QED BY <1>7, <1>8, <1>9, ReconcileRows

(* A verdict is about a subject that nothing settled yet.                  *)
LEMMA JudgesUnsettled ==
  ASSUME IInv, NEW c \in DOMAIN clusters, Judges(c)
  PROVE  ~Settled(Subject(c))
<1>1. CASE InReview(c)
  BY <1>1 DEF InReview, Settled
<1>2. CASE Unmerge(c)
  <2>1. PICK i \in Verdicts : /\ decisions[i].observation = Subject(c) /\ decisions[i].matched # 0
                              /\ \A j \in Verdicts : j <= i
    BY <1>2 DEF Unmerge
  <2>2. ASSUME NEW k \in Verdicts, decisions[k].observation = Subject(c), decisions[k].matched = 0,
               \A j \in Verdicts : decisions[j].observation = Subject(c) => j <= k
        PROVE  FALSE
    <3>1. k <= i /\ i <= k
      BY <2>1, <2>2
    <3>2. k \in Nat /\ i \in Nat
      BY LenProperties DEF Verdicts, IInv, TypeOK
    <3>3. k = i
      BY <3>1, <3>2
    <3> QED BY <2>1, <2>2, <3>3
  <2> QED BY <2>2 DEF Settled, Kept
<1> QED BY <1>1, <1>2 DEF Judges, ConfirmMatch, RejectCandidate, KeepSeparate, MarkUnresolved

LEMMA JudgesHistory ==
  ASSUME IInv, AskedOnce, Backing, NEW c \in DOMAIN clusters, Judges(c), crashes' = 0
  PROVE  AskedOnce' /\ Backing'
<1>1. /\ TypeOK /\ RowsExist /\ link \in [Observations -> Nat]
  BY DEF IInv, TypeOK
<1>2. PICK s \in Observations : s = Subject(c) /\ Asked(s) /\ About(s) /\ ~Settled(s)
  BY SubjectAsked, JudgesAbout, JudgesUnsettled
<1>3. PICK status : Close(c, status)
  BY JudgesAbout
<1>4. /\ DOMAIN clusters' = DOMAIN clusters
      /\ \A d \in DOMAIN clusters : Subject(d)' = Subject(d)
      /\ \A p \in Observations : Asked(p)' => Asked(p)
      /\ UNCHANGED intake
  BY <1>1, <1>3, CloseOpens, JudgesAbout DEF Subject, Asked
<1>5. AskedOnce'
  BY <1>4 DEF AskedOnce
<1>6. /\ \A p \in Observations : Settled(p) => p \notin {s} /\ Settled(p)'
      /\ \A p \in Observations \ {s} : link'[p] = link[p]
  BY <1>1, <1>2, SettledKept DEF About
<1>7. ASSUME NEW t \in Ids
      PROVE  /\ \E p \in Observations : Backs(p, t)'
             /\ \A source : BackedBy(source, t) => BackedBy(source, t)'
  BY <1>6, BackingKept
<1>8. CASE UNCHANGED transactions
  <2>1. Backing'
    BY <1>7, <1>8 DEF Backing, Ids
  <2> QED BY <1>5, <2>1
<1>9. CASE Adds(s, TRUE) /\ Close(c, "resolved") /\ Decide(s, 0, "manually_confirmed")
  <2>1. link'[s] = NextId
    BY <1>1, <1>9 DEF Adds
  <2>2. /\ Ids' = Ids \cup {NextId}
        /\ \A t \in Ids : Undisturbed(transactions[t], transactions'[t])
        /\ transactions'[NextId].mix = NewTransaction(Evidence[s]).mix
    BY <1>1, <1>9, AddsMix DEF Adds
  <2>3. PICK n : n = NextId
    OBVIOUS
  <2>4. Kept(s)'
    <3> DEFINE last == Len(decisions) + 1
    <3>1. /\ DOMAIN decisions' = 1..(Len(decisions) + 1) /\ Len(decisions) \in Nat
          /\ decisions'[last] = [observation |-> s, matched |-> 0, kind |-> "manually_confirmed"]
      BY <1>1, <1>9, DecideAppends
    <3>2. /\ last \in DOMAIN decisions' /\ \A j \in DOMAIN decisions' : j <= last
      BY <3>1
    <3> HIDE DEF last
    <3>3. /\ decisions'[last].observation = s /\ decisions'[last].matched = 0
          /\ decisions'[last].kind = "manually_confirmed"
      BY <3>1
    <3>4. last \in Verdicts' /\ \A j \in Verdicts' : j <= last
      BY <3>2, <3>3 DEF Verdicts
    <3> QED BY <3>3, <3>4 DEF Kept
  <2>5. Settled(s)'
    <3>1. intake'[s] = "reconciled"
      BY <1>2, <1>4 DEF AskedOnce
    <3>2. ASSUME NEW d \in DOMAIN clusters', Subject(d)' = s
          PROVE  clusters'[d].status \notin {"open", "deferred"}
      <4>1. d = c
        BY <1>2, <1>4, <3>2 DEF AskedOnce
      <4>2. clusters'[c].status = "resolved"
        BY <1>1, <1>9, CloseOpens
      <4> QED BY <4>1, <4>2
    <3> QED BY <2>4, <3>1, <3>2 DEF Settled
  <2>6. Backs(s, n)'
    BY <2>1, <2>3, <2>5 DEF Backs
  <2>7. \A source : Evidence[s].source = source => BackedBy(source, n)'
    BY <2>6 DEF BackedBy
  <2>8. /\ transactions'[n].mix \in {"email_only", "merged"} => BackedBy("gmail_transaction", n)'
        /\ transactions'[n].mix \in {"statement_only", "merged"} => BackedBy("statement_pdf", n)'
    BY <2>2, <2>3, <2>7, LedgerAssumption, NewMix
  <2>9. ASSUME NEW t \in Ids
        PROVE  /\ transactions'[t].mix \in {"email_only", "merged"} => BackedBy("gmail_transaction", t)'
               /\ transactions'[t].mix \in {"statement_only", "merged"} => BackedBy("statement_pdf", t)'
    BY <1>7, <2>2 DEF Backing, Undisturbed
  <2>10. Backing'
    BY <1>7, <2>2, <2>3, <2>6, <2>8, <2>9 DEF Backing
  <2> QED BY <1>5, <2>10
<1> QED BY <1>2, <1>8, <1>9, JudgesRows

LEMMA HistoryStep ==
  ASSUME IInv, HistoryInv, [Next]_vars
  PROVE  HistoryInv'
<1> SUFFICES ASSUME crashes' = 0 PROVE AskedOnce' /\ Backing'
  BY DEF HistoryInv
<1>1. /\ TypeOK /\ AskedOnce /\ Backing /\ crashes = 0
      /\ intake \in [Observations -> {"unseen", "held", "reconciled"}]
  BY CrashesGrow DEF HistoryInv, IInv, TypeOK
<1>2. ASSUME UNCHANGED <<link, clusters, decisions>>, Ids' = Ids,
             \A t \in Ids : transactions'[t].mix = transactions[t].mix,
             \A p \in Observations : intake[p] = "reconciled" => intake'[p] = "reconciled"
      PROVE  AskedOnce' /\ Backing'
  <2>1. AskedOnce'
    BY <1>1, <1>2 DEF AskedOnce, Asked, Subject
  <2>2. \A p \in Observations : Settled(p) => p \notin {} /\ Settled(p)'
    BY <1>2 DEF Settled, Kept, Verdicts, Subject
  <2>3. ASSUME NEW t \in Ids
        PROVE  /\ \E p \in Observations : Backs(p, t)'
               /\ \A source : BackedBy(source, t) => BackedBy(source, t)'
    BY <1>1, <1>2, <2>2 DEF Backing, Backs, BackedBy
  <2>4. Backing'
    BY <1>1, <1>2, <2>3 DEF Backing
  <2> QED BY <2>1, <2>4
<1>3. ASSUME NEW o \in Observations, Ingest(o) \/ \E crash \in BOOLEAN : ReconcileHeld(o, crash)
      PROVE  AskedOnce' /\ Backing'
  <2>1. /\ Reconcile(o) /\ intake[o] # "reconciled"
        /\ intake' = [intake EXCEPT ![o] = "reconciled"]
    BY <1>1, <1>3 DEF Ingest, Fresh, ReconcileHeld
  <2> QED BY <1>1, <2>1, ReconcileHistory
<1>4. ASSUME NEW o \in Observations, Hold(o) \/ SettleHeld(o) PROVE AskedOnce' /\ Backing'
  <2>1. /\ UNCHANGED <<link, clusters, decisions, transactions>>
        /\ \A p \in Observations : intake[p] = "reconciled" => intake'[p] = "reconciled"
    BY <1>1, <1>4 DEF Hold, Fresh, SettleHeld
  <2> QED BY <1>2, <2>1 DEF Ids
<1>5. ASSUME NEW c \in DOMAIN clusters, Judges(c) PROVE AskedOnce' /\ Backing'
  BY <1>1, <1>5, JudgesHistory
<1>6. ASSUME NEW t \in Ids, DeleteTransaction(t) \/ EditTransaction(t) PROVE AskedOnce' /\ Backing'
  BY <1>1, <1>2, <1>6, EditRows
<1>7. CASE UNCHANGED vars
  BY <1>2, <1>7 DEF vars, Ids
<1>8. CASE Next
  BY <1>3, <1>4, <1>5, <1>6, <1>8, NextCases
<1> QED BY <1>7, <1>8

LEMMA History == Spec => [](IInv /\ HistoryInv /\ MixHonest)
<1>1. Init => HistoryInv /\ MixHonest
  BY EmptySeq DEF Init, HistoryInv, AskedOnce, Asked, Backing, Ids, MixHonest
<1>2. IInv /\ HistoryInv /\ MixHonest /\ [Next]_vars => HistoryInv' /\ MixHonest'
  BY HistoryStep, MixHonestStep
<1> QED BY <1>1, <1>2, Invariance, PTL DEF Spec

(* Every transaction is backed by evidence: the verdicts about the other   *)
(* evidence of a row, however often confirmed and undone, never take the   *)
(* last one (canonical.rs, cluster.rs, commands/mod.rs).                   *)
THEOREM NoTransactionWithoutEvidence == Spec => []EveryTransactionHasEvidence
<1>1. HistoryInv => EveryTransactionHasEvidence
  BY DEF HistoryInv, Backing, Backs, EveryTransactionHasEvidence
<1> QED BY <1>1, History, PTL

(* source_mix tells the truth, so the source that may overwrite a row is   *)
(* the one that should (canonical.rs).                                     *)
THEOREM SourceMixIsTruthful == Spec => []SourceMixTruthful
<1>1. HistoryInv /\ MixHonest => SourceMixTruthful
  <2> SUFFICES ASSUME HistoryInv, MixHonest, NEW t \in Ids
               PROVE  /\ transactions[t].mix = "email_only" =>
                           "statement_pdf" \notin {Evidence[o].source :
                              o \in {p \in Observations : EngineLinked(p, t)}}
                      /\ transactions[t].mix = "statement_only" =>
                           "gmail_transaction" \notin {Evidence[o].source :
                              o \in {p \in Observations : EngineLinked(p, t)}}
                      /\ transactions[t].mix = "merged" /\ crashes = 0 =>
                           {"statement_pdf", "gmail_transaction"} \subseteq
                             {Evidence[o].source : o \in {p \in Observations : link[p] = t}}
    BY DEF SourceMixTruthful
  <2>1. \A o \in Observations : EngineLinked(o, t) => Honest(Evidence[o].source, transactions[t].mix)
    BY DEF MixHonest
  <2>2. ASSUME transactions[t].mix = "merged", crashes = 0
        PROVE  BackedBy("statement_pdf", t) /\ BackedBy("gmail_transaction", t)
    BY <2>2 DEF HistoryInv, Backing
  <2> QED BY <2>1, <2>2 DEF Honest, BackedBy, Backs
<1> QED BY <1>1, History, PTL

-----------------------------------------------------------------------------
(* The precedence of statements over emails.                               *)

LEMMA BackfillKeeps ==
  ASSUME TypeOK, NEW o \in Observations, NEW t \in Ids, Merges(o, t),
         Evidence[o].source = "gmail_transaction", transactions[t].mix # "email_only"
  PROVE  /\ transactions'[t].amount = transactions[t].amount
         /\ transactions[t].reference \in {None, transactions'[t].reference}
         /\ transactions[t].merchant \in {None, transactions'[t].merchant}
<1> DEFINE old == transactions[t]
<1>1. PICK row \in Precedence(o, t) :
        Via([transactions EXCEPT ![t] = row], t, Evidence[o], TRUE)
  BY DEF Merges
<1>2. Undisturbed(row, transactions'[t])
  BY <1>1 DEF Via, Processed, Ids
<1>3. old \in Transaction
  BY ElementOfSeq DEF TypeOK, Ids
<1>4. row \in {EmailBackfill(old, Evidence[o]), old}
  BY <1>3 DEF Precedence, Transaction
<1>5. /\ row.amount = old.amount
      /\ old.reference \in {None, row.reference} /\ old.merchant \in {None, row.merchant}
  BY <1>3, <1>4 DEF EmailBackfill, Coalesce, Transaction
<1> QED BY <1>2, <1>5 DEF Undisturbed, SameFacts

LEMMA PrecedenceStep ==
  ASSUME IInv, MixHonest, Next, NEW o \in Observations, NEW t \in Ids,
         Evidence[o].source = "gmail_transaction", link[o] # t, link'[o] = t,
         NEW p \in Observations, EngineLinked(p, t), Evidence[p].source = "statement_pdf"
  PROVE  /\ transactions'[t].amount = transactions[t].amount
         /\ transactions[t].reference \in {None, transactions'[t].reference}
         /\ transactions[t].merchant \in {None, transactions'[t].merchant}
<1>1. TypeOK /\ RowsExist /\ link \in [Observations -> Nat] /\ NextId \notin Ids
  BY LenProperties DEF IInv, TypeOK, Ids, NextId
<1>2. transactions[t].mix # "email_only"
  BY DEF MixHonest, Honest
<1>3. ASSUME NEW q \in Observations, Reconcile(q), Merges(q, t), q = o
      PROVE  /\ transactions'[t].amount = transactions[t].amount
             /\ transactions[t].reference \in {None, transactions'[t].reference}
             /\ transactions[t].merchant \in {None, transactions'[t].merchant}
  BY <1>1, <1>2, <1>3, BackfillKeeps
<1>4. ASSUME NEW q \in Observations, Reconcile(q) PROVE q = o /\ Merges(o, t)
  <2>1. CASE Adds(q, TRUE)
    BY <1>1, <2>1 DEF Adds
  <2>2. CASE \E u \in Ids : Merges(q, u)
    <3>1. PICK u \in Ids : Merges(q, u)
      BY <2>2
    <3>2. link' = [link EXCEPT ![q] = u]
      BY <3>1 DEF Merges
    <3>3. q = o /\ u = t
      BY <1>1, <3>2
    <3> QED BY <3>1, <3>3
  <2>3. CASE RaiseAmbiguity(q)
    BY <2>3 DEF RaiseAmbiguity
  <2> QED BY <1>4, <2>1, <2>2, <2>3, ReconcileRows
<1>5. ASSUME NEW c \in DOMAIN clusters, Judges(c) PROVE UNCHANGED transactions
  <2>1. CASE link' = link \/ link' = [link EXCEPT ![Subject(c)] = NextId]
    BY <1>1, <2>1
  <2> QED BY <1>5, <2>1, JudgesRows
<1>6. CASE UNCHANGED transactions
  BY <1>6
<1>7. CASE UNCHANGED link
  BY <1>7
<1> QED
  BY <1>3, <1>4, <1>5, <1>6, <1>7, NextCases
  DEF Ingest, ReconcileHeld, Hold, SettleHeld, DeleteTransaction, EditTransaction

(* Statements are authoritative over emails that arrive after them,        *)
(* whatever else happened to the row in between (canonical.rs).            *)
THEOREM StatementsAuthoritative == Spec => StatementPrecedence
<1>1. IInv /\ MixHonest /\ [Next]_vars =>
        [\A o \in Observations, t \in Ids :
           /\ Evidence[o].source = "gmail_transaction" /\ link[o] # t /\ link'[o] = t
           /\ \E p \in Observations : EngineLinked(p, t) /\ Evidence[p].source = "statement_pdf"
           => /\ transactions'[t].amount = transactions[t].amount
              /\ transactions[t].reference \in {None, transactions'[t].reference}
              /\ transactions[t].merchant \in {None, transactions'[t].merchant}]_vars
  BY PrecedenceStep
<1> QED BY <1>1, History, PTL DEF Spec, StatementPrecedence

-----------------------------------------------------------------------------
(* Refunds.                                                                *)

(* Rows that differ from the ledger's in nothing a refund depends on.      *)
Ledgerlike(rows) ==
  /\ rows \in Seq(Transaction) /\ Ids \subseteq DOMAIN rows
  /\ \A i \in Ids : /\ SameFacts(transactions[i], rows[i])
                    /\ rows[i].parent = transactions[i].parent
                    /\ rows[i].status = transactions[i].status
  /\ \A i \in DOMAIN rows \ Ids : rows[i].parent = 0

RefundSound(rows, t, d, whole) ==
  /\ whole => rows[d].status = "refunded"
  /\ rows[t].direction = "credit" /\ rows[d].direction = "debit"
  /\ rows[d].instrument = rows[t].instrument
  /\ rows[d].amount = rows[t].amount
  /\ rows[d].time <= rows[t].time + CandidateWindow
  /\ rows[t].time <= rows[d].time + 30 * Day + CandidateWindow

LEMMA RefundSoundDef ==
  RefundLinksSound <=>
    \A t \in Ids \ corrections :
      LET d == transactions[t].parent IN
      d # 0 /\ d \notin corrections => d \in Ids /\ RefundSound(transactions, t, d, crashes = 0)
  BY DEF RefundLinksSound, RefundSound

LEMMA RefundsKept ==
  ASSUME IInv, RefundLinksSound, corrections' = corrections,
         NEW rows, Ledgerlike(rows), NEW x \in DOMAIN rows, NEW e \in EvidenceType,
         Via(rows, x, e, crashes' = 0), crashes' = 0 => crashes = 0
  PROVE  RefundLinksSound'
<1>1. /\ rows \in Seq(Transaction) /\ transactions' \in Seq(Transaction)
      /\ DOMAIN rows = 1..Len(rows) /\ Ids' = DOMAIN rows /\ Ids \subseteq DOMAIN rows
      /\ Len(rows) \in Nat
  BY LenProperties DEF Via, Processed, Ledgerlike, Ids
<1>2. \A i \in DOMAIN rows : Undisturbed(rows[i], transactions'[i])
  BY DEF Via, Processed
<1> SUFFICES ASSUME NEW t \in DOMAIN rows, t \notin corrections,
                    NEW d, d = transactions'[t].parent, d # 0, d \notin corrections
             PROVE  d \in DOMAIN rows /\ RefundSound(transactions', t, d, crashes' = 0)
  BY <1>1 DEF RefundLinksSound, RefundSound
<1>3. CASE transactions'[t].parent = rows[t].parent
  <2>1. t \in Ids /\ d = transactions[t].parent
    BY <1>3 DEF Ledgerlike
  <2>2. d \in Ids /\ RefundSound(transactions, t, d, crashes = 0)
    BY <2>1, RefundSoundDef
  <2>3. /\ SameFacts(transactions[t], transactions'[t]) /\ SameFacts(transactions[d], transactions'[d])
        /\ transactions[d].status = "refunded" => transactions'[d].status = "refunded"
    BY <1>1, <1>2, <2>1, <2>2 DEF Ledgerlike, Undisturbed, SameFacts
  <2> QED BY <1>1, <2>2, <2>3 DEF RefundSound, SameFacts
<1>4. CASE transactions'[t].parent # rows[t].parent
  <2>1. t = x /\ e.direction = "credit" /\ d \in Reversible(rows, e)
    BY <1>4 DEF Via, Processed
  <2>2. /\ d \in DOMAIN rows /\ rows[d].direction = "debit"
        /\ rows[d].instrument = e.instrument /\ rows[d].amount = e.amount
        /\ rows[d].time <= e.time /\ e.time <= rows[d].time + 30 * Day
    BY <2>1 DEF Reversible
  <2>3. Agrees(e, rows[t])
    BY <2>1 DEF Via
  <2>4. crashes' = 0 => transactions'[d].status = "refunded"
    BY <1>4, <2>1 DEF Via, Marked
  <2>5. rows[d] \in Transaction /\ rows[t] \in Transaction
    BY <1>1, <2>2, ElementOfSeq
  <2>6. /\ rows[d].time \in Int /\ rows[t].time \in Int /\ e.time \in Int
        /\ CandidateWindow \in Nat /\ Day \in Nat
    BY <2>5, ScoringAssumption DEF Transaction, EvidenceType, CandidateWindow
  <2>7. /\ rows[d].time <= rows[t].time + CandidateWindow
        /\ rows[t].time <= rows[d].time + 30 * Day + CandidateWindow
    <3> DEFINE a == rows[d].time
               b == rows[t].time
               w == CandidateWindow
    <3>1. /\ a \in Int /\ b \in Int /\ e.time \in Int /\ w \in Nat /\ Day \in Nat
          /\ a <= e.time /\ e.time <= a + 30 * Day /\ Distance(e.time, b) <= w
      BY <2>2, <2>3, <2>6 DEF Agrees
    <3> HIDE DEF a, b, w
    <3>2. a <= b + w /\ b <= a + 30 * Day + w
      BY <3>1 DEF Distance
    <3> QED BY <3>2 DEF a, b, w
  <2>8. /\ rows[t].direction = "credit" /\ rows[d].instrument = rows[t].instrument
        /\ rows[d].amount = rows[t].amount
    BY <2>1, <2>2, <2>3 DEF Agrees, SamePayment
  <2>9. SameFacts(rows[t], transactions'[t]) /\ SameFacts(rows[d], transactions'[d])
    BY <1>2, <2>2 DEF Undisturbed
  <2> QED BY <2>2, <2>4, <2>7, <2>8, <2>9 DEF RefundSound, SameFacts
<1> QED BY <1>3, <1>4

LEMMA RefundsSame ==
  ASSUME IInv, RefundLinksSound, crashes' = 0 => crashes = 0, Ids' = Ids,
         corrections \subseteq corrections',
         \A u \in Ids : /\ transactions'[u].parent = transactions[u].parent
                        /\ transactions'[u].status = transactions[u].status
                        /\ u \notin corrections' => SameFacts(transactions[u], transactions'[u])
  PROVE  RefundLinksSound'
<1> SUFFICES ASSUME NEW t \in Ids, t \notin corrections',
                    NEW d, d = transactions'[t].parent, d # 0, d \notin corrections'
             PROVE  d \in Ids /\ RefundSound(transactions', t, d, crashes' = 0)
  BY DEF RefundLinksSound, RefundSound
<1>1. t \notin corrections /\ d = transactions[t].parent /\ d \notin corrections
  OBVIOUS
<1>2. d \in Ids /\ RefundSound(transactions, t, d, crashes = 0)
  BY <1>1, RefundSoundDef
<1>3. /\ SameFacts(transactions[t], transactions'[t]) /\ SameFacts(transactions[d], transactions'[d])
      /\ transactions'[d].status = transactions[d].status
  BY <1>2
<1> QED BY <1>2, <1>3 DEF RefundSound, SameFacts

LEMMA ExtendedLedgerlike ==
  ASSUME TypeOK, NEW s \in Observations
  PROVE  Ledgerlike(Extended(s))
<1>1. NewTransaction(Evidence[s]).parent = 0
  BY DEF NewTransaction
<1>2. /\ Extended(s) \in Seq(Transaction) /\ DOMAIN Extended(s) = Ids \cup {NextId}
      /\ NextId \notin Ids
      /\ \A t \in Ids : Extended(s)[t] = transactions[t]
      /\ Extended(s)[NextId] = NewTransaction(Evidence[s])
  BY ExtendedRows
<1> QED BY <1>1, <1>2 DEF Ledgerlike, SameFacts

LEMMA MergedLedgerlike ==
  ASSUME TypeOK, NEW o \in Observations, NEW t \in Ids, NEW row \in Precedence(o, t),
         row \in Transaction, SameFacts(transactions[t], row)
  PROVE  Ledgerlike([transactions EXCEPT ![t] = row])
<1> DEFINE old  == transactions[t]
           rows == [transactions EXCEPT ![t] = row]
<1>1. transactions \in Seq(Transaction) /\ old \in Transaction /\ Ids = 1..Len(transactions)
  BY LenProperties, ElementOfSeq DEF TypeOK, Ids
<1>2. row \in {StatementUpdate(old, Evidence[o]), EmailBackfill(old, Evidence[o]),
               EmailOverwrite(old, Evidence[o]), old}
  BY DEF Precedence
<1>3. row.parent = old.parent /\ row.status = old.status
  BY <1>1, <1>2 DEF StatementUpdate, EmailBackfill, EmailOverwrite, Transaction
<1>4. rows \in Seq(Transaction) /\ DOMAIN rows = Ids
  BY <1>1, ExceptSeq DEF Ids
<1>5. \A i \in Ids : rows[i] = IF i = t THEN row ELSE transactions[i]
  BY DEF Ids
<1> HIDE DEF rows
<1> QED BY <1>3, <1>4, <1>5 DEF Ledgerlike, SameFacts, rows

LEMMA RefundStep ==
  ASSUME IInv, RefundLinksSound, [Next]_vars
  PROVE  RefundLinksSound'
<1>1. TypeOK /\ (crashes' = 0 => crashes = 0)
  BY CrashesGrow DEF IInv
<1>2. ASSUME UNCHANGED <<transactions, corrections>> PROVE RefundLinksSound'
  BY <1>1, <1>2, RefundsSame DEF Ids, SameFacts
<1>3. ASSUME NEW o \in Observations, Reconcile(o), corrections' = corrections
      PROVE  RefundLinksSound'
  <2>1. Evidence[o] \in EvidenceType
    BY LedgerAssumption
  <2>2. CASE Adds(o, TRUE)
    <3>1. Ledgerlike(Extended(o)) /\ Via(Extended(o), NextId, Evidence[o], crashes' = 0)
      BY <1>1, <2>2, ExtendedLedgerlike DEF Adds, Via
    <3>2. NextId \in DOMAIN Extended(o)
      BY <3>1 DEF Via
    <3> QED BY <1>1, <1>3, <2>1, <3>1, <3>2, RefundsKept
  <2>3. CASE \E t \in Ids : Merges(o, t)
    <3>1. PICK t \in Ids : Merges(o, t)
      BY <2>3
    <3>2. PICK row \in Precedence(o, t) :
            /\ row \in Transaction /\ SameFacts(transactions[t], row)
            /\ Via([transactions EXCEPT ![t] = row], t, Evidence[o], TRUE)
      BY <3>1 DEF Merges
    <3> DEFINE rows == [transactions EXCEPT ![t] = row]
    <3>3. Ledgerlike(rows)
      BY <1>1, <3>2, MergedLedgerlike
    <3>4. t \in DOMAIN rows /\ Via(rows, t, Evidence[o], crashes' = 0)
      BY <3>2 DEF Via
    <3> HIDE DEF rows
    <3> QED BY <1>1, <1>3, <2>1, <3>3, <3>4, RefundsKept
  <2>4. CASE RaiseAmbiguity(o)
    BY <1>2, <1>3, <2>4 DEF RaiseAmbiguity
  <2> QED BY <1>3, <2>2, <2>3, <2>4, ReconcileRows
<1>4. ASSUME NEW o \in Observations, Hold(o) \/ SettleHeld(o) PROVE RefundLinksSound'
  BY <1>2, <1>4 DEF Hold, SettleHeld
<1>5. ASSUME NEW c \in DOMAIN clusters, Judges(c) PROVE RefundLinksSound'
  <2>1. corrections' = corrections /\ Subject(c) \in Observations
    BY <1>5, JudgesAbout, SubjectAsked
  <2>2. Evidence[Subject(c)] \in EvidenceType
    BY <2>1, LedgerAssumption
  <2>3. CASE UNCHANGED transactions
    BY <1>2, <2>1, <2>3
  <2>4. CASE Via(Extended(Subject(c)), NextId, Evidence[Subject(c)], crashes' = 0)
    <3>1. Ledgerlike(Extended(Subject(c)))
      BY <1>1, <2>1, ExtendedLedgerlike
    <3>2. NextId \in DOMAIN Extended(Subject(c))
      BY <2>4 DEF Via
    <3> QED BY <1>1, <2>1, <2>2, <2>4, <3>1, <3>2, RefundsKept
  <2> QED BY <1>5, <2>3, <2>4, JudgesRows
<1>6. ASSUME NEW t \in Ids, DeleteTransaction(t) \/ EditTransaction(t) PROVE RefundLinksSound'
  BY <1>1, <1>6, EditRows, RefundsSame
<1>7. CASE UNCHANGED vars
  BY <1>2, <1>7 DEF vars
<1>8. CASE Next
  BY <1>3, <1>4, <1>5, <1>6, <1>8, NextCases DEF Ingest, ReconcileHeld
<1> QED BY <1>7, <1>8

(* A refund points at the debit it reverses, through merges that retell    *)
(* either and crashes inside the verdict that linked it                    *)
(* (post_processing.rs).                                                   *)
THEOREM RefundLinksAreSound == Spec => []RefundLinksSound
<1>1. Init => RefundLinksSound
  BY DEF Init, RefundLinksSound, Ids
<1>2. IInv /\ RefundLinksSound /\ [Next]_vars => RefundLinksSound'
  BY RefundStep
<1> QED BY <1>1, <1>2, Invariance, PTL DEF Spec

-----------------------------------------------------------------------------
(* The ledger keeps a book.                                                *)

Entry ==
  [instrument : Instruments, amount : Amounts, direction : {"debit", "credit"}, time : Int,
   reference : References \cup {None}, counted : BOOLEAN]

Entries == [t \in Ids |-> EntryFor(transactions[t])]

(* What evidence says, as an entry. *)
Told(e) ==
  [instrument |-> e.instrument, amount |-> e.amount, direction |-> e.direction, time |-> e.time,
   reference |-> e.reference, counted |-> TRUE]

LEMMA EntriesType ==
  ASSUME TypeOK
  PROVE  /\ Entries \in Seq(Entry) /\ DOMAIN Entries = Ids /\ Ids = 1..Len(transactions)
         /\ Len(Entries) = Len(transactions) /\ Len(transactions) \in Nat
         /\ \A t \in Ids : Entries[t] = EntryFor(transactions[t])
         /\ {n \in DOMAIN Entries : Entries[n].counted} = Live
<1>1. transactions \in Seq(Transaction) /\ Ids = 1..Len(transactions) /\ Len(transactions) \in Nat
  BY LenProperties DEF TypeOK, Ids
<1>2. \A t \in Ids : transactions[t] \in Transaction
  BY <1>1, ElementOfSeq
<1>3. \A row \in Transaction : EntryFor(row) \in Entry
  BY DEF EntryFor, Entry, Transaction
<1>4. Entries \in [1..Len(transactions) -> Entry]
  BY <1>1, <1>2, <1>3 DEF Entries
<1>5. Entries \in Seq(Entry)
  BY <1>1, <1>4, SeqDef
<1>6. Len(Entries) = Len(transactions)
  BY <1>1, <1>4, <1>5, LenProperties
<1>7. {n \in DOMAIN Entries : Entries[n].counted} = Live
  BY DEF Entries, EntryFor, Live
<1> QED BY <1>1, <1>4, <1>5, <1>6, <1>7 DEF Entries

(* Rows that say the same are the same entry.                              *)
LEMMA UndisturbedEntry ==
  ASSUME NEW a, NEW b, Undisturbed(a, b)
  PROVE  EntryFor(a) = EntryFor(b)
  BY DEF Undisturbed, SameFacts, EntryFor

LEMMA LengthOfList ==
  ASSUME NEW n \in Nat, NEW f, f = [i \in 1..n |-> f[i]]
  PROVE  f \in Seq({f[i] : i \in 1..n}) /\ Len(f) = n
<1>1. f \in [1..n -> {f[i] : i \in 1..n}]
  OBVIOUS
<1>2. f \in Seq({f[i] : i \in 1..n})
  BY <1>1, SeqDef
<1> QED BY <1>1, <1>2, LenProperties

LEMMA GrownByOne ==
  ASSUME NEW S, NEW s \in Seq(S), NEW x \in S, NEW f, f = [i \in 1..(Len(s) + 1) |-> f[i]],
         \A i \in 1..Len(s) : f[i] = s[i], f[Len(s) + 1] = x
  PROVE  f = Append(s, x)
<1> DEFINE n == Len(s) + 1
<1>1. n \in Nat /\ \A i \in 1..n : i = n \/ i \in 1..Len(s)
  BY LenProperties
<1>2. \A i \in 1..n : f[i] \in S
  BY <1>1, ElementOfSeq
<1>3. f \in [1..n -> S]
  BY <1>2
<1>4. f \in Seq(S) /\ Len(f) = n
  <2>1. f \in Seq(S)
    BY <1>1, <1>3, SeqDef
  <2> QED BY <1>1, <1>3, <2>1, LenProperties
<1>5. /\ Append(s, x) \in Seq(S) /\ Len(Append(s, x)) = n
      /\ \A i \in 1..Len(s) : Append(s, x)[i] = s[i]
      /\ Append(s, x)[n] = x
  BY AppendProperties
<1>6. \A i \in 1..n : f[i] = Append(s, x)[i]
  BY <1>1, <1>5
<1> QED BY <1>4, <1>5, <1>6, SeqEqual

(* A row added for the evidence s is an entry that says what s says.       *)
LEMMA AddsEntry ==
  ASSUME TypeOK, NEW s \in Observations, NEW w, Via(Extended(s), NextId, Evidence[s], w)
  PROVE  Entries' = Append(Entries, Told(Evidence[s])) /\ NextId = Len(Entries) + 1
<1>1. /\ DOMAIN Extended(s) = 1..NextId /\ Len(Extended(s)) = NextId /\ Ids = 1..Len(transactions)
      /\ NextId \in Nat /\ DOMAIN Extended(s) = Ids \cup {NextId}
      /\ \A t \in Ids : Extended(s)[t] = transactions[t]
      /\ Extended(s)[NextId] = NewTransaction(Evidence[s])
  BY ExtendedRows
<1>2. /\ transactions' \in Seq(Transaction) /\ Len(transactions') = NextId
      /\ \A i \in 1..NextId : Undisturbed(Extended(s)[i], transactions'[i])
  BY <1>1 DEF Via, Processed
<1>3. Ids' = 1..NextId
  BY <1>2, LenProperties DEF Ids
<1>4. PICK n : n = NextId
  OBVIOUS
<1>5. Told(Evidence[s]) \in Entry
  BY LedgerAssumption DEF Told, Entry, EvidenceType
<1>6. /\ Entries \in Seq(Entry) /\ Len(Entries) = Len(transactions) /\ Len(transactions) \in Nat
      /\ \A t \in Ids : Entries[t] = EntryFor(transactions[t])
  BY EntriesType
<1>7. n = Len(Entries) + 1 /\ n \in Nat /\ Ids = 1..Len(Entries)
  BY <1>1, <1>4, <1>6 DEF NextId
<1>8. \A i \in 1..n : Entries'[i] = EntryFor(transactions'[i])
  BY <1>3, <1>4 DEF Entries
<1>9. Entries'[n] = Told(Evidence[s])
  <2>1. EntryFor(NewTransaction(Evidence[s])) = Told(Evidence[s])
    BY DEF EntryFor, NewTransaction, Told
  <2> QED BY <1>1, <1>2, <1>4, <1>7, <1>8, <2>1, UndisturbedEntry
<1>10. \A i \in Ids : Entries'[i] = Entries[i]
  <2> SUFFICES ASSUME NEW i \in Ids PROVE Entries'[i] = Entries[i]
    OBVIOUS
  <2>1. i \in 1..n /\ Undisturbed(transactions[i], transactions'[i])
    BY <1>1, <1>2, <1>4
  <2> QED BY <1>6, <1>8, <2>1, UndisturbedEntry
<1>11. Entries' = [i \in 1..n |-> Entries'[i]]
  BY <1>3, <1>4 DEF Entries
<1>12. Entries' = Append(Entries, Told(Evidence[s]))
  <2>1. /\ Entries' = [i \in 1..(Len(Entries) + 1) |-> Entries'[i]]
        /\ \A i \in 1..Len(Entries) : Entries'[i] = Entries[i]
        /\ Entries'[Len(Entries) + 1] = Told(Evidence[s])
    BY <1>7, <1>9, <1>10, <1>11
  <2> QED BY <1>5, <1>6, <2>1, GrownByOne
<1> QED BY <1>4, <1>7, <1>12

(* A merge leaves the entry as it is, but for its reference.               *)
LEMMA MergesEntry ==
  ASSUME TypeOK, NEW o \in Observations, NEW t \in Ids, Merges(o, t)
  PROVE  \E r \in {Entries[t].reference, Evidence[o].reference} :
           Entries' = [Entries EXCEPT ![t].reference = r]
<1>1. PICK row \in Precedence(o, t) :
        /\ row \in Transaction /\ SameFacts(transactions[t], row)
        /\ Via([transactions EXCEPT ![t] = row], t, Evidence[o], TRUE)
  BY DEF Merges
<1> DEFINE rows == [transactions EXCEPT ![t] = row]
           old  == transactions[t]
           e    == Evidence[o]
<1>2. DOMAIN rows = Ids /\ \A u \in Ids : rows[u] = IF u = t THEN row ELSE transactions[u]
  BY DEF Ids
<1>3. old \in Transaction /\ transactions \in Seq(Transaction)
  BY ElementOfSeq DEF TypeOK, Ids
<1>4. row.deleted = old.deleted /\ row.reference \in {old.reference, e.reference}
  <2>1. row \in {StatementUpdate(old, e), EmailBackfill(old, e), EmailOverwrite(old, e), old}
    BY DEF Precedence
  <2> HIDE DEF old, e
  <2> QED BY <1>3, <2>1 DEF StatementUpdate, EmailBackfill, EmailOverwrite, Coalesce, Transaction, old
<1> HIDE DEF rows
<1>5. /\ transactions' \in Seq(Transaction) /\ rows \in Seq(Transaction)
      /\ Len(transactions') = Len(rows)
      /\ \A i \in DOMAIN rows : Undisturbed(rows[i], transactions'[i])
  BY <1>1 DEF Via, Processed, rows
<1>6. Ids' = Ids
  BY <1>2, <1>5, LenProperties DEF Ids
<1>7. \A u \in Ids : Entries'[u] = EntryFor(rows[u])
  BY <1>2, <1>5, <1>6, UndisturbedEntry DEF Entries
<1> DEFINE r == row.reference
<1>8. EntryFor(row) = [EntryFor(old) EXCEPT !.reference = r]
  BY <1>1, <1>4 DEF EntryFor, SameFacts
<1>9. /\ Entries[t] = EntryFor(old) /\ Entries[t].reference = old.reference
  BY DEF Entries, EntryFor
<1>10. Entries' = [Entries EXCEPT ![t] = EntryFor(row)]
  BY <1>2, <1>6, <1>7 DEF Entries
<1>11. Entries' = [Entries EXCEPT ![t].reference = r]
  BY <1>8, <1>9, <1>10
<1> QED BY <1>4, <1>9, <1>11

-----------------------------------------------------------------------------
(* What the user edits is one entry.                                       *)
LEMMA EditsEntry ==
  ASSUME TypeOK, NEW t \in Ids, DeleteTransaction(t) \/ EditTransaction(t)
  PROVE  /\ t \in Live
         /\ \/ Entries' = [Entries EXCEPT ![t].counted = FALSE]
            \/ /\ Ids' = Ids /\ \A u \in Ids \ {t} : Entries'[u] = Entries[u]
               /\ Entries'[t].counted /\ Entries'[t].reference = Entries[t].reference
<1> DEFINE old == transactions[t]
<1>1. /\ old \in Transaction /\ t \in Ids
      /\ \A u \in Ids : Entries[u] = EntryFor(transactions[u])
  BY ElementOfSeq, LenProperties DEF TypeOK, Ids, Entries
<1>2. ASSUME NEW row, transactions' = [transactions EXCEPT ![t] = row]
      PROVE  /\ Ids' = Ids /\ \A u \in Ids \ {t} : Entries'[u] = Entries[u]
             /\ Entries'[t] = EntryFor(row) /\ Entries' = [Entries EXCEPT ![t] = EntryFor(row)]
  <2>1. Ids' = Ids /\ \A u \in Ids : transactions'[u] = IF u = t THEN row ELSE transactions[u]
    BY <1>2 DEF Ids
  <2> QED BY <2>1 DEF Entries
<1>3. CASE DeleteTransaction(t)
  <2> DEFINE row == [old EXCEPT !.deleted = TRUE]
  <2>1. t \in Live /\ transactions' = [transactions EXCEPT ![t] = row]
    BY <1>3 DEF DeleteTransaction
  <2>2. EntryFor(row) = [EntryFor(old) EXCEPT !.counted = FALSE]
    <3>1. /\ row.instrument = old.instrument /\ row.amount = old.amount
          /\ row.direction = old.direction /\ row.time = old.time
          /\ row.reference = old.reference /\ (~row.deleted) = FALSE
      BY <1>1 DEF Transaction
    <3>2. [EntryFor(old) EXCEPT !.counted = FALSE] =
            [instrument |-> old.instrument, amount |-> old.amount, direction |-> old.direction,
             time |-> old.time, reference |-> old.reference, counted |-> FALSE]
      <4> DEFINE was == EntryFor(old)
      <4>1. /\ was \in Entry
            /\ was.instrument = old.instrument /\ was.amount = old.amount
            /\ was.direction = old.direction /\ was.time = old.time
            /\ was.reference = old.reference
        BY <1>1 DEF EntryFor, Entry, Transaction
      <4> HIDE DEF was, old
      <4>2. ASSUME NEW z
            PROVE  [was EXCEPT !.counted = z] =
                     [instrument |-> old.instrument, amount |-> old.amount,
                      direction |-> old.direction, time |-> old.time,
                      reference |-> old.reference, counted |-> z]
        BY <4>1 DEF Entry
      <4> QED BY <4>2 DEF was
    <3> HIDE DEF row, old
    <3>3. EntryFor(row) =
            [instrument |-> old.instrument, amount |-> old.amount, direction |-> old.direction,
             time |-> old.time, reference |-> old.reference, counted |-> FALSE]
      BY <3>1, Zenon DEF EntryFor
    <3> QED BY <3>2, <3>3
  <2> HIDE DEF row
  <2>3. Entries' = [Entries EXCEPT ![t] = EntryFor(row)]
    BY <1>2, <2>1
  <2> QED BY <1>1, <2>1, <2>2, <2>3
<1>4. CASE EditTransaction(t)
  <2>1. t \in Live /\ ~old.deleted
    BY <1>4 DEF EditTransaction, Live
  <2>2. \E row : /\ transactions' = [transactions EXCEPT ![t] = row]
                 /\ row.deleted = old.deleted /\ row.reference = old.reference
    <3>1. \A m : LET row == [old EXCEPT !.merchant = m, !.name = Coalesce(Normal[m], @)] IN
            row.deleted = old.deleted /\ row.reference = old.reference
      BY <1>1 DEF Transaction
    <3>2. CASE \E a \in Amounts : transactions' = [transactions EXCEPT ![t].amount = a]
      <4>1. PICK a \in Amounts : transactions' = [transactions EXCEPT ![t].amount = a]
        BY <3>2
      <4> DEFINE row == [old EXCEPT !.amount = a]
      <4>2. transactions' = [transactions EXCEPT ![t] = row]
        BY <4>1
      <4>3. row.deleted = old.deleted /\ row.reference = old.reference
        BY <1>1 DEF Transaction
      <4> QED BY <4>2, <4>3
    <3>3. CASE \E i \in Instruments : transactions' = [transactions EXCEPT ![t].instrument = i]
      <4>1. PICK i \in Instruments : transactions' = [transactions EXCEPT ![t].instrument = i]
        BY <3>3
      <4> DEFINE row == [old EXCEPT !.instrument = i]
      <4>2. transactions' = [transactions EXCEPT ![t] = row]
        BY <4>1
      <4>3. row.deleted = old.deleted /\ row.reference = old.reference
        BY <1>1 DEF Transaction
      <4> QED BY <4>2, <4>3
    <3>4. CASE \E d \in {"debit", "credit"} : transactions' = [transactions EXCEPT ![t].direction = d]
      <4>1. PICK d \in {"debit", "credit"} : transactions' = [transactions EXCEPT ![t].direction = d]
        BY <3>4
      <4> DEFINE row == [old EXCEPT !.direction = d]
      <4>2. transactions' = [transactions EXCEPT ![t] = row]
        BY <4>1
      <4>3. row.deleted = old.deleted /\ row.reference = old.reference
        BY <1>1 DEF Transaction
      <4> QED BY <4>2, <4>3
    <3>5. CASE \E o \in Observations : transactions' = [transactions EXCEPT ![t].time = Evidence[o].time]
      <4>1. PICK o \in Observations : transactions' = [transactions EXCEPT ![t].time = Evidence[o].time]
        BY <3>5
      <4> DEFINE row == [old EXCEPT !.time = Evidence[o].time]
      <4>2. transactions' = [transactions EXCEPT ![t] = row]
        BY <4>1
      <4>3. row.deleted = old.deleted /\ row.reference = old.reference
        BY <1>1 DEF Transaction
      <4> QED BY <4>2, <4>3
    <3>6. CASE \E m \in Merchants : transactions' =
                 [transactions EXCEPT ![t].merchant = m, ![t].name = Coalesce(Normal[m], @)]
      <4>1. PICK m \in Merchants : transactions' =
              [transactions EXCEPT ![t].merchant = m, ![t].name = Coalesce(Normal[m], @)]
        BY <3>6
      <4>2. transactions' = [transactions EXCEPT ![t] =
              [old EXCEPT !.merchant = m, !.name = Coalesce(Normal[m], @)]]
        BY <1>1, <4>1 DEF Transaction
      <4> QED BY <3>1, <4>2
    <3> QED BY <1>4, <3>2, <3>3, <3>4, <3>5, <3>6 DEF EditTransaction
  <2>3. PICK row : /\ transactions' = [transactions EXCEPT ![t] = row]
                   /\ row.deleted = old.deleted /\ row.reference = old.reference
    BY <2>2
  <2>4. EntryFor(row).counted /\ EntryFor(row).reference = EntryFor(old).reference
    BY <2>1, <2>3 DEF EntryFor
  <2> QED BY <1>1, <1>2, <2>1, <2>3, <2>4
<1> QED BY <1>3, <1>4

-----------------------------------------------------------------------------
(* An entry that carries the reference of the evidence and lies within     *)
(* less than a day of it is a viable candidate, whatever the merchants are *)
(* called: the one sum that falls short of the floor is a day away.        *)
LEMMA SameReferenceViable ==
  ASSUME TypeOK, NEW o \in Observations, NEW t \in Live,
         Book!SameReference(Evidence[o], EntryFor(transactions[t]))
  PROVE  t \in Viable(Evidence[o])
<1> DEFINE e   == Evidence[o]
           row == transactions[t]
           d   == Distance(e.time, row.time)
<1>1. e \in EvidenceType /\ row \in Transaction /\ t \in Ids
  <2>1. t \in 1..Len(transactions) /\ transactions \in Seq(Transaction)
    BY LenProperties DEF Live, Ids, TypeOK
  <2> QED BY <2>1, LedgerAssumption, ElementOfSeq DEF Ids, Live
<1>2. /\ SamePayment(e, row) /\ d < Day
      /\ e.reference # None /\ e.reference = row.reference
  BY DEF Book!SameReference, Book!SameKind, Book!Apart, EntryFor, SamePayment, Distance
<1>3. d \in Nat /\ Day \in Nat \ {0}
  BY <1>1, ScoringAssumption DEF Distance, EvidenceType, Transaction
<1>4. t \in Candidates(e)
  BY <1>2, <1>3 DEF Candidates, CandidateWindow
<1>5. TimeScore(e.time, row.time) \in 150..250
  <2>1. 100 * (Day - d) \in Nat /\ 100 * (Day - d) <= 100 * Day
    BY <1>2, <1>3
  <2>2. (100 * (Day - d)) \div Day \in 0..100
    BY <1>3, <2>1, QuotientBound
  <2>3. TimeScore(e.time, row.time) = 150 + (100 * (Day - d)) \div Day
    BY <1>2, <1>3 DEF TimeScore
  <2> QED BY <2>2, <2>3
<1>6. MerchantScore(e, row) \in 0..300
  <2>1. e.merchant \in Merchants \cup {None} /\ row.name \in Merchants \cup {None}
    BY <1>1 DEF EvidenceType, Transaction
  <2>2. None \notin {e.merchant, row.name} => Similarity[<<e.merchant, row.name>>] \in 0..100
    BY <2>1, ScoringAssumption
  <2> QED BY <2>2 DEF MerchantScore
<1>7. ReferenceScore(e, row) = 250
  BY <1>2 DEF ReferenceScore
<1>8. DecimalScore(e, row) \in Int /\ DecimalScore(e, row) >= 550
  <2> DEFINE m == MerchantScore(e, row)
             a == IF e.amount = row.amount THEN 100 ELSE 0
             c == IF e.direction = row.direction THEN 50 ELSE 0
             w == TimeScore(e.time, row.time)
             x == IF Complementary(e, row) THEN 50 ELSE 0
  <2>1. a = 100 /\ c = 50 /\ x \in 0..50
    BY <1>2 DEF SamePayment
  <2>2. DecimalScore(e, row) = m + 250 + a + c + w + x
    BY <1>7 DEF DecimalScore
  <2>3. m \in 0..300 /\ w \in 150..250
    BY <1>5, <1>6
  <2> HIDE DEF m, a, c, w, x
  <2> QED BY <2>1, <2>2, <2>3
<1>9. RawScore(e, row) = DecimalScore(e, row)
  <2>1. ~FallsShort(e, row)
    BY <1>2, <1>3 DEF FallsShort
  <2> QED BY <1>8, <2>1 DEF RawScore
<1>10. Score(e, row) >= ViabilityFloor
  BY <1>8, <1>9 DEF Score, ViabilityFloor
<1> QED BY <1>4, <1>10 DEF Viable

-----------------------------------------------------------------------------
(* What is on the desk.                                                    *)

Received == {o \in Observations : intake[o] # "unseen"}
Waiting  == {o \in Observations : intake[o] = "held"}
InDoubt  == {o \in Observations : Asked(o)}
Offers   == [o \in Observations |-> Offered(o)]

(* Evidence that has not come in is nowhere: neither linked nor asked      *)
(* about.                                                                  *)
Placed == \A o \in Observations : intake[o] = "unseen" => link[o] = 0 /\ ~Asked(o)

LEMMA CountedAreLive ==
  ASSUME TypeOK
  PROVE  /\ Book!Counted = Live /\ Live \subseteq Ids
         /\ \A t \in Ids : Entries[t] = EntryFor(transactions[t])
<1>1. /\ {n \in DOMAIN Entries : Entries[n].counted} = Live
      /\ \A t \in Ids : Entries[t] = EntryFor(transactions[t])
  BY EntriesType
<1> QED BY <1>1 DEF Book!Counted, Entries, Live

LEMMA AgreesFits ==
  ASSUME NEW e, NEW row, Agrees(e, row)
  PROVE  Book!Fits(e, EntryFor(row))
BY DEF Agrees, SamePayment, Distance, EntryFor, Book!Fits, Book!SameKind, Book!Apart

LEMMA SameClustersSameDoubt ==
  ASSUME UNCHANGED clusters
  PROVE  UNCHANGED <<InDoubt, Offers>>
BY DEF InDoubt, Offers, Asked, Offered, Subject

LEMMA CloseKeepsDoubt ==
  ASSUME TypeOK, NEW c \in DOMAIN clusters, NEW status, Close(c, status)
  PROVE  UNCHANGED <<InDoubt, Offers>>
<1>1. /\ DOMAIN clusters' = DOMAIN clusters
      /\ \A d \in DOMAIN clusters : /\ clusters'[d].incoming = clusters[d].incoming
                                    /\ clusters'[d].candidates = clusters[d].candidates
  BY CloseOpens
<1>2. \A p \in Observations : Asked(p)' <=> Asked(p)
  BY <1>1 DEF Asked
<1>3. \A p \in Observations : Offered(p)' = Offered(p)
  BY <1>1 DEF Offered, Subject
<1>4. InDoubt' = InDoubt
  BY <1>2 DEF InDoubt
<1>5. Offers' = Offers
  BY <1>3 DEF Offers
<1> QED BY <1>4, <1>5

(* A question about o offers viable candidates to it, and changes no other.*)
LEMMA RaiseOffers ==
  ASSUME TypeOK, RowsExist, NEW o \in Observations, RaiseAmbiguity(o)
  PROVE  /\ InDoubt' = InDoubt \cup {o}
         /\ \E choice \in SUBSET Viable(Evidence[o]) :
              Offers' = [Offers EXCEPT ![o] = @ \cup choice]
<1>1. /\ \A d \in DOMAIN clusters' \ DOMAIN clusters :
           Subject(d)' = o /\ clusters'[d].candidates = Viable(Evidence[o])
      /\ \A d \in DOMAIN clusters : /\ d \in DOMAIN clusters' /\ Subject(d)' = Subject(d)
                                    /\ clusters'[d].candidates = clusters[d].candidates
      /\ \A p \in Observations : Asked(p)' => Asked(p) \/ p = o
  BY RaiseAmbiguityOpens
<1>2. Asked(o)' /\ \A p \in Observations : Asked(p) => Asked(p)'
  BY RaiseAmbiguityAsks DEF QuestionsKept
<1>3. InDoubt' = InDoubt \cup {o}
  BY <1>1, <1>2 DEF InDoubt
<1> DEFINE choice == Viable(Evidence[o]) \cap Offered(o)'
<1>4. \A p \in Observations \ {o} : Offered(p)' = Offered(p)
  BY <1>1 DEF Offered, Subject
<1>5. Offered(o)' = Offered(o) \cup choice
  <2>1. Offered(o) \subseteq Offered(o)'
    BY <1>1 DEF Offered, Subject
  <2>2. \A x \in Offered(o)' : x \in Offered(o) \/ x \in Viable(Evidence[o])
    BY <1>1 DEF Offered, Subject
  <2> QED BY <2>1, <2>2
<1> HIDE DEF choice
<1>6. Offers' = [Offers EXCEPT ![o] = @ \cup choice]
  BY <1>4, <1>5 DEF Offers
<1>7. choice \in SUBSET Viable(Evidence[o])
  BY DEF choice
<1> QED BY <1>3, <1>6, <1>7

LEMMA PlacedStep ==
  ASSUME IInv, Placed, [Next]_vars
  PROVE  Placed'
<1>1. TypeOK /\ RowsExist
  BY DEF IInv
<1>2. ASSUME NEW s \in Observations, intake'[s] # "unseen",
             \A p \in Observations \ {s} : link'[p] = link[p] /\ intake'[p] = intake[p],
             \A p \in Observations : Asked(p)' => Asked(p) \/ p = s
      PROVE  Placed'
  BY <1>2 DEF Placed
<1>3. ASSUME NEW o \in Observations, NEW crash, Ingest(o) \/ ReconcileHeld(o, crash)
      PROVE  Placed'
  <2>1. /\ intake'[o] # "unseen" /\ Reconcile(o)
        /\ \A p \in Observations \ {o} : intake'[p] = intake[p]
    BY <1>1, <1>3 DEF Ingest, ReconcileHeld, TypeOK
  <2>2. \A p \in Observations \ {o} : link'[p] = link[p]
    BY <1>1, <2>1, ReconcileAbout DEF About
  <2>3. \A p \in Observations : Asked(p)' => Asked(p) \/ p = o
    <3>1. CASE UNCHANGED clusters
      BY <3>1 DEF Asked
    <3>2. CASE RaiseAmbiguity(o)
      BY <1>1, <3>2, RaiseAmbiguityOpens
    <3> QED BY <2>1, <3>1, <3>2, ReconcileRows
  <2> QED BY <1>2, <2>1, <2>2, <2>3
<1>4. ASSUME NEW o \in Observations, Hold(o) \/ SettleHeld(o) PROVE Placed'
  BY <1>1, <1>4 DEF Hold, SettleHeld, Placed, TypeOK, Asked
<1>5. ASSUME NEW c \in DOMAIN clusters, Judges(c) PROVE Placed'
  <2>1. Subject(c) \in Observations /\ Asked(Subject(c))
    BY SubjectAsked
  <2>2. About(Subject(c)) /\ UNCHANGED intake /\ \E status : Close(c, status)
    BY <1>5, JudgesAbout
  <2>3. intake'[Subject(c)] # "unseen"
    BY <2>1, <2>2 DEF Placed
  <2>4. \A p \in Observations : Asked(p)' => Asked(p)
    BY <1>1, <2>2, CloseOpens DEF Asked
  <2> QED BY <1>2, <2>1, <2>2, <2>3, <2>4 DEF About
<1>6. ASSUME UNCHANGED <<intake, link, clusters>> PROVE Placed'
  BY <1>6 DEF Placed, Asked
<1>7. ASSUME NEW t \in Ids, DeleteTransaction(t) \/ EditTransaction(t) PROVE Placed'
  BY <1>6, <1>7 DEF DeleteTransaction, EditTransaction
<1> QED BY <1>3, <1>4, <1>5, <1>6, <1>7, NextCases DEF vars

-----------------------------------------------------------------------------
(* Every step of the ledger keeps the book.                                *)

LEMMA InitBook == Init => Book!Init
<1> SUFFICES ASSUME Init PROVE Book!Init
  OBVIOUS
<1>1. Received = {} /\ Waiting = {} /\ link = [o \in Observations |-> 0] /\ (crashes > 0) = FALSE
  BY DEF Init, Received, Waiting
<1>2. InDoubt = {} /\ Offers = [o \in Observations |-> {}]
  BY DEF Init, InDoubt, Asked, Offers, Offered
<1>3. Entries = <<>>
  BY DEF Init, Entries, Ids
<1> QED BY <1>1, <1>2, <1>3 DEF Book!Init, Received, Waiting, InDoubt, Offers, Entries

(* The engine takes up evidence that has no place yet: it is new, or its   *)
(* job is replayed after a death.                                          *)
LEMMA EngineTakesUp ==
  ASSUME IInv, Placed, NEW o \in Observations, NEW crash \in BOOLEAN,
         Ingest(o) \/ ReconcileHeld(o, crash)
  PROVE  Book!TakeUp(o) /\ Reconcile(o)
<1>1. intake \in [Observations -> {"unseen", "held", "reconciled"}] /\ crashes \in Nat
  BY DEF IInv, TypeOK
<1>2. link[o] = 0 /\ (intake[o] # "unseen" => intake[o] = "held") /\ Reconcile(o)
  BY DEF Ingest, Fresh, ReconcileHeld, Placed
<1>3. Received' = Received \cup {o}
  BY <1>1, <1>2 DEF Ingest, ReconcileHeld, Received
<1>4. Waiting' \in {Waiting, Waiting \ {o}} /\ (o \in Waiting' => crashes' > 0)
  <2>1. CASE intake' = [intake EXCEPT ![o] = "reconciled"]
    BY <1>1, <2>1 DEF Waiting
  <2>2. CASE UNCHANGED intake /\ crashes' = crashes + 1
    BY <1>1, <2>2 DEF Waiting
  <2> QED BY <2>1, <2>2 DEF Ingest, ReconcileHeld
<1>5. o \in Received => o \in Waiting
  BY <1>2 DEF Received, Waiting
<1> QED BY <1>2, <1>3, <1>4, <1>5 DEF Book!TakeUp, Received, Waiting

LEMMA EngineIsClerk ==
  ASSUME IInv, NEW o \in Observations, Book!TakeUp(o), Reconcile(o)
  PROVE  Book!Clerk(o)
<1>1. /\ TypeOK /\ RowsExist /\ Book!Counted = Live /\ Live \subseteq Ids
      /\ \A t \in Ids : Entries[t] = EntryFor(transactions[t])
  BY CountedAreLive DEF IInv
<1>2. CASE Viable(Evidence[o]) = {} /\ Adds(o, TRUE) /\ UNCHANGED clusters
  <2>1. \A n \in Book!Counted : ~Book!SameReference(Evidence[o], Entries[n])
    BY <1>1, <1>2, SameReferenceViable
  <2>2. /\ Entries' = Append(Entries, Told(Evidence[o])) /\ NextId = Len(Entries) + 1
        /\ link' = [link EXCEPT ![o] = NextId]
    BY <1>1, <1>2, AddsEntry DEF Adds
  <2>3. Book!Write(o)
    BY <2>2 DEF Book!Write, Book!EntryOf, Told, Entries
  <2>4. UNCHANGED <<InDoubt, Offers>>
    BY <1>2, SameClustersSameDoubt
  <2>5. Book!Enter(o)
    BY <2>1, <2>3, <2>4 DEF Book!Enter, Entries, InDoubt, Offers
  <2> QED BY <2>5 DEF Book!Clerk
<1>3. ASSUME NEW t \in Live, Merges(o, t), UNCHANGED clusters
      PROVE  Book!Clerk(o)
  <2>1. t \in Ids /\ Agrees(Evidence[o], transactions[t]) /\ link' = [link EXCEPT ![o] = t]
    BY <1>3 DEF Merges
  <2>2. Book!Fits(Evidence[o], Entries[t])
    BY <1>1, <2>1, AgreesFits
  <2>3. \E r \in {Entries[t].reference, Evidence[o].reference} :
          Entries' = [Entries EXCEPT ![t].reference = r]
    BY <1>1, <1>3, <2>1, MergesEntry
  <2>4. UNCHANGED <<InDoubt, Offers>>
    BY <1>3, SameClustersSameDoubt
  <2>5. Book!File(o, t)
    BY <1>1, <2>1, <2>2, <2>3, <2>4 DEF Book!File, Entries, InDoubt, Offers
  <2> QED BY <1>1, <2>5 DEF Book!Clerk
<1>4. CASE RaiseAmbiguity(o)
  <2>1. UNCHANGED <<link, Entries>>
    BY <1>4 DEF RaiseAmbiguity, Entries, Ids
  <2>2. \A n \in Viable(Evidence[o]) : n \in Live /\ Book!Fits(Evidence[o], Entries[n])
    <3>1. \A n \in Viable(Evidence[o]) : n \in Live /\ Agrees(Evidence[o], transactions[n])
      BY DEF Viable, Candidates, Agrees
    <3> QED BY <1>1, <3>1, AgreesFits
  <2>3. /\ InDoubt' = InDoubt \cup {o}
        /\ \E choice \in SUBSET Viable(Evidence[o]) :
             Offers' = [Offers EXCEPT ![o] = @ \cup choice]
    BY <1>1, <1>4, RaiseOffers
  <2>4. PICK choice \in SUBSET Viable(Evidence[o]) : Offers' = [Offers EXCEPT ![o] = @ \cup choice]
    BY <2>3
  <2>5. choice \in SUBSET {n \in Book!Counted : Book!Fits(Evidence[o], Entries[n])}
    BY <1>1, <2>2
  <2>6. Book!Ask(o)
    BY <2>1, <2>3, <2>4, <2>5 DEF Book!Ask, Entries, InDoubt, Offers
  <2> QED BY <2>6 DEF Book!Clerk
<1> QED BY <1>2, <1>3, <1>4, ReconcileRows

(* A verdict is the user's, or leaves no more than a death behind.         *)
LEMMA VerdictIsUsers ==
  ASSUME IInv, IInv', NEW c \in DOMAIN clusters, Judges(c)
  PROVE  \/ Book!Verdict(Subject(c)) \/ Book!Die
         \/ UNCHANGED <<Received, Waiting, InDoubt, Offers, link, Entries>> /\ crashes' = 0
<1> DEFINE s == Subject(c)
<1>1. TypeOK /\ s \in Observations /\ s \in InDoubt /\ crashes' \in Nat
  BY SubjectAsked DEF IInv, TypeOK, InDoubt
<1>2. UNCHANGED intake /\ \E status : Close(c, status)
  BY JudgesAbout
<1>3. UNCHANGED <<Received, Waiting, InDoubt, Offers>>
  <2>1. UNCHANGED <<Received, Waiting>>
    BY <1>2 DEF Received, Waiting
  <2> QED BY <1>1, <1>2, <2>1, CloseKeepsDoubt
<1>4. clusters[c].candidates \subseteq Offers[s]
  BY <1>1 DEF Offers, Offered
<1> HIDE DEF s
<1>5. CASE UNCHANGED <<transactions, link>>
  <2>1. UNCHANGED Entries
    BY <1>5 DEF Entries, Ids
  <2>2. CASE crashes' = 0
    BY <1>3, <1>5, <2>1, <2>2
  <2>3. CASE crashes' > 0
    BY <1>3, <1>5, <2>1, <2>3
       DEF Book!Die, Book!desk, Received, Waiting, InDoubt, Offers, Entries
  <2> QED BY <1>1, <2>2, <2>3
<1>6. ASSUME NEW t \in clusters[c].candidates, UNCHANGED transactions,
             link' = [link EXCEPT ![s] = t]
      PROVE  Book!Verdict(s)
  <2>1. UNCHANGED Entries
    BY <1>6 DEF Entries, Ids
  <2>2. t \in Offers[s]
    BY <1>4, <1>6
  <2>3. Book!Choose(s, t)
    BY <1>1, <1>3, <1>6, <2>1, <2>2
       DEF Book!Choose, Book!desk, Received, Waiting, InDoubt, Offers, Entries
  <2> QED BY <2>2, <2>3 DEF Book!Verdict, Offers
<1>7. ASSUME Via(Extended(s), NextId, Evidence[s], crashes' = 0),
             link' = link \/ link' = [link EXCEPT ![s] = NextId],
             crashes' = 0 => link' = [link EXCEPT ![s] = NextId]
      PROVE  Book!Verdict(s)
  <2>1. Entries' = Append(Entries, Told(Evidence[s])) /\ NextId = Len(Entries) + 1
    BY <1>1, <1>7, AddsEntry
  <2>2. CASE link' = [link EXCEPT ![s] = NextId]
    <3>1. Book!Write(s)
      BY <2>1, <2>2 DEF Book!Write, Book!EntryOf, Told, Entries
    <3>2. Book!Separate(s)
      BY <1>1, <1>3, <3>1 DEF Book!Separate, Book!desk, Received, Waiting, InDoubt, Offers
    <3> QED BY <3>2 DEF Book!Verdict
  <2>3. CASE link' = link /\ crashes' > 0
    <3>1. Book!HalfSeparate(s)
      BY <1>1, <1>3, <2>1, <2>3
         DEF Book!HalfSeparate, Book!desk, Book!EntryOf, Told, Entries,
             Received, Waiting, InDoubt, Offers
    <3> QED BY <3>1 DEF Book!Verdict
  <2> QED BY <1>1, <1>7, <2>2, <2>3
<1>8. \/ /\ UNCHANGED transactions
         /\ \/ link' = link
            \/ \E t \in Ids : t \in clusters[c].candidates /\ link' = [link EXCEPT ![s] = t]
      \/ /\ Via(Extended(s), NextId, Evidence[s], crashes' = 0)
         /\ link' = link \/ link' = [link EXCEPT ![s] = NextId]
         /\ crashes' = 0 => link' = [link EXCEPT ![s] = NextId]
  BY JudgesRows DEF Adds, s
<1> QED BY <1>5, <1>6, <1>7, <1>8 DEF s

LEMMA EditIsUsers ==
  ASSUME TypeOK, NEW t \in Ids, DeleteTransaction(t) \/ EditTransaction(t)
  PROVE  /\ t \in Book!Counted
         /\ Book!Correct(t) \/ Book!Remove(t)
         /\ crashes' = crashes
<1>1. t \in Book!Counted
  BY CountedAreLive, EditsEntry
<1>2. UNCHANGED <<intake, link, clusters, crashes>>
  BY DEF DeleteTransaction, EditTransaction
<1>3. UNCHANGED <<Received, Waiting, InDoubt, Offers>>
  <2>1. UNCHANGED <<Received, Waiting>>
    BY <1>2 DEF Received, Waiting
  <2> QED BY <1>2, <2>1, SameClustersSameDoubt
<1>4. CASE Entries' = [Entries EXCEPT ![t].counted = FALSE]
  <2>1. Book!Remove(t)
    BY <1>1, <1>2, <1>3, <1>4
       DEF Book!Remove, Book!desk, Received, Waiting, InDoubt, Offers, Entries
  <2> QED BY <1>1, <1>2, <2>1
<1>5. CASE /\ Ids' = Ids /\ \A u \in Ids \ {t} : Entries'[u] = Entries[u]
           /\ Entries'[t].counted /\ Entries'[t].reference = Entries[t].reference
  <2>1. DOMAIN Entries = Ids /\ Ids = 1..Len(Entries) /\ Len(Entries) \in Nat
    BY EntriesType
  <2>2. Len(Entries') = Len(Entries)
    <3>1. PICK n \in Nat : n = Len(Entries)
      BY <2>1
    <3>2. Entries' = [i \in 1..n |-> Entries'[i]]
      BY <1>5, <2>1, <3>1 DEF Entries
    <3> QED BY <3>1, <3>2, LengthOfList
  <2>3. Book!Correct(t)
    BY <1>1, <1>2, <1>3, <1>5, <2>1, <2>2
       DEF Book!Correct, Book!desk, Received, Waiting, InDoubt, Offers, Entries
  <2> QED BY <1>1, <1>2, <2>3
<1> QED BY <1>4, <1>5, EditsEntry

(* KeepsBook, for every set of evidence and every similarity measure: the  *)
(* ledger keeps the book of payments - the engine files each piece of      *)
(* evidence once and where it fits, opens no second entry for a reference  *)
(* it finds within a day, moves nothing it has filed, and leaves entries   *)
(* to the user (engine.rs, canonical.rs, cluster.rs, worker.rs).           *)
THEOREM ImplementsBook == Spec => KeepsBook
<1>1. Init => Book!Init
  BY InitBook
<1>2. Init => Placed
  BY DEF Init, Placed, Asked
<1>3. IInv /\ Placed /\ [Next]_vars => Placed'
  BY PlacedStep
<1>4. IInv /\ IInv' /\ Placed /\ [Next]_vars => [Book!Next]_(Book!vars)
  <2> SUFFICES ASSUME IInv, IInv', Placed, [Next]_vars PROVE [Book!Next]_(Book!vars)
    OBVIOUS
  <2>1. /\ (crashes' > 0) \in BOOLEAN
        /\ crashes > 0 => crashes' > 0
        /\ crashes' = 0 => (crashes > 0) = (crashes' > 0)
        /\ TypeOK
    BY CrashesGrow DEF IInv, TypeOK
  <2>2. ASSUME UNCHANGED <<Received, Waiting, InDoubt, Offers, link, Entries>>,
               crashes' = 0 \/ crashes' = crashes
        PROVE  UNCHANGED Book!vars
    BY <2>1, <2>2 DEF Book!vars, Received, Waiting, InDoubt, Offers, Entries
  <2>3. ASSUME NEW o \in Observations, NEW crash \in BOOLEAN, Ingest(o) \/ ReconcileHeld(o, crash)
        PROVE  Book!Next
    <3>1. Book!Clerk(o)
      BY <2>3, EngineTakesUp, EngineIsClerk
    <3> QED BY <2>1, <3>1 DEF Book!Next
  <2>4. ASSUME NEW o \in Observations, Hold(o)
        PROVE  Book!Next
    <3>1. /\ intake[o] = "unseen" /\ intake' = [intake EXCEPT ![o] = "held"]
          /\ UNCHANGED <<link, transactions, clusters>>
      BY <2>4 DEF Hold, Fresh
    <3>2. /\ o \notin Received
          /\ Received' = Received \cup {o} /\ Waiting' = Waiting \cup {o}
      BY <2>1, <3>1 DEF Received, Waiting, TypeOK
    <3>3. UNCHANGED <<InDoubt, Offers, Entries>>
      BY <3>1, SameClustersSameDoubt DEF Entries, Ids
    <3>4. Book!Keep(o)
      BY <3>1, <3>2, <3>3 DEF Book!Keep, Received, Waiting, InDoubt, Offers, Entries
    <3> QED BY <2>1, <3>4 DEF Book!Next, Book!Clerk
  <2>5. ASSUME NEW o \in Observations, SettleHeld(o)
        PROVE  Book!Next
    <3>1. /\ intake[o] = "held" /\ link[o] # 0 /\ intake' = [intake EXCEPT ![o] = "reconciled"]
          /\ UNCHANGED <<link, transactions, clusters>>
      BY <2>5 DEF SettleHeld
    <3>2. o \in Waiting /\ Received' = Received /\ Waiting' = Waiting \ {o}
      BY <2>1, <3>1 DEF Received, Waiting, TypeOK
    <3>3. UNCHANGED <<InDoubt, Offers, Entries>>
      BY <3>1, SameClustersSameDoubt DEF Entries, Ids
    <3>4. Book!Settle(o)
      BY <3>1, <3>2, <3>3 DEF Book!Settle, Received, Waiting, InDoubt, Offers, Entries
    <3> QED BY <2>1, <3>4 DEF Book!Next, Book!Clerk
  <2>6. ASSUME NEW c \in DOMAIN clusters, Judges(c)
        PROVE  [Book!Next]_(Book!vars)
    <3>1. Subject(c) \in Observations
      BY SubjectAsked
    <3>2. CASE Book!Verdict(Subject(c)) \/ Book!Die
      BY <2>1, <3>1, <3>2 DEF Book!Next
    <3>3. CASE /\ UNCHANGED <<Received, Waiting, InDoubt, Offers, link, Entries>>
               /\ crashes' = 0
      BY <2>2, <3>3
    <3> QED BY <2>6, <3>2, <3>3, VerdictIsUsers
  <2>7. ASSUME NEW t \in Ids, DeleteTransaction(t) \/ EditTransaction(t)
        PROVE  Book!Next
    <3>1. t \in Book!Counted /\ (Book!Correct(t) \/ Book!Remove(t))
      BY <2>1, <2>7, EditIsUsers
    <3> QED BY <2>1, <3>1 DEF Book!Next
  <2>8. CASE UNCHANGED vars
    <3>1. UNCHANGED <<Received, Waiting, InDoubt, Offers, link, Entries>>
      BY <2>8, SameClustersSameDoubt DEF vars, Received, Waiting, Entries, Ids
    <3> QED BY <2>2, <2>8, <3>1 DEF vars
  <2> QED BY <2>3, <2>4, <2>5, <2>6, <2>7, <2>8, NextCases
<1> QED BY Invariance, <1>1, <1>2, <1>3, <1>4, PTL DEF Spec, KeepsBook, Book!Spec
=============================================================================
