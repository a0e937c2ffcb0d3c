--------------------------- MODULE Reconciliation ---------------------------
(***************************************************************************)
(* The ledger and its reconciliation engine: evidence of payments (bank    *)
(* emails, statement lines, manual entries) arrives in any order and is    *)
(* merged into canonical transactions, recorded as a new one, or put to    *)
(* the user as an ambiguity cluster.                                       *)
(*                                                                         *)
(* One engine action is one SQLite transaction (BEGIN IMMEDIATE .. COMMIT).*)
(* Resolving a cluster is not: its statements commit one by one, and the   *)
(* application may die between any two of them.                            *)
(*                                                                         *)
(* src/src-tauri/src/reconciliation/{engine,canonical,cluster,prefilter,   *)
(* post_processing,audit}.rs, db/transactions.rs,                          *)
(* db/transaction_observations.rs, commands/mod.rs, commands/data.rs       *)
(***************************************************************************)
EXTENDS MatchScoring, Sequences, FiniteSets

CONSTANTS
  Observations,  \* the evidence that may arrive, by row id
  Evidence,      \* what each observation says of its payment
  Records,       \* source_record_id values
  Instruments, Amounts, Fingerprints,
  MaxCorrections,\* bound on the transactions the user edits
  MaxReviews,    \* bound on the user's verdicts in the log
  MaxCrashes     \* bound on the crashes between two commits of a handler

Sources == {"gmail_transaction", "statement_pdf", "manual"}

EvidenceType ==
  [source : Sources, record : Records, instrument : Instruments, amount : Amounts,
   direction : {"debit", "credit"}, time : Int, fingerprint : Fingerprints \cup {None},
   reference : References \cup {None}, merchant : Merchants \cup {None}, confidence : 0..100]

ASSUME LedgerAssumption ==
  /\ Evidence \in [Observations -> EvidenceType]
  /\ None \notin Fingerprints
  /\ MaxCorrections \in Nat /\ MaxReviews \in Nat /\ MaxCrashes \in Nat

VARIABLES
  intake,        \* per observation: unseen, held for enrichment, or reconciled
  link,          \* canonical_transaction_id of each observation, 0 for NULL
  transactions,  \* the canonical ledger; a row's id is its index
  clusters,      \* reconciliation_clusters with their members
  decisions,     \* match_decisions, append-only
  corrections,   \* ids of the transactions the user has edited (history)
  crashes        \* how often the application died inside a resolution

vars == <<intake, link, transactions, clusters, decisions, corrections, crashes>>

Transaction ==
  [instrument : Instruments, amount : Amounts, direction : {"debit", "credit"}, time : Int,
   reference : References \cup {None},
   merchant : Merchants \cup {None},            \* merchant_display_name
   name : Merchants \cup {None},                \* merchant_normalized_name
   mix : {"email_only", "statement_only", "manual", "merged"},
   status : {"posted", "refunded"}, parent : Nat, deleted : BOOLEAN]

Cluster ==
  [status : {"open", "deferred", "resolved", "rejected"},
   incoming : Seq(Observations), candidates : SUBSET Nat]

Decision ==
  [observation : Observations, matched : Nat,
   kind : {"auto_matched_exact", "auto_matched_scored", "new_canonical",
           "ambiguous_pending", "manually_confirmed"}]

TypeOK ==
  /\ intake \in [Observations -> {"unseen", "held", "reconciled"}]
  /\ link \in [Observations -> Nat]
  /\ transactions \in Seq(Transaction)
  /\ clusters \in Seq(Cluster)
  /\ decisions \in Seq(Decision)
  /\ corrections \subseteq Nat
  /\ crashes \in Nat

Init ==
  /\ intake = [o \in Observations |-> "unseen"]
  /\ link = [o \in Observations |-> 0]
  /\ transactions = <<>>
  /\ clusters = <<>>
  /\ decisions = <<>>
  /\ corrections = {}
  /\ crashes = 0

-----------------------------------------------------------------------------
(* Finding what an observation may describe.                               *)

Ids == DOMAIN transactions
Live == {t \in Ids : ~transactions[t].deleted}

Candidates(e) ==
  {t \in Live : /\ SamePayment(e, transactions[t])
                /\ Distance(e.time, transactions[t].time) <= CandidateWindow}

Viable(e) == {t \in Candidates(e) : Score(e, transactions[t]) >= ViabilityFloor}

(* The candidate that is alone, or ahead of every other by more than the   *)
(* margin; at most one candidate is.  Ahead by the margin exactly, binary  *)
(* fractions may put it on either side: it may win, and it may not.        *)
Lead(e, t, u) == Score(e, transactions[t]) - Score(e, transactions[u])

Winners(e) ==
  {t \in Viable(e) : \A u \in Viable(e) \ {t} : Lead(e, t, u) >= AmbiguityMargin}

ClearWinners(e) ==
  {t \in Viable(e) : \A u \in Viable(e) \ {t} : Lead(e, t, u) > AmbiguityMargin}

(* Transactions that evidence with the same fingerprint already supports.  *)
(* The lookup takes the oldest; created_at ties and is NULL on statement   *)
(* lines, so any of them may come first.                                   *)
FingerprintHits(o) ==
  {link[p] : p \in {q \in Observations \ {o} : /\ Evidence[o].fingerprint # None
                                               /\ Evidence[q].fingerprint = Evidence[o].fingerprint
                                               /\ link[q] # 0}}

ExactHit(o, t) == t \in Live /\ ExactMatch(Evidence[o], transactions[t])

-----------------------------------------------------------------------------
(* What a merge does to the canonical row.                                 *)

Coalesce(a, b) == IF a # None THEN a ELSE b

(* Regression: statement evidence does not promote source_mix. *)
StatementUpdateKeepsMix(row, e) ==
  [row EXCEPT !.reference = Coalesce(e.reference, @),
              !.merchant = Coalesce(e.merchant, @),
              !.amount = e.amount]

(* Regression: the statement's date replaces the time of the transaction. *)
StatementUpdateRetimes(row, e) ==
  [row EXCEPT !.reference = Coalesce(e.reference, @),
              !.merchant = Coalesce(e.merchant, @),
              !.amount = e.amount,
              !.time = e.time,
              !.mix = IF @ = "email_only" THEN "merged" ELSE @]

StatementUpdate(row, e) ==
  [row EXCEPT !.reference = Coalesce(e.reference, @),
              !.merchant = Coalesce(e.merchant, @),
              !.amount = e.amount,
              !.mix = IF @ = "email_only" THEN "merged" ELSE @]

(* Regression: COALESCE with its arguments swapped. *)
EmailBackfillOverwrites(row, e) ==
  [row EXCEPT !.reference = Coalesce(e.reference, @),
              !.merchant = Coalesce(e.merchant, @),
              !.mix = IF @ = "statement_only" THEN "merged" ELSE @]

EmailBackfill(row, e) ==
  [row EXCEPT !.reference = Coalesce(@, e.reference),
              !.merchant = Coalesce(@, e.merchant),
              !.mix = IF @ = "statement_only" THEN "merged" ELSE @]

EmailOverwrite(row, e) ==
  [row EXCEPT !.reference = Coalesce(e.reference, @),
              !.merchant = Coalesce(e.merchant, @)]

(* The confidence of the emails already behind t: that of the last one the *)
(* engine or the user matched to it, else that of the first one linked.    *)
MatchedEmails(o, t) ==
  {i \in DOMAIN decisions :
     /\ decisions[i].matched = t
     /\ decisions[i].kind \in {"auto_matched_exact", "auto_matched_scored", "manually_confirmed"}
     /\ decisions[i].observation # o
     /\ Evidence[decisions[i].observation].source = "gmail_transaction"}

LinkedEmails(o, t) ==
  {p \in Observations \ {o} : link[p] = t /\ Evidence[p].source = "gmail_transaction"}

PriorEmails(o, t) ==
  LET matched == MatchedEmails(o, t)
      latest  == {i \in matched : \A j \in matched : j <= i}
  IN  IF matched # {} THEN {decisions[i].observation : i \in latest} ELSE LinkedEmails(o, t)

EmailConfidenceMargin == 15

(* The rows that precedence may leave: apply_match_precedence_and_link.    *)
Precedence(o, t) ==
  LET e   == Evidence[o]
      row == transactions[t]
  IN  IF e.source = "statement_pdf" THEN {StatementUpdate(row, e)}
      ELSE IF e.source = "gmail_transaction" /\ row.mix \in {"statement_only", "merged"}
        THEN {EmailBackfill(row, e)}
      ELSE IF e.source = "gmail_transaction" /\ row.mix = "email_only" /\ PriorEmails(o, t) # {}
        THEN {IF e.confidence - Evidence[p].confidence > EmailConfidenceMargin
              THEN EmailOverwrite(row, e) ELSE row : p \in PriorEmails(o, t)}
      ELSE {row}

NormalName(e) == IF e.merchant = None THEN None ELSE Normal[e.merchant]

(* Regression: any transaction of the amount can be reversed. *)
ReversibleAnyDirection(rows, e) ==
  {d \in DOMAIN rows : /\ ~rows[d].deleted
                       /\ rows[d].instrument = e.instrument /\ rows[d].amount = e.amount
                       /\ rows[d].time <= e.time /\ e.time <= rows[d].time + 30 * Day
                       /\ rows[d].parent = 0}

(* Post-processing: a credit reverses the latest debit of its amount in    *)
(* the preceding 30 days; a debit takes the observation's merchant name.   *)
Reversible(rows, e) ==
  {d \in DOMAIN rows : /\ rows[d].direction = "debit" /\ ~rows[d].deleted
                       /\ rows[d].instrument = e.instrument /\ rows[d].amount = e.amount
                       /\ rows[d].time <= e.time /\ e.time <= rows[d].time + 30 * Day
                       /\ rows[d].parent = 0}

Latest(rows, ids) == {d \in ids : \A x \in ids : rows[x].time <= rows[d].time}

PostProcessed(rows, t, e) ==
  IF e.direction = "debit"
  THEN {[rows EXCEPT ![t].name = Coalesce(NormalName(e), @)]}
  ELSE IF Reversible(rows, e) = {} THEN {rows}
  ELSE {[rows EXCEPT ![t].parent = d, ![d].status = "refunded"] :
          d \in Latest(rows, Reversible(rows, e))}

(* Regression: the observation's source is stored as the source mix. *)
NewTransactionRawMix(e) ==
  [instrument |-> e.instrument, amount |-> e.amount, direction |-> e.direction, time |-> e.time,
   reference |-> e.reference, merchant |-> e.merchant, name |-> NormalName(e),
   mix |-> e.source, status |-> "posted", parent |-> 0, deleted |-> FALSE]

NewTransaction(e) ==
  [instrument |-> e.instrument, amount |-> e.amount, direction |-> e.direction, time |-> e.time,
   reference |-> e.reference, merchant |-> e.merchant, name |-> NormalName(e),
   mix |-> CASE e.source = "gmail_transaction" -> "email_only"
             [] e.source = "statement_pdf" -> "statement_only"
             [] OTHER -> "manual",
   status |-> "posted", parent |-> 0, deleted |-> FALSE]

-----------------------------------------------------------------------------
(* The engine's verdicts.                                                  *)

Decide(o, t, kind) ==
  decisions' = Append(decisions, [observation |-> o, matched |-> t, kind |-> kind])

NextId == Len(transactions) + 1

(* Regression: the observation is not linked to what it created. *)
CreateCanonicalUnlinked(o) ==
  /\ UNCHANGED link
  /\ transactions' \in PostProcessed(Append(transactions, NewTransaction(Evidence[o])),
                                     NextId, Evidence[o])

CreateCanonical(o) ==
  /\ link' = [link EXCEPT ![o] = NextId]
  /\ transactions' \in PostProcessed(Append(transactions, NewTransaction(Evidence[o])),
                                     NextId, Evidence[o])

NewCanonical(o) ==
  CreateCanonical(o) /\ Decide(o, 0, "new_canonical") /\ UNCHANGED clusters

(* Regression: the decision does not name the transaction it matched. *)
MergeIntoUnnamed(o, t, kind) ==
  /\ \E row \in Precedence(o, t) :
       transactions' \in PostProcessed([transactions EXCEPT ![t] = row], t, Evidence[o])
  /\ link' = [link EXCEPT ![o] = t]
  /\ Decide(o, 0, kind)
  /\ UNCHANGED clusters

MergeInto(o, t, kind) ==
  /\ \E row \in Precedence(o, t) :
       transactions' \in PostProcessed([transactions EXCEPT ![t] = row], t, Evidence[o])
  /\ link' = [link EXCEPT ![o] = t]
  /\ Decide(o, t, kind)
  /\ UNCHANGED clusters

(* Open clusters with a member near this observation, whatever the member. *)
Overlaps(c, e) ==
  \/ \E t \in clusters[c].candidates :
       /\ SamePayment(e, transactions[t])
       /\ Distance(e.time, transactions[t].time) <= CandidateWindow
  \/ \E i \in DOMAIN clusters[c].incoming :
       LET m == Evidence[clusters[c].incoming[i]] IN
       SamePayment(e, m) /\ Distance(e.time, m.time) <= CandidateWindow

OverlappingOpen(e) == {c \in DOMAIN clusters : clusters[c].status = "open" /\ Overlaps(c, e)}

(* Regression: an observation near an open cluster is not added to it. *)
RaiseAmbiguityOnce(o) ==
  /\ IF OverlappingOpen(Evidence[o]) # {} THEN UNCHANGED clusters
     ELSE clusters' = Append(clusters, [status |-> "open", incoming |-> <<o>>,
                                        candidates |-> Viable(Evidence[o])])
  /\ Decide(o, 0, "ambiguous_pending")
  /\ UNCHANGED <<link, transactions>>

RaiseAmbiguity(o) ==
  LET open == OverlappingOpen(Evidence[o]) IN
  /\ IF open # {}
     THEN \E c \in open : clusters' = [clusters EXCEPT ![c].incoming = Append(@, o)]
     ELSE clusters' = Append(clusters, [status |-> "open", incoming |-> <<o>>,
                                        candidates |-> Viable(Evidence[o])])
  /\ Decide(o, 0, "ambiguous_pending")
  /\ UNCHANGED <<link, transactions>>

Reconcile(o) ==
  \/ \E t \in FingerprintHits(o) : ExactHit(o, t) /\ MergeInto(o, t, "auto_matched_exact")
  \/ /\ FingerprintHits(o) = {} \/ \E t \in FingerprintHits(o) : ~ExactHit(o, t)
     /\ \/ Viable(Evidence[o]) = {} /\ NewCanonical(o)
        \/ \E t \in Winners(Evidence[o]) : MergeInto(o, t, "auto_matched_scored")
        \/ Viable(Evidence[o]) # {} /\ ClearWinners(Evidence[o]) = {} /\ RaiseAmbiguity(o)

-----------------------------------------------------------------------------
(* Intake.  A source record seen before is skipped, so each record is      *)
(* ingested once.                                                          *)

Fresh(o) ==
  /\ intake[o] = "unseen"
  /\ \A p \in Observations :
       intake[p] # "unseen" => <<Evidence[p].source, Evidence[p].record>>
                             # <<Evidence[o].source, Evidence[o].record>>

Ingest(o) ==
  /\ Fresh(o)
  /\ intake' = [intake EXCEPT ![o] = "reconciled"]
  /\ Reconcile(o)
  /\ UNCHANGED <<corrections, crashes>>

(* Evidence without an instrument or enough confidence is stored and parked. *)
Hold(o) ==
  /\ Fresh(o) /\ Evidence[o].source = "gmail_transaction"
  /\ intake' = [intake EXCEPT ![o] = "held"]
  /\ UNCHANGED <<link, transactions, clusters, decisions, corrections, crashes>>

(* Regression: a replayed job reconciles what already has its transaction. *)
ReconcileHeldAgain(o, crash) ==
  /\ intake[o] = "held"
  /\ crash => crashes < MaxCrashes
  /\ Reconcile(o)
  /\ IF crash THEN crashes' = crashes + 1 /\ UNCHANGED intake
              ELSE intake' = [intake EXCEPT ![o] = "reconciled"] /\ UNCHANGED crashes
  /\ UNCHANGED corrections

(* Enrichment later reconciles it.  Reconciling and settling are separate  *)
(* commits: after a crash between them the job is replayed, and only an    *)
(* observation that already has its transaction is left alone.             *)
ReconcileHeld(o, crash) ==
  /\ intake[o] = "held" /\ link[o] = 0
  /\ crash => crashes < MaxCrashes
  /\ Reconcile(o)
  /\ IF crash THEN crashes' = crashes + 1 /\ UNCHANGED intake
              ELSE intake' = [intake EXCEPT ![o] = "reconciled"] /\ UNCHANGED crashes
  /\ UNCHANGED corrections

SettleHeld(o) ==
  /\ intake[o] = "held" /\ link[o] # 0
  /\ intake' = [intake EXCEPT ![o] = "reconciled"]
  /\ UNCHANGED <<link, transactions, clusters, decisions, corrections, crashes>>

-----------------------------------------------------------------------------
(* The review queue.  It lists open and deferred clusters, and the panel   *)
(* resolves a cluster through its first incoming member.  done is the last *)
(* statement of the handler that commits: a crash may leave a prefix.      *)

Verdicts == {i \in DOMAIN decisions : decisions[i].kind = "manually_confirmed"}

InReview(c) ==
  /\ clusters[c].status \in {"open", "deferred"}
  /\ Cardinality(Verdicts) < MaxReviews
Subject(c) == clusters[c].incoming[1]

Close(c, status) == clusters' = [clusters EXCEPT ![c].status = status]

Interrupted(done, last) ==
  /\ done < last => crashes < MaxCrashes
  /\ crashes' = IF done < last THEN crashes + 1 ELSE crashes

ConfirmMatch(c, t, done) ==
  /\ InReview(c) /\ t \in clusters[c].candidates
  /\ Interrupted(done, 3)
  /\ Close(c, "resolved")
  /\ link' = IF done >= 2 THEN [link EXCEPT ![Subject(c)] = t] ELSE link
  /\ IF done >= 3 THEN Decide(Subject(c), t, "manually_confirmed") ELSE UNCHANGED decisions
  /\ UNCHANGED <<intake, transactions, corrections>>

RejectCandidate(c, done) ==
  /\ InReview(c)
  /\ Interrupted(done, 2)
  /\ Close(c, "rejected")
  /\ IF done >= 2 THEN Decide(Subject(c), 0, "manually_confirmed") ELSE UNCHANGED decisions
  /\ UNCHANGED <<intake, link, transactions, corrections>>

(* Post-processing cut short: not begun, or the refund linked but its      *)
(* debit not yet marked.                                                   *)
CutShort(rows, t, e) ==
  {rows} \cup PostProcessed(rows, t, e)
         \cup {[rows EXCEPT ![t].parent = d] :
                 d \in IF e.direction = "credit" THEN Latest(rows, Reversible(rows, e)) ELSE {}}

KeepSeparate(c, done) ==
  /\ InReview(c)
  /\ Interrupted(done, 4)
  /\ Close(c, "resolved")
  /\ LET e    == Evidence[Subject(c)]
         rows == Append(transactions, NewTransaction(e))
     IN  transactions' \in CASE done = 1 -> {transactions}
                             [] done = 2 -> {rows}
                             [] done = 3 -> CutShort(rows, NextId, e)
                             [] OTHER    -> PostProcessed(rows, NextId, e)
  /\ link' = IF done >= 3 THEN [link EXCEPT ![Subject(c)] = NextId] ELSE link
  /\ IF done = 4 THEN Decide(Subject(c), 0, "manually_confirmed") ELSE UNCHANGED decisions
  /\ UNCHANGED <<intake, corrections>>

MarkUnresolved(c) ==
  /\ InReview(c)
  /\ Close(c, "deferred")
  /\ UNCHANGED <<intake, link, transactions, decisions, corrections, crashes>>

(* Undo, offered with the notice that a match was confirmed and gone with  *)
(* the next verdict: only the cluster's status goes back.                  *)
Unmerge(c) ==
  /\ clusters[c].status = "resolved"
  /\ \E i \in Verdicts : /\ decisions[i].observation = Subject(c)
                         /\ decisions[i].matched # 0
                         /\ \A j \in Verdicts : j <= i
  /\ Close(c, "open")
  /\ UNCHANGED <<intake, link, transactions, decisions, corrections, crashes>>

-----------------------------------------------------------------------------
(* The user's edits.                                                       *)

(* Only manually entered transactions can be deleted.                      *)
DeleteTransaction(t) ==
  /\ t \in Live /\ transactions[t].mix = "manual"
  /\ transactions' = [transactions EXCEPT ![t].deleted = TRUE]
  /\ UNCHANGED <<intake, link, clusters, decisions, corrections, crashes>>

EditTransaction(t) ==
  /\ t \in Live
  /\ Cardinality(corrections \cup {t}) <= MaxCorrections
  /\ corrections' = corrections \cup {t}
  /\ \/ \E a \in Amounts : transactions' = [transactions EXCEPT ![t].amount = a]
     \/ \E i \in Instruments : transactions' = [transactions EXCEPT ![t].instrument = i]
     \/ \E d \in {"debit", "credit"} : transactions' = [transactions EXCEPT ![t].direction = d]
     \/ \E o \in Observations : transactions' = [transactions EXCEPT ![t].time = Evidence[o].time]
     \/ \E m \in Merchants \ {transactions[t].merchant} : transactions' =
          [transactions EXCEPT ![t].merchant = m, ![t].name = Coalesce(Normal[m], @)]
  /\ transactions' # transactions
  /\ UNCHANGED <<intake, link, clusters, decisions, crashes>>

-----------------------------------------------------------------------------
EvidenceStep(o) ==
  \/ Ingest(o) \/ Hold(o) \/ SettleHeld(o)
  \/ \E crash \in BOOLEAN : ReconcileHeld(o, crash)

ClusterStep(c) ==
  \/ \E t \in clusters[c].candidates, done \in 1..3 : ConfirmMatch(c, t, done)
  \/ \E done \in 1..2 : RejectCandidate(c, done)
  \/ \E done \in 1..4 : KeepSeparate(c, done)
  \/ MarkUnresolved(c) \/ Unmerge(c)

Next ==
  \/ \E o \in Observations : EvidenceStep(o)
  \/ \E c \in DOMAIN clusters : ClusterStep(c)
  \/ \E t \in Ids : DeleteTransaction(t) \/ EditTransaction(t)

Spec == Init /\ [][Next]_vars

-----------------------------------------------------------------------------
(* Linked evidence whose place in the ledger no cluster ever questioned:   *)
(* the engine alone put it there.                                          *)
Asked(o) == \E c \in DOMAIN clusters : \E i \in DOMAIN clusters[c].incoming :
              clusters[c].incoming[i] = o

EngineLinked(o, t) == t # 0 /\ link[o] = t /\ ~Asked(o)

(* The engine merges only evidence of one payment: what it linked to a     *)
(* transaction the user has not edited agrees with it in instrument,       *)
(* amount and direction and lies within the candidate window, however many *)
(* merges and statement overwrites the transaction has been through.       *)
MergedEvidenceAgrees ==
  \A o \in Observations, t \in Ids \ corrections :
    EngineLinked(o, t) =>
      /\ SamePayment(Evidence[o], transactions[t])
      /\ Distance(Evidence[o].time, transactions[t].time) <= CandidateWindow

(* source_mix, which decides which source may overwrite which, tells the   *)
(* truth about the sources behind a transaction (canonical.rs), but that a *)
(* verdict cut short may leave one without its first source.               *)
SourceMixTruthful ==
  \A t \in Ids :
    LET engine == {Evidence[o].source : o \in {p \in Observations : EngineLinked(p, t)}}
        linked == {Evidence[o].source : o \in {p \in Observations : link[p] = t}}
        mix    == transactions[t].mix
    IN  /\ mix = "email_only" => "statement_pdf" \notin engine
        /\ mix = "statement_only" => "gmail_transaction" \notin engine
        /\ mix = "merged" /\ crashes = 0 => {"statement_pdf", "gmail_transaction"} \subseteq linked

(* Reconciled evidence is never lost: it supports a transaction, or some   *)
(* cluster names it as what is to be decided.                              *)
EvidenceAccountedFor ==
  \A o \in Observations : intake[o] = "reconciled" => link[o] # 0 \/ Asked(o)

(* No spending is counted without a source: as long as the application did *)
(* not die inside a verdict, every transaction is backed by an observation *)
(* (create_canonical_transaction links what it creates).                   *)
EveryTransactionHasEvidence ==
  crashes = 0 => \A t \in Ids : \E o \in Observations : link[o] = t

(* A merge can be explained afterwards: as long as the application did not *)
(* die inside a verdict, match_decisions tells where every link comes from *)
(* (audit.rs).                                                             *)
LogExplainsEveryLink ==
  \A o \in Observations : crashes = 0 /\ link[o] # 0 =>
    \E i \in DOMAIN decisions :
      /\ decisions[i].observation = o
      /\ \/ decisions[i].matched = link[o]
         \/ decisions[i].kind \in {"new_canonical", "manually_confirmed"} /\ decisions[i].matched = 0

(* A refund points at a debit of its instrument and amount, which is       *)
(* marked refunded, unless the application died in between, and is no more *)
(* than 30 days older; it may be younger only by the time the refund's own *)
(* sources differ (post_processing.rs).                                    *)
RefundLinksSound ==
  \A t \in Ids \ corrections :
    LET d == transactions[t].parent IN
    d # 0 /\ d \notin corrections =>
      /\ d \in Ids /\ (crashes = 0 => transactions[d].status = "refunded")
      /\ transactions[t].direction = "credit" /\ transactions[d].direction = "debit"
      /\ transactions[d].instrument = transactions[t].instrument
      /\ transactions[d].amount = transactions[t].amount
      /\ transactions[d].time <= transactions[t].time + CandidateWindow
      /\ transactions[t].time <= transactions[d].time + 30 * Day + CandidateWindow

(* Statements are authoritative: once the engine has merged a statement    *)
(* line into a transaction, an email that is linked to it later changes    *)
(* neither its amount nor a reference or merchant it already has.          *)
StatementPrecedence ==
  [][\A o \in Observations, t \in Ids :
       /\ Evidence[o].source = "gmail_transaction" /\ link[o] # t /\ link'[o] = t
       /\ \E p \in Observations : EngineLinked(p, t) /\ Evidence[p].source = "statement_pdf"
       => /\ transactions'[t].amount = transactions[t].amount
          /\ transactions[t].reference \in {None, transactions'[t].reference}
          /\ transactions[t].merchant \in {None, transactions'[t].merchant}]_vars

(* A merge by score always has a reason beyond amount and time: related    *)
(* references, or no contradicting reference and similar merchants.        *)
ScoredMergeHasReason(e, row) ==
  \/ /\ None \notin {e.reference, row.reference}
     /\ RelatedReferences(e.reference, row.reference)
  \/ /\ None \in {e.reference, row.reference}
     /\ None \notin {e.merchant, row.name}
     /\ Similarity[<<e.merchant, row.name>>] >= 34

ScoredMergesAreJustified ==
  [][Len(decisions') > Len(decisions) =>
       LET d == decisions'[Len(decisions')] IN
       d.kind = "auto_matched_scored" =>
         ScoredMergeHasReason(Evidence[d.observation], transactions[d.matched])]_vars

-----------------------------------------------------------------------------
(* The ledger as a book of payments.                                       *)

EntryFor(row) ==
  [instrument |-> row.instrument, amount |-> row.amount, direction |-> row.direction,
   time |-> row.time, reference |-> row.reference, counted |-> ~row.deleted]

(* The candidates of the clusters that are resolved through o.             *)
Offered(o) ==
  UNION {clusters[c].candidates : c \in {d \in DOMAIN clusters : Subject(d) = o}}

Book == INSTANCE PaymentBook WITH
  Papers   <- Observations,
  Says     <- Evidence,
  Window   <- CandidateWindow,
  Near     <- Day,
  received <- {o \in Observations : intake[o] # "unseen"},
  waiting  <- {o \in Observations : intake[o] = "held"},
  asked    <- {o \in Observations : Asked(o)},
  offered  <- [o \in Observations |-> Offered(o)],
  under    <- link,
  book     <- [t \in Ids |-> EntryFor(transactions[t])],
  cut      <- crashes > 0

(* The ledger keeps the book of PaymentBook: in every order of arrival,    *)
(* through replays, verdicts, undos and deaths of the application, the     *)
(* engine files each piece of evidence once and where it fits, opens no    *)
(* second entry for a reference it finds within a day, and moves nothing   *)
(* it has filed; what a review offers fits; entries change only by the     *)
(* user's hand (engine.rs, canonical.rs, cluster.rs).                      *)
KeepsBook == Book!Spec
=============================================================================
