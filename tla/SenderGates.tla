----------------------------- MODULE SenderGates -----------------------------
(***************************************************************************)
(* The gates a message passes before it becomes anything (src/src-tauri/   *)
(* src/ingestion/message_processor.rs): who sent it (verified_senders.rs,  *)
(* auth_results.rs, the user's overrides), what it is about, judged first  *)
(* by subject and snippet and then by the whole text                       *)
(* (content_classifier.rs), and whether enough could be read in it.  A     *)
(* poll writes what it notes at once, a scan through a batch               *)
(* (scan_db_batcher.rs); what was ignored is forgotten in time             *)
(* (db/ignored_messages.rs).                                               *)
(*                                                                         *)
(* A text is the set of the phrases the classifier looks for; Kin says how *)
(* a domain relates to one of the registry.                                *)
(***************************************************************************)
EXTENDS Extraction, FiniteSetsExt

CONSTANTS
  Letters,      \* the messages of the mailbox
  From,         \* the addresses of a letter's From headers
  AuthHeaders,  \* its Authentication-Results headers, in order
  Subject, Snippet,  \* phrases of its subject, and of Gmail's preview
  HeadOf, TailOf,    \* those of its text, by whether they are within 600 characters
  Reading,      \* the results the ladder may have for it
  Delivered,    \* the day it was delivered
  Registry,     \* the domains known, with bank, names and class
  Domains,      \* of senders
  Kin,          \* "is", "under", "contains", "lookalike", "encoded", "close" or "none"
  UserBanks,    \* banks the user may name
  Lifetime,     \* IGNORED_MESSAGE_TTL_DAYS
  MaxLooks, MaxReports, LastSweep  \* bounds: messages looked at, reports, days

ASSUME GatesAssumption ==
  /\ Kin \in [Domains \X Registry ->
                {"is", "under", "contains", "lookalike", "encoded", "close", "none"}]
  /\ From \in [Letters -> Seq([ats : Nat, domain : Domains, name : STRING])]
  /\ DOMAIN Reading = Letters
  /\ \A l \in Letters : \A read \in Reading[l] : DOMAIN read = DOMAIN Blank("nlp", {})
  /\ \A e \in Registry : e.length \in Nat
  /\ Lifetime \in Nat /\ MaxLooks \in Nat /\ MaxReports \in Nat /\ LastSweep \in Nat

VARIABLES
  desk,       \* what the poll and the scan have in hand
  batch,      \* what the scan has noted and not yet stored
  sightings,  \* sender_reputation
  suspects,   \* pending_senders: how often a domain was turned away
  overrides,  \* sender_bank_overrides
  refused,    \* "reject_message" rows of the audit log
  ignored,    \* ignored_messages
  held,       \* reasons of the entries parked for review
  enriching,  \* letters with a job for the background layer
  handed,     \* what was handed to the queues (history)
  stored,       \* letters with an observation or statement of the queues
  clock, looks, reports

gateVars == <<desk, batch, sightings, suspects, overrides, refused, ignored, held,
              enriching, handed, stored, clock, looks, reports>>

NothingNoted == [sighted |-> <<>>, turned |-> {}, ignored |-> {}]
NothingInHand == [at |-> "idle", letter |-> "none", bank |-> "none"]

GatesInit ==
  /\ desk = [r \in {"poll", "scan"} |-> NothingInHand] /\ batch = NothingNoted
  /\ sightings = [d \in Domains |-> [seen |-> 0, passed |-> 0, last |-> "none"]]
  /\ suspects = [d \in Domains |-> [status |-> "none", rejects |-> 0, class |-> "none"]]
  /\ overrides = [d \in Domains |-> [status |-> "none", bank |-> "none"]]
  /\ refused = {} /\ ignored = {} /\ held = [l \in Letters |-> "no"] /\ enriching = {}
  /\ handed = {} /\ stored = {} /\ clock = 0 /\ looks = 0 /\ reports = 0

(* is_message_already_processed *)
OnRecord(l) == l \in stored \/ held[l] # "no" \/ \E row \in ignored : row.letter = l

FirstOf(cases) ==
  LET holding == {n \in DOMAIN cases : cases[n].holds}
  IN cases[CHOOSE n \in holding : \A m \in holding : n <= m].is

-----------------------------------------------------------------------------
(* Gate 1: the sender.                                                     *)

Verdict(kind, bank) == [kind |-> kind, bank |-> bank]
ByClass(entry) ==
  IF entry.class \in {"transaction", "statement"} THEN Verdict(entry.class, entry.bank)
  ELSE Verdict("noise", "none")

(* The exact domain, then the longest the sender's lies under; what only   *)
(* resembles one, or borrows a bank's name, is a spoof.                    *)
VerifySender(address) ==
  LET Akin(how) == {e \in Registry : Kin[<<address.domain, e>>] = how}
      Longest(S) == CHOOSE e \in S : \A f \in S : f.length <= e.length
      Spoof(holds) == [holds |-> holds, is |-> Verdict("spoof", "none")]
      Unknown == Verdict("unverified", "none")
  IN IF address.ats = 0 THEN Unknown
     ELSE IF Akin("is") # {} THEN ByClass(CHOOSE e \in Akin("is") : TRUE)
     ELSE IF Akin("under") # {} THEN ByClass(Longest(Akin("under")))
     ELSE FirstOf(<<Spoof(\E how \in {"contains", "lookalike", "encoded", "close"} : Akin(how) # {}),
                    Spoof(\E e \in Registry : address.name \in e.names),
                    [holds |-> TRUE, is |-> Unknown]>>)

(* address_domain: only of an address with one @. *)
AddressDomain(l) ==
  IF Len(From[l]) > 0 /\ From[l][1].ats = 1 THEN {From[l][1].domain} ELSE {}

(* parse_authentication_results: Google's own header is the one believed. *)
Verdicts(l) == First(AuthHeaders[l], LAMBDA h : h.server = "google.com")

AuthenticationFailed(v) == v.dmarc = "fail" \/ (v.spf = "fail" /\ v.dkim = "fail")

(* Only what would pass is held against Google's verdicts. *)
ApplyAuthResults(verdict, l) ==
  IF verdict.kind \in {"transaction", "statement"} /\ \E v \in Verdicts(l) : AuthenticationFailed(v)
  THEN Verdict("spoof", "none") ELSE verdict

(* select_active *)
ActiveOverrides == {d \in Domains : overrides[d].status = "active"}

(* The user's word on whose domain it is renames what passed. *)
ApplyBankOverride(verdict, l) ==
  LET named == {overrides[d].bank : d \in AddressDomain(l) \cap ActiveOverrides}
  IN IF verdict.kind \in {"transaction", "statement"} /\ named # {}
     THEN [verdict EXCEPT !.bank = CHOOSE b \in named : TRUE] ELSE verdict

(* select_approved_domains *)
Approved(l) == {d \in AddressDomain(l) : suspects[d].status = "approved"}

EvaluateMetadataGate(l) ==
  IF From[l] = <<>> THEN Verdict("unverified", "none")
  ELSE IF Len(From[l]) > 1 THEN Verdict("spoof", "none")
  ELSE LET verified == IF Approved(l) # {} THEN LET d == CHOOSE e \in Approved(l) : TRUE
                                                 IN  Verdict(suspects[d].class, d)
                       ELSE VerifySender(From[l][1])
       IN ApplyBankOverride(ApplyAuthResults(verified, l), l)

-----------------------------------------------------------------------------
(* Gate 2: the content.                                                    *)

(* settled_text: what is yet to happen, or did not, says nothing. *)
Settled(phrases) == phrases \ {"will be debited", "not debited"}

HasAmount(phrases) == "amount" \in phrases
HasVerb(phrases) == phrases \cap {"debited", "will be debited", "not debited"} # {}
ReportsFailure(phrases) == "failed" \in phrases
ReportsBalance(phrases) == "balance" \in phrases
IsMandateCancellation(phrases) == "mandate cancelled" \in phrases
IsMandateRegistration(phrases) == "mandate registered" \in phrases

(* The first that holds, in the order of the code. *)
Classify(subject, head, tail) ==
  LET text == subject \cup head \cup tail
      verb == HasVerb(Settled(text))
      Class(holds, class) == [holds |-> holds, is |-> class]
  IN FirstOf(<<
       Class("otp" \in subject, "otp"),
       Class("kyc" \in subject, "kyc"),
       Class("statement" \in subject, "statement"),
       Class(IsMandateCancellation(text), "cancellation"),
       Class(IsMandateRegistration(text), "registration"),
       Class("loan" \in subject, "marketing"),
       Class(ReportsFailure(Settled(subject \cup head)), "noise"),
       Class("offer" \in subject /\ ~ (verb /\ HasAmount(text)), "marketing"),
       Class("due" \in subject /\ ~ verb, "reminder"),
       Class(verb, "transaction"),
       Class(ReportsBalance(Settled(text)), "balance"),
       Class("terms" \in subject, "noise"),
       Class(TRUE, "unknown")>>)

MayBeTransactional(class) == class \in {"transaction", "balance", "statement", "registration", "cancellation"}
SubjectLooksLikeTransaction(l) == Classify(Subject[l], {}, {}) \in {"transaction", "balance"}

-----------------------------------------------------------------------------
(* Notes: sightings, refusals and ignored letters.                         *)

(* Every note counts, and the last one of a domain is remembered. *)
RecordSightings(known, notes) ==
  [d \in Domains |->
     LET mine   == {n \in DOMAIN notes : notes[n].domain = d}
         passed == {n \in mine : notes[n].kind \in {"transaction", "statement", "noise"}}
     IN IF mine = {} THEN known[d]
        ELSE [seen |-> known[d].seen + Cardinality(mine), last |-> notes[Max(mine)].kind,
              passed |-> known[d].passed + Cardinality(passed)]]

(* A domain that was judged, either way, is counted no more. *)
RecordRejectionCandidates(known, notes) ==
  [d \in Domains |->
     LET times == {n \in DOMAIN notes : notes[n].candidate /\ notes[n].domain = d}
     IN IF times = {} \/ known[d].status \notin {"none", "pending"} THEN known[d]
        ELSE [status |-> "pending", rejects |-> known[d].rejects + Cardinality(times),
              class |-> "transaction"]]

IgnoredRow(l) == [letter |-> l, until |-> clock + Lifetime]

(* What a poll notes is stored at once, *)
StoreNotes(notes) ==
  /\ sightings' = RecordSightings(sightings, notes.sighted)
  /\ suspects' = RecordRejectionCandidates(suspects, notes.sighted)
  /\ refused' = refused \cup notes.turned /\ ignored' = ignored \cup notes.ignored

(* what a scan notes waits for the batch to be stored. *)
Collect(notes) ==
  /\ batch' = [sighted |-> batch.sighted \o notes.sighted, turned |-> batch.turned \cup notes.turned,
               ignored |-> batch.ignored \cup notes.ignored]
  /\ UNCHANGED <<sightings, suspects, refused, ignored>>

Note(r, sighted, turned, passed) ==
  LET notes == [sighted |-> sighted, turned |-> turned, ignored |-> passed]
  IN IF r = "scan" THEN Collect(notes) ELSE StoreNotes(notes) /\ UNCHANGED batch

(* The batch is stored in one transaction, *)
FlushBatch ==
  /\ batch # NothingNoted /\ batch' = NothingNoted
  /\ StoreNotes(batch)
  /\ UNCHANGED <<desk, overrides, held, enriching, handed, stored, clock, looks, reports>>

(* or, taken out before the pool answered, not at all. *)
LoseBatch ==
  /\ batch # NothingNoted /\ batch' = NothingNoted
  /\ UNCHANGED <<desk, sightings, suspects, overrides, refused, ignored, held, enriching,
                 handed, stored, clock, looks, reports>>

-----------------------------------------------------------------------------
(* A letter's way through the gates.                                       *)

Done(r) == desk' = [desk EXCEPT ![r] = NothingInHand]

PickUp(r, l) ==
  /\ desk[r].at = "idle" /\ looks < MaxLooks /\ looks' = looks + 1
  /\ ~ OnRecord(l)
  /\ desk' = [desk EXCEPT ![r] = [at |-> "headers", letter |-> l, bank |-> "none"]]
  /\ UNCHANGED <<batch, sightings, suspects, overrides, refused, ignored, held, enriching,
                 handed, stored, clock, reports>>

(* Gmail, or the pool, does not answer. *)
PutBack(r) ==
  /\ desk[r].at # "idle" /\ Done(r)
  /\ UNCHANGED <<batch, sightings, suspects, overrides, refused, ignored, held, enriching,
                 handed, stored, clock, looks, reports>>

(* What Gate 1 lets through is fetched only if subject and snippet promise *)
(* something.                                                              *)
Prejudge(r, l, notice, bank) ==
  LET fast == Classify(Subject[l], Snippet[l], {})
  IN IF MayBeTransactional(fast)
     THEN /\ desk' = [desk EXCEPT ![r] = [at |-> "body", letter |-> l, bank |-> bank]]
          /\ Note(r, notice, {}, {})
     ELSE /\ Done(r)
          /\ IF fast \in {"noise", "unknown"} THEN Note(r, notice, {}, {IgnoredRow(l)})
             ELSE Note(r, notice, {<<l, fast>>}, {})

JudgeSender(r) ==
  LET l       == desk[r].letter
      verdict == EvaluateMetadataGate(l)
      turned  == verdict.kind \in {"unverified", "spoof"}
      sighted == [domain |-> CHOOSE d \in AddressDomain(l) : TRUE, kind |-> verdict.kind,
                  candidate |-> turned /\ SubjectLooksLikeTransaction(l)]
      notice  == IF AddressDomain(l) = {} THEN <<>> ELSE <<sighted>>
  IN /\ desk[r].at = "headers"
     /\ IF turned THEN Done(r) /\ Note(r, notice, {<<l, verdict.kind>>}, {})
        ELSE IF verdict.kind = "noise" THEN Done(r) /\ Note(r, notice, {}, {})
        ELSE Prejudge(r, l, notice, verdict.bank)
     /\ UNCHANGED <<overrides, held, enriching, handed, stored, clock, looks, reports>>

-----------------------------------------------------------------------------
(* Gate 3: what could be read.                                             *)

Gate3FailureReason(read) ==
  IF read.amount = {} THEN "missing_amount"
  ELSE IF read.merchant = {} THEN "missing_counterparty" ELSE "missing_instrument"

(* One transaction stores observation and entry; a second one is ignored.  *)
(* A job follows only the entry just stored.                               *)
RecordUnassigned(l, reason, eligible) ==
  IF l \in stored \/ held[l] # "no" THEN UNCHANGED <<held, enriching>>
  ELSE /\ held' = [held EXCEPT ![l] = reason]
       /\ enriching' = IF eligible /\ reason \in {"missing_counterparty", "missing_instrument",
                                                  "pending_llm_enrichment"}
                       THEN enriching \cup {l} ELSE enriching

Hand(l, as, amount, bank) ==
  handed' = handed \cup {[letter |-> l, as |-> as, amount |-> amount, bank |-> bank]}

(* The result of the ladder is handed on, or the entry parked with what    *)
(* was read; llm is whether there is a local model.                        *)
TakeReading(r, l, class) ==
  \E read \in Reading[l] :
    LET tidied == Tidied({Delivered[l]}, class, read)
        reason == Gate3FailureReason(tidied)
    IN IF PassesGate3(tidied)
       THEN /\ Hand(l, class, tidied.amount, desk[r].bank)
            /\ UNCHANGED <<batch, sightings, suspects, refused, ignored, held, enriching>>
       ELSE /\ Note(r, <<>>, {<<l, reason>>}, {}) /\ UNCHANGED handed
            /\ \E llm \in BOOLEAN : RecordUnassigned(l, reason, llm)

(* Where no layer read anything the model is asked, if there is one. *)
NothingRead(r, l) ==
  /\ Reading[l] = {} /\ UNCHANGED handed
  /\ \E reason \in {"pending_llm_enrichment", "extraction_failed"} :
       Note(r, <<>>, {<<l, reason>>}, {}) /\ RecordUnassigned(l, reason, TRUE)

(* Regression: what the preview was judged to be is not judged again.      *)
AsPreviewed(l) == Classify(Subject[l], Snippet[l], {})

(* The whole text is judged anew. *)
ContentClass(l) == Classify(Subject[l], HeadOf[l], TailOf[l])

JudgeContent(r) ==
  LET l     == desk[r].letter
      class == ContentClass(l)
  IN /\ desk[r].at = "body" /\ Done(r)
     /\ \/ /\ class \in {"otp", "marketing", "kyc", "reminder"}
           /\ Note(r, <<>>, {<<l, class>>}, {}) /\ UNCHANGED <<held, enriching, handed>>
        \/ /\ class \in {"noise", "unknown"}
           /\ Note(r, <<>>, {}, {IgnoredRow(l)}) /\ UNCHANGED <<held, enriching, handed>>
        \/ /\ class \in {"statement", "registration", "cancellation"}
           /\ Hand(l, class, {}, desk[r].bank)
           /\ UNCHANGED <<batch, sightings, suspects, refused, ignored, held, enriching>>
        \/ /\ class \in {"registration", "cancellation"}   \* no merchant in it
           /\ Note(r, <<>>, {<<l, "mandate_missing_merchant">>}, {})
           /\ UNCHANGED <<held, enriching, handed>>
        \/ class \in {"transaction", "balance"} /\ (TakeReading(r, l, class) \/ NothingRead(r, l))
     /\ UNCHANGED <<overrides, stored, clock, looks, reports>>

-----------------------------------------------------------------------------
(* The rest: the queues, the user, the days.                               *)

(* The queues store what they were handed. *)
StoreHanded(res) ==
  /\ res \in handed /\ res.letter \notin stored /\ held[res.letter] = "no"
  /\ stored' = stored \cup {res.letter}
  /\ UNCHANGED <<desk, batch, sightings, suspects, overrides, refused, ignored, held, enriching,
                 handed, clock, looks, reports>>

(* A report revives, and may rename, the row of the domain. *)
Upsert(d, bank) == overrides' = [overrides EXCEPT ![d] = [status |-> "active", bank |-> bank]]

(* From a transaction, for the domain of the message it came from. *)
ReportWrongBank(d, bank) ==
  /\ \E l \in stored : d \in AddressDomain(l)
  /\ reports < MaxReports /\ reports' = reports + 1
  /\ Upsert(d, bank)
  /\ UNCHANGED <<desk, batch, sightings, suspects, refused, ignored, held, enriching, handed,
                 stored, clock, looks>>

(* The row stays, for the list in the settings. *)
Deactivate(d) == overrides' = [overrides EXCEPT ![d].status = "inactive"]

RevertOverride(d) ==
  /\ d \in ActiveOverrides
  /\ Deactivate(d)
  /\ UNCHANGED <<desk, batch, sightings, suspects, refused, ignored, held, enriching, handed,
                 stored, clock, looks, reports>>

(* Once a day what has been ignored long enough is forgotten. *)
PurgeExpired ==
  /\ clock < LastSweep /\ clock' = clock + 1
  /\ \/ ignored' = {row \in ignored : row.until >= clock'}
     \/ UNCHANGED ignored
  /\ UNCHANGED <<desk, batch, sightings, suspects, overrides, refused, held, enriching, handed,
                 stored, looks, reports>>

(* A quit loses what is in hand and what was not stored. *)
QuitReading ==
  /\ desk' = [r \in DOMAIN desk |-> NothingInHand] /\ batch' = NothingNoted
  /\ UNCHANGED <<sightings, suspects, overrides, refused, ignored, held, enriching, handed, stored,
                 clock, looks, reports>>

GatesNext ==
  \/ \E r \in DOMAIN desk : \/ \E l \in Letters : PickUp(r, l)
                            \/ JudgeSender(r) \/ JudgeContent(r) \/ PutBack(r)
  \/ FlushBatch \/ LoseBatch \/ PurgeExpired \/ QuitReading
  \/ \E res \in handed : StoreHanded(res)
  \/ \E d \in Domains : RevertOverride(d) \/ \E b \in UserBanks : ReportWrongBank(d, b)

GatesSpec == GatesInit /\ [][GatesNext]_gateVars

-----------------------------------------------------------------------------
GatesTypeOK ==
  /\ \A r \in DOMAIN desk : desk[r].at \in {"idle", "headers", "body"}
  /\ ignored \subseteq [letter : Letters, until : Nat]
  /\ enriching \subseteq {l \in Letters : held[l] # "no"} /\ stored \subseteq Letters
  /\ \A d \in Domains : sightings[d].passed <= sightings[d].seen

(* The registry knows the sender and Google does not contradict it.        *)
Vouched(l) ==
  /\ Len(From[l]) = 1 /\ ~ \E v \in Verdicts(l) : AuthenticationFailed(v)
  /\ From[l][1].ats = 1
  /\ \E e \in Registry : Kin[<<From[l][1].domain, e>>] \in {"is", "under"}

(* An address with a second @.  A comment and a test want none of them to  *)
(* be verified (message_processor.rs:945-950, message_processor_tests.rs:  *)
(* 127-152), and AddressDomain gives none of them a domain; VerifySender,  *)
(* as the code has it, reads on from the last @.  Nothing is claimed of    *)
(* them below.                                                             *)
SecondAt(l) == Len(From[l]) = 1 /\ From[l][1].ats > 1

(* Whatever the snippet promised, whatever the user reported about whose   *)
(* domain it is and however polls and scans overlap, a payment goes to the *)
(* ledger only from a message whose whole text says the money has moved; a *)
(* message about a balance brings an amount only if no balance could be    *)
(* read in it (message_processor.rs:163-662, content_classifier.rs:164-    *)
(* 233); of the messages whose sender has one @ in the address, only those *)
(* that are vouched for are handed on or leave a record that would keep    *)
(* them from being judged again (message_processor.rs:97).                 *)
OnlyMovedMoney ==
  /\ \A res \in handed : res.as = "transaction" =>
       /\ "debited" \in Subject[res.letter] \cup HeadOf[res.letter] \cup TailOf[res.letter]
       /\ "failed" \notin Subject[res.letter] \cup HeadOf[res.letter]
  /\ \A res \in handed : res.as = "balance" /\ res.amount \ {0} # {} =>
       \E read \in Reading[res.letter] : read.balance = {} /\ res.amount = read.amount
  /\ \A l \in {k \in Letters : OnRecord(k)} \cup {res.letter : res \in handed} :
       Vouched(l) \/ SecondAt(l)
=============================================================================
