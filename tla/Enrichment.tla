----------------------------- MODULE Enrichment -----------------------------
(***************************************************************************)
(* The queue of entries no rule could complete, and the local language     *)
(* model ("layer 6") that completes them in the background while the user  *)
(* may resolve or dismiss the same entries.                                *)
(*                                                                         *)
(* A message is parked as an observation and an open entry; a job is made  *)
(* durable, runs for minutes, and applies its outcome in several commits.  *)
(* The application may quit between any two of them; the next launch       *)
(* replays every durable job.  What reconciliation does with an            *)
(* observation is left open: it books a new transaction, merges into one   *)
(* that exists, or asks the user (module Reconciliation).                  *)
(*                                                                         *)
(* src/src-tauri/src/ingestion/queues.rs, ingestion/message_processor.rs,  *)
(* db/unassigned_transactions.rs, db/layer6_jobs.rs, commands/data.rs      *)
(***************************************************************************)
EXTENDS Integers, FiniteSets

CONSTANTS
  Entries,    \* unassigned_transactions rows that may come to exist
  Messages,
  Message,    \* the message each entry is parked from
  Scanned,    \* the messages of the historical scan, which may be cancelled
  Outcomes,   \* the outcomes a run of the model may have (Layer6Outcome)
  None,
  MaxSaves,   \* bound on the manual resolutions the user submits
  MaxFaults   \* bound on failed database writes

ASSUME EnrichmentAssumption ==
  /\ Message \in [Entries -> Messages] /\ Scanned \subseteq Messages
  /\ Outcomes \subseteq {"extracted", "rejected", "not_a_transaction", "failed"}
  /\ None \notin Entries
  /\ MaxSaves \in Nat /\ MaxFaults \in Nat

VARIABLES
  entry,     \* status of the entry; "cleared" once a cancelled scan deleted it
  reason,    \* why the entry is in the queue
  stored,    \* whether its observation exists
  linked,    \* whether the observation has its transaction
  decided,   \* whether match_decisions names the observation
  review,    \* whether a pending cluster asks about the observation
  durable,   \* entries with a layer6_pending_jobs row
  step,      \* where the entry's intake or job stands, in memory
  form,      \* the entry the user has open
  saving,    \* whether that form's transaction is booked but not yet settled
  enriched,  \* transactions the background jobs booked for the entry
  manual,    \* manual observations the user's forms booked for the entry
  saved,     \* entries whose form reported success (history)
  saves, faults

ledger == <<linked, decided, review, enriched>>
screen == <<form, saving, manual, saved, saves>>
vars   == <<entry, reason, stored, ledger, durable, step, screen, faults>>

Steps == {"idle", "persist", "send", "run", "check", "write", "book", "settle", "refine",
          "reject", "ignore", "forget"}

TypeOK ==
  /\ entry \in [Entries -> {"none", "open", "resolved", "ignored", "cleared"}]
  /\ reason \in [Entries -> {"pending", "incomplete", "failed", "gate3", "not_a_transaction"}]
  /\ stored \in [Entries -> BOOLEAN] /\ linked \in [Entries -> BOOLEAN]
  /\ decided \in [Entries -> BOOLEAN] /\ review \in [Entries -> BOOLEAN]
  /\ durable \subseteq Entries
  /\ step \in [Entries -> Steps]
  /\ form \in Entries \cup {None} /\ saving \in BOOLEAN
  /\ enriched \in [Entries -> Nat] /\ manual \in [Entries -> Nat]
  /\ saved \subseteq Entries
  /\ saves \in Nat /\ faults \in Nat

Init ==
  /\ entry = [e \in Entries |-> "none"]
  /\ reason = [e \in Entries |-> "pending"]
  /\ stored = [e \in Entries |-> FALSE] /\ linked = [e \in Entries |-> FALSE]
  /\ decided = [e \in Entries |-> FALSE] /\ review = [e \in Entries |-> FALSE]
  /\ durable = {}
  /\ step = [e \in Entries |-> "idle"]
  /\ form = None /\ saving = FALSE
  /\ enriched = [e \in Entries |-> 0] /\ manual = [e \in Entries |-> 0]
  /\ saved = {}
  /\ saves = 0 /\ faults = 0

Goto(e, s) == step' = [step EXCEPT ![e] = s]

(* A database write that may fail, as often as the bound allows. *)
Attempt(ok) ==
  /\ ~ok => faults < MaxFaults
  /\ faults' = IF ok THEN faults ELSE faults + 1

-----------------------------------------------------------------------------
(* Intake: observation and entry are one commit, and a message with an     *)
(* observation is not parked again.                                        *)

Unseen(e) ==
  /\ entry[e] = "none"
  /\ \A f \in Entries : Message[f] = Message[e] => ~stored[f]

Park(e, why) ==
  /\ Unseen(e)
  /\ entry' = [entry EXCEPT ![e] = "open"]
  /\ stored' = [stored EXCEPT ![e] = TRUE]
  /\ reason' = [reason EXCEPT ![e] = why]
  /\ Goto(e, IF why \in {"pending", "incomplete"} THEN "persist" ELSE "idle")
  /\ UNCHANGED <<ledger, durable, screen, faults>>

(* A job that cannot be made durable is queued all the same. *)
Persist(e, ok) ==
  /\ step[e] = "persist"
  /\ Attempt(ok)
  /\ durable' = IF ok THEN durable \cup {e} ELSE durable
  /\ Goto(e, "send")
  /\ UNCHANGED <<entry, reason, stored, ledger, screen>>

(* Regression: the durable row is deleted when the job is taken up. *)
SendDeletes(e) ==
  /\ step[e] = "send"
  /\ Goto(e, "run")
  /\ durable' = durable \ {e}
  /\ UNCHANGED <<entry, reason, stored, ledger, screen, faults>>

Send(e) ==
  /\ step[e] = "send"
  /\ Goto(e, "run")
  /\ UNCHANGED <<entry, reason, stored, ledger, durable, screen, faults>>

-----------------------------------------------------------------------------
(* One job: the model runs, then its outcome is applied.                   *)

Run(e, outcome) ==
  /\ step[e] = "run"
  /\ Goto(e, CASE outcome = "extracted" -> "check"
               [] outcome = "rejected"  -> "reject"
               [] outcome = "failed"    -> "idle"
               [] OTHER                 -> "ignore")
  /\ UNCHANGED <<entry, reason, stored, ledger, durable, screen, faults>>

(* Regression: an observation that already has its transaction goes on. *)
CheckIgnoresLink(e) ==
  /\ step[e] = "check"
  /\ Goto(e, IF entry[e] # "open" \/ ~stored[e] THEN "forget" ELSE "write")
  /\ UNCHANGED <<entry, reason, stored, ledger, durable, screen, faults>>

(* Regression: an entry that left the queue is an error, not an end. *)
CheckRefuses(e) ==
  /\ step[e] = "check"
  /\ Goto(e, IF entry[e] # "open" THEN "idle"
             ELSE IF ~stored[e] \/ linked[e] THEN "forget" ELSE "write")
  /\ entry' = IF entry[e] = "open" /\ linked[e]
              THEN [entry EXCEPT ![e] = "resolved"] ELSE entry
  /\ UNCHANGED <<reason, stored, ledger, durable, screen, faults>>

(* Stop if the entry left the queue or was applied before. *)
Check(e) ==
  /\ step[e] = "check"
  /\ Goto(e, IF entry[e] # "open" \/ ~stored[e] \/ linked[e] THEN "forget" ELSE "write")
  /\ entry' = IF entry[e] = "open" /\ linked[e]
              THEN [entry EXCEPT ![e] = "resolved"] ELSE entry
  /\ UNCHANGED <<reason, stored, ledger, durable, screen, faults>>

(* The whole row is written back as Check read it, its NULL link included; *)
(* ready tells whether the enriched observation may be booked.             *)
Write(e, ready) ==
  /\ step[e] = "write"
  /\ IF stored[e]
     THEN /\ linked' = [linked EXCEPT ![e] = FALSE]
          /\ Goto(e, IF ready THEN "book" ELSE "refine")
     ELSE UNCHANGED linked /\ Goto(e, "idle")
  /\ UNCHANGED <<entry, reason, stored, decided, review, enriched, durable, screen, faults>>

(* reconcile_transactionally: one commit, rolled back if the row is gone. *)
Book(e, verdict) ==
  /\ step[e] = "book"
  /\ IF stored[e]
     THEN /\ decided' = [decided EXCEPT ![e] = TRUE]
          /\ linked' = [linked EXCEPT ![e] = @ \/ verdict # "ambiguous"]
          /\ review' = [review EXCEPT ![e] = @ \/ verdict = "ambiguous"]
          /\ enriched' = [enriched EXCEPT ![e] = IF verdict = "new" THEN @ + 1 ELSE @]
          /\ Goto(e, "settle")
     ELSE UNCHANGED ledger /\ Goto(e, "idle")
  /\ UNCHANGED <<entry, reason, stored, durable, screen, faults>>

(* Regression: the entry is closed whether it is open or not. *)
SettleAlways(e) ==
  /\ step[e] = "settle"
  /\ entry' = [entry EXCEPT ![e] = "resolved"]
  /\ Goto(e, "forget")
  /\ UNCHANGED <<reason, stored, ledger, durable, screen, faults>>

Settle(e) ==
  /\ step[e] = "settle"
  /\ entry' = [entry EXCEPT ![e] = IF @ = "open" THEN "resolved" ELSE @]
  /\ Goto(e, "forget")
  /\ UNCHANGED <<reason, stored, ledger, durable, screen, faults>>

(* Only an open entry's reason is refined; a missing entry is an error. *)
Refined(e, why) ==
  reason' = IF entry[e] = "open" THEN [reason EXCEPT ![e] = why] ELSE reason

(* Regression: an incomplete result closes the entry. *)
RefineCloses(e) ==
  /\ step[e] = "refine"
  /\ entry' = [entry EXCEPT ![e] = IF @ = "open" THEN "resolved" ELSE @]
  /\ Goto(e, IF entry[e] = "cleared" THEN "idle" ELSE "forget")
  /\ UNCHANGED <<reason, stored, ledger, durable, screen, faults>>

Refine(e) ==
  /\ step[e] = "refine"
  /\ Refined(e, "gate3")
  /\ Goto(e, IF entry[e] = "cleared" THEN "idle" ELSE "forget")
  /\ UNCHANGED <<entry, stored, ledger, durable, screen, faults>>

Reject(e) ==
  /\ step[e] = "reject"
  /\ IF reason[e] = "pending" THEN Refined(e, "failed") ELSE UNCHANGED reason
  /\ Goto(e, "forget")
  /\ UNCHANGED <<entry, stored, ledger, durable, screen, faults>>

(* Not a transaction: the entry is ignored, and one that is resolved or    *)
(* gone is an error, after which the durable job stays.                    *)
Ignore(e) ==
  /\ step[e] = "ignore"
  /\ Refined(e, "not_a_transaction")
  /\ entry' = [entry EXCEPT ![e] = IF @ = "open" THEN "ignored" ELSE @]
  /\ Goto(e, IF entry[e] \in {"open", "ignored"} THEN "forget" ELSE "idle")
  /\ UNCHANGED <<stored, ledger, durable, screen, faults>>

Forget(e, ok) ==
  /\ step[e] = "forget"
  /\ Attempt(ok)
  /\ durable' = IF ok THEN durable \ {e} ELSE durable
  /\ Goto(e, "idle")
  /\ UNCHANGED <<entry, reason, stored, ledger, screen>>

(* The application quits or dies; the next launch queues every durable job. *)
Restart ==
  /\ step' = [e \in Entries |-> IF e \in durable THEN "run" ELSE "idle"]
  /\ form' = None /\ saving' = FALSE
  /\ UNCHANGED <<entry, reason, stored, ledger, durable, manual, saved, saves, faults>>

(* A cancelled scan aborts its intakes, one of which may still finish the  *)
(* write it is in, and deletes what it parked but nobody decided.          *)
Swept(e) == Message[e] \in Scanned

CancelScan ==
  /\ entry' = [e \in Entries |-> IF Swept(e) /\ entry[e] # "none" THEN "cleared" ELSE entry[e]]
  /\ stored' = [e \in Entries |-> stored[e] /\ (Swept(e) => linked[e] \/ decided[e])]
  /\ step' = [e \in Entries |-> IF Swept(e) /\ step[e] \in {"persist", "send"}
                                THEN "idle" ELSE step[e]]
  /\ durable' \in {durable, durable \cup {e \in Entries : Swept(e) /\ step[e] = "persist"}}
  /\ UNCHANGED <<reason, ledger, screen, faults>>

-----------------------------------------------------------------------------
(* The user: one entry is open in the review screen at a time.             *)

OpenForm(e) ==
  /\ form = None /\ entry[e] = "open"
  /\ form' = e
  /\ UNCHANGED <<entry, reason, stored, ledger, durable, step, saving, manual, saved,
                 saves, faults>>

CloseForm ==
  /\ form # None /\ ~saving
  /\ form' = None
  /\ UNCHANGED <<entry, reason, stored, ledger, durable, step, saving, manual, saved,
                 saves, faults>>

(* The form stays open when the dismissal is refused. *)
Dismiss(e) ==
  /\ form = e /\ ~saving
  /\ entry' = [entry EXCEPT ![e] = IF @ = "open" THEN "ignored" ELSE @]
  /\ form' = IF entry[e] \in {"open", "ignored"} THEN None ELSE e
  /\ UNCHANGED <<reason, stored, ledger, durable, step, saving, manual, saved, saves, faults>>

(* Saving books the user's transaction first, as an observation of its     *)
(* own, and settles the entry afterwards.                                  *)
Save(e, verdict) ==
  /\ form = e /\ ~saving /\ saves < MaxSaves
  /\ saving' = TRUE /\ saves' = saves + 1
  /\ manual' = [manual EXCEPT ![e] = IF verdict = "new" THEN @ + 1 ELSE @]
  /\ UNCHANGED <<entry, reason, stored, ledger, durable, step, form, saved, faults>>

FinishSave(e) ==
  /\ form = e /\ saving
  /\ saving' = FALSE
  /\ entry' = [entry EXCEPT ![e] = IF @ = "open" THEN "resolved" ELSE @]
  /\ IF entry[e] \in {"open", "resolved"}
     THEN form' = None /\ saved' = saved \cup {e}
     ELSE UNCHANGED <<form, saved>>
  /\ UNCHANGED <<reason, stored, ledger, durable, step, manual, saves, faults>>

(* The user decides a cluster about the observation: match and keep        *)
(* separate link it, reject does not.                                      *)
DecideCluster(e) ==
  /\ review[e]
  /\ review' = [review EXCEPT ![e] = FALSE]
  /\ \E link \in BOOLEAN : linked' = [linked EXCEPT ![e] = @ \/ link]
  /\ UNCHANGED <<entry, reason, stored, decided, enriched, durable, step, screen, faults>>

-----------------------------------------------------------------------------
Verdicts == {"new", "merged", "ambiguous"}

JobStep(e) ==
  \/ Send(e) \/ Check(e) \/ Settle(e) \/ Refine(e) \/ Reject(e) \/ Ignore(e)
  \/ \E outcome \in Outcomes : Run(e, outcome)
  \/ \E ready \in BOOLEAN : Write(e, ready)
  \/ \E verdict \in Verdicts : Book(e, verdict)
  \/ \E ok \in BOOLEAN : Persist(e, ok) \/ Forget(e, ok)

UserStep(e) ==
  \/ OpenForm(e) \/ Dismiss(e) \/ FinishSave(e) \/ DecideCluster(e)
  \/ \E verdict \in Verdicts : Save(e, verdict)

Next ==
  \/ \E e \in Entries : \/ \E why \in {"pending", "incomplete", "failed"} : Park(e, why)
                        \/ JobStep(e) \/ UserStep(e)
  \/ Restart \/ CancelScan \/ CloseForm

Spec == Init /\ [][Next]_vars

-----------------------------------------------------------------------------
(* Applying a job again is harmless: however often it is replayed, whoever *)
(* else decides the entry, and whether or not a cancelled scan made the    *)
(* message be parked anew, the background books its payment at most once   *)
(* (apply_layer6_success).                                                 *)
EnrichedOnce ==
  \A e, f \in Entries :
    /\ enriched[e] <= 1
    /\ Message[e] = Message[f] /\ enriched[e] > 0 /\ enriched[f] > 0 => e = f

(* An entry leaves the queue as resolved only with its payment in the      *)
(* ledger or before the user: the background reconciled its observation or *)
(* the user's form was booked (settle_if_open, update_status).             *)
ResolvedIsBacked ==
  \A e \in Entries : entry[e] = "resolved" => decided[e] \/ e \in saved

OutcomeKept ==
  \A e \in Entries : entry[e] \in {"resolved", "ignored"} => entry'[e] \in {entry[e], "cleared"}

(* Two deciders of one entry never overwrite each other: once it is        *)
(* resolved or ignored it stays so until a cancelled scan deletes it       *)
(* (update_status, settle_if_open).                                        *)
OutcomeIsFinal == [][OutcomeKept]_vars

DeletesCommitted == \A e \in durable \ durable' : entry'[e] # "open" \/ reason'[e] # "pending"

(* A durable job is deleted only once its outcome is committed: the entry  *)
(* has left the queue or is no longer waiting for the model                *)
(* (delete_persisted_layer6_job).                                          *)
DurableUntilCommitted == [][DeletesCommitted]_vars
=============================================================================
