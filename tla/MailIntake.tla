----------------------------- MODULE MailIntake -----------------------------
(***************************************************************************)
(* How mail becomes ledger entries: polling and the historical scan work   *)
(* on one mailbox and one set of rows, the transaction workers empty the   *)
(* queue both fill, and the application may quit and be launched again at  *)
(* any point.                                                              *)
(*                                                                         *)
(* src/src-tauri/src/ingestion/polling.rs, ingestion/historical_scan.rs,   *)
(* ingestion/queues.rs, db/mod.rs                                          *)
(***************************************************************************)
EXTENDS GmailPolling, HistoricalScan

CONSTANT MaxCrashes  \* bound on the times the application quits
ASSUME IntakeAssumption ==
  MaxCrashes \in Nat /\ MaxFetches \in Nat \ {0} /\ Interval \in Nat \ {0}

VARIABLE crashes

vars == <<mail, polling, scanning, crashes>>

TypeOK == MailType /\ PollingType /\ ScanningType /\ crashes \in 0..MaxCrashes

Init == MailInit /\ PollingInit /\ ScanningInit /\ crashes = 0

(* Regression: the launch leaves the row of an interrupted scan alone. *)
RelaunchKeepsClaims ==
  /\ crashes < MaxCrashes /\ crashes' = crashes + 1
  /\ queue' = [m \in Messages |-> 0]
  /\ poll' = [p \in Pollers |-> Idle]
  /\ scan' = [s \in Scanners |-> AtRest]
  /\ cancelled' = FALSE /\ late' = {} /\ stuck' = FALSE
  /\ UNCHANGED <<arrived, stored, booked, excused, logged, checkpoint, account, horizon, marker,
                 searchFailed>>

(* The application quits, losing what is in memory, and is launched again; *)
(* a scan left in progress is then marked failed (initialize_database).    *)
Relaunch ==
  /\ crashes < MaxCrashes /\ crashes' = crashes + 1
  /\ queue' = [m \in Messages |-> 0]
  /\ poll' = [p \in Pollers |-> Idle]
  /\ marker' = IF InProgress THEN [marker EXCEPT !.status = "failed"] ELSE marker
  /\ scan' = [s \in Scanners |-> AtRest]
  /\ cancelled' = FALSE /\ late' = {} /\ stuck' = FALSE
  /\ UNCHANGED <<arrived, stored, booked, excused, logged, checkpoint, account, horizon,
                 searchFailed>>

Worker ==
  /\ \E m \in Messages : Commit(m) \/ Drop(m)
  /\ UNCHANGED <<polling, scanning, crashes>>

Polls ==
  /\ Expire \/ \E p \in Pollers : PollStep(p) \/ GiveUp(p) \/ FetchFails(p)
  /\ UNCHANGED <<scanning, crashes>>

Scans ==
  /\ \/ Cancel
     \/ \E s \in Scanners : Request(s) \/ ScanStep(s) \/ SearchFails(s)
     \/ \E s \in Scanners, m \in Messages : FetchMailFails(s, m)
     \/ \E m \in Messages : Land(m)
  /\ UNCHANGED <<polling, crashes>>

NewMail == Arrive /\ UNCHANGED <<polling, scanning, crashes>>

Next == NewMail \/ Polls \/ Scans \/ Worker \/ Relaunch

Spec == Init /\ [][Next]_vars

(* Polling cycles come round for ever, the workers keep emptying the       *)
(* queue, and a scan's tasks run to their end: their network calls have    *)
(* bounded retries and the queue serves blocked senders in order.          *)
PollFairness == \A p \in Pollers : WF_vars(PollStep(p) /\ UNCHANGED <<scanning, crashes>>)
ScanFairness == \A s \in Scanners : SF_vars(ScanStep(s) /\ UNCHANGED <<polling, crashes>>)
FairSpec == Spec /\ PollFairness /\ ScanFairness /\ WF_vars(Worker)

-----------------------------------------------------------------------------
(* However often polling, scans, retries and late writes meet one message, *)
(* it reaches the ledger at most once (insert_observation_idempotent,      *)
(* is_message_already_processed).                                          *)
BookedOnce == \A m \in Messages : booked[m] <= 1

(* Requests racing for the checkpoint start one scan: two would process    *)
(* every message twice (claim_checkpoint_in_progress).                     *)
OneScan == \A s, t \in Scanners : Running(s) /\ Running(t) => s = t

(* While the application keeps running, polling resumes from a history id  *)
(* below which no mail was passed over without a trace, though loop and    *)
(* "Sync now" interleave and save in any order.  The trace of a message    *)
(* whose processing failed, or whose job was dropped, is a line in the log *)
(* (poll_single_account).                                                  *)
PollingKeepsUp == crashes = 0 => NoMailSkippedByPolling

(* The history id is "written only after messages are successfully         *)
(* processed, so an interrupted poll resumes rather than skipping the mail *)
(* it never handled" (save_history_id, polling.rs:605-606): when it is     *)
(* saved, the program knows what became of every message up to it.         *)
SavedAfterHandled ==
  [][\A p \in Pollers :
       Save(p) /\ crashes = 0 => \A m \in 1..poll[p].latest : Known(m)]_vars

(* A scan that completes has accounted for all mail that was there when it *)
(* was requested, whatever is cancelled, cannot be fetched or is polled    *)
(* meanwhile, while no search failed and the application kept running.     *)
(* What cannot be fetched has a row that says so; that row, the rows of a  *)
(* flush and a queued job may each be lost to the database, with a line in *)
(* the log (run_scan, run_scan_batches).                                   *)
Covers(s) == \A m \in 1..scan[s].asked : Accounted(m)'

UninterruptedScanCovers ==
  [][\A s \in Scanners :
       Complete(s) /\ crashes = 0 /\ ~searchFailed => Covers(s)]_vars

(* No scan holds its claim for ever, unless the database lost the one      *)
(* write that ends it: also after the application quit in the middle, the  *)
(* account can be scanned again.  A claim left by a lost write is held     *)
(* until the next launch (run_scan, initialize_database).                  *)
ScanEnds == []<>(~InProgress \/ stuck)
=============================================================================
