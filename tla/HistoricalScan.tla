--------------------------- MODULE HistoricalScan ---------------------------
(***************************************************************************)
(* The historical scan of one Gmail account.  A request claims the         *)
(* account's checkpoint, searches the mailbox or takes over the list of a  *)
(* scan that failed, and processes the listed messages with several        *)
(* fetches in flight.  The rows of ignored messages are collected; every   *)
(* few messages they are stored, and how many were handled.  The user may  *)
(* cancel the scan, which deletes what it stored.                          *)
(*                                                                         *)
(* src/src-tauri/src/ingestion/historical_scan.rs,                         *)
(* ingestion/scan_db_batcher.rs, db/processing_checkpoints.rs              *)
(***************************************************************************)
EXTENDS MailStore

CONSTANTS
  Scanners,    \* the requests that may be under way at once
  NoScan,      \* no checkpoint row
  MaxFetches,  \* MAX_CONCURRENT_FETCHES
  Interval     \* CHECKPOINT_INTERVAL

VARIABLES
  marker,    \* the historical_scan row of processing_checkpoints
  cancelled, \* whether the account is in cancelled_scans
  scan,      \* each request's place and its local state
  late,      \* messages of aborted fetches whose write may still land
  searchFailed,    \* whether a search ever failed (history)
  stuck      \* a scan's last write was lost: its row stays in progress (history)

scanning == <<marker, cancelled, scan, late, searchFailed, stuck>>

Marker == [status : {"in_progress", "failed", "completed"}, ids : Seq(Messages), done : Nat]

ASSUME NoScanAssumption == NoScan \notin Marker

Places == {"idle", "claim", "begin", "search", "run", "count", "fail", "sweep"}

(* A fetch is new, past the check, or finished with a result to be joined. *)
TaskStates == {"new", "fetch", "alert", "nothing", "error"}

Fetches == UNION {[ms -> TaskStates] : ms \in SUBSET Messages}

Scan == [pc : Places, found : Marker \union {NoScan}, asked : 0..MaxMail, ids : Seq(Messages),
         next : Nat \ {0}, done : Nat, batch : Nat, rows : SUBSET Messages,
         tasks : Fetches]

ScanningType ==
  /\ marker \in Marker \union {NoScan}
  /\ cancelled \in BOOLEAN /\ searchFailed \in BOOLEAN /\ stuck \in BOOLEAN
  /\ late \subseteq Messages
  /\ scan \in [Scanners -> Scan]

NoTasks == [m \in {} |-> "new"]
AtRest == [pc |-> "idle", found |-> NoScan, asked |-> 0, ids |-> <<>>, next |-> 1,
           done |-> 0, batch |-> 0, rows |-> {}, tasks |-> NoTasks]

ScanningInit ==
  /\ marker = NoScan /\ cancelled = FALSE /\ late = {} /\ searchFailed = FALSE /\ stuck = FALSE
  /\ scan = [s \in Scanners |-> AtRest]

Running(s) == scan[s].pc \notin {"idle", "claim"}
InProgress == marker # NoScan /\ marker.status = "in_progress"
Tasks(s)   == DOMAIN scan[s].tasks

(* The last write to a scan's row is tried once, and nothing looks whether *)
(* it succeeded.                                                           *)
WriteLost == UNCHANGED marker /\ stuck' = (stuck \/ InProgress)
LastWrite(row) == WriteLost \/ (marker' = row /\ UNCHANGED stuck)

-----------------------------------------------------------------------------
(* Claiming: a SELECT, then an upsert that refuses a row in progress.      *)

Request(s) ==
  /\ scan[s].pc = "idle" /\ ~InProgress
  /\ scan' = [scan EXCEPT ![s].pc = "claim", ![s].found = marker, ![s].asked = arrived]
  /\ UNCHANGED <<marker, cancelled, late, searchFailed, stuck, mail>>

Claimed ==
  IF marker = NoScan THEN [status |-> "in_progress", ids |-> <<>>, done |-> 0]
  ELSE [marker EXCEPT !.status = "in_progress"]

(* Regression: the upsert does not look at the status. *)
ClaimUnguarded(s) ==
  /\ scan[s].pc = "claim"
  /\ scan' = [scan EXCEPT ![s].pc = "begin"] /\ marker' = Claimed
  /\ UNCHANGED <<cancelled, late, searchFailed, stuck, mail>>

Claim(s) ==
  /\ scan[s].pc = "claim"
  /\ IF InProgress
     THEN scan' = [scan EXCEPT ![s] = AtRest] /\ UNCHANGED marker
     ELSE scan' = [scan EXCEPT ![s].pc = "begin"] /\ marker' = Claimed
  /\ UNCHANGED <<cancelled, late, searchFailed, stuck, mail>>

-----------------------------------------------------------------------------
(* Starting: the list of messages, and the first fetches.                  *)

WithTask(tasks, m) == [n \in DOMAIN tasks \union {m} |-> IF n = m THEN "new" ELSE tasks[n]]
WithoutTask(tasks, m) == [n \in DOMAIN tasks \ {m} |-> tasks[n]]

(* The first fetches of a list of which "done" messages are skipped. *)
Started(s, ids, done) ==
  LET last == IF done + MaxFetches < Len(ids) THEN done + MaxFetches ELSE Len(ids) IN
  [scan[s] EXCEPT !.pc = "run", !.found = NoScan, !.ids = ids, !.done = done,
     !.next = IF done < last THEN last + 1 ELSE done + 1,
     !.tasks = [m \in {ids[i] : i \in (done + 1)..last} |-> "new"]]

(* Regression: a completed scan's list is taken over as well. *)
ResumesAny(s) == scan[s].found # NoScan /\ scan[s].found.ids # <<>>

(* Only a failed scan's list is taken over. *)
Resumes(s) == scan[s].found # NoScan /\ scan[s].found.status = "failed" /\ scan[s].found.ids # <<>>

Begin(s) ==
  /\ scan[s].pc = "begin" /\ cancelled' = FALSE
  /\ IF Resumes(s)
     THEN /\ marker' = [scan[s].found EXCEPT !.status = "in_progress"]
          /\ scan' = [scan EXCEPT ![s] = Started(s, scan[s].found.ids, scan[s].found.done)]
     ELSE scan' = [scan EXCEPT ![s].pc = "search", ![s].found = NoScan] /\ UNCHANGED marker
  /\ UNCHANGED <<late, searchFailed, stuck, mail>>

(* Gmail lists the newest message first. *)
Mailbox == [i \in 1..arrived |-> arrived + 1 - i]

Search(s) ==
  /\ scan[s].pc = "search"
  /\ marker' = [status |-> "in_progress", ids |-> Mailbox, done |-> 0]
  /\ scan' = [scan EXCEPT ![s] = Started(s, Mailbox, 0)]
  /\ UNCHANGED <<cancelled, late, searchFailed, stuck, mail>>

SearchFails(s) ==
  /\ scan[s].pc = "search" /\ searchFailed' = TRUE
  /\ scan' = [scan EXCEPT ![s].pc = "fail"]
  /\ UNCHANGED <<marker, cancelled, late, stuck, mail>>

(* Regression: the row is given a status nothing resumes. *)
FailForGood(s) ==
  /\ scan[s].pc = "fail" /\ scan' = [scan EXCEPT ![s] = AtRest]
  /\ marker' = IF marker = NoScan THEN NoScan ELSE [marker EXCEPT !.status = "error"]
  /\ UNCHANGED <<cancelled, late, searchFailed, stuck, mail>>

(* The row is marked failed; whatever list it holds stays. *)
Fail(s) ==
  /\ scan[s].pc = "fail" /\ scan' = [scan EXCEPT ![s] = AtRest]
  /\ LastWrite(IF marker = NoScan THEN NoScan ELSE [marker EXCEPT !.status = "failed"])
  /\ UNCHANGED <<cancelled, late, searchFailed, mail>>

-----------------------------------------------------------------------------
(* The fetches in flight, each running process_message.                    *)

Task(s, m, state) == scan' = [scan EXCEPT ![s].tasks[m] = state]
Fetching(s, m, state) == scan[s].pc \in {"run", "count"} /\ m \in Tasks(s) /\ scan[s].tasks[m] = state

LookUp(s, m) ==
  /\ Fetching(s, m, "new") /\ Task(s, m, IF Seen(m) THEN "nothing" ELSE "fetch")
  /\ UNCHANGED <<marker, cancelled, late, searchFailed, stuck, mail>>

FetchMail(s, m) ==
  /\ Fetching(s, m, "fetch") /\ Processed(m)
  /\ Task(s, m, IF Kind[m] = "alert" THEN "alert" ELSE "nothing")
  /\ UNCHANGED <<marker, cancelled, late, searchFailed, stuck>>

(* An ignored message's row is collected (ScanDbBatcher). *)
Ignore(s, m) ==
  /\ Fetching(s, m, "fetch") /\ Kind[m] = "other"
  /\ scan' = [scan EXCEPT ![s].tasks[m] = "nothing", ![s].rows = @ \union {m}]
  /\ UNCHANGED <<marker, cancelled, late, searchFailed, stuck, mail>>

FetchMailFails(s, m) ==
  /\ Fetching(s, m, "fetch") /\ Task(s, m, "error")
  /\ UNCHANGED <<marker, cancelled, late, searchFailed, stuck, mail>>

(* Storing the rows collected, which are gone if that fails. *)
Flush(s) ==
  /\ \/ stored' = stored \union scan[s].rows /\ UNCHANGED logged
     \/ logged' = logged \union scan[s].rows /\ UNCHANGED stored
  /\ UNCHANGED <<arrived, queue, booked, excused>>

(* Seeing a cancellation, the scan stops: its rows are stored and its      *)
(* fetches aborted, though a write handed to the database still lands.     *)
Stopped(s) ==
  /\ cancelled' = FALSE /\ Flush(s)
  /\ scan' = [scan EXCEPT ![s].pc = "sweep", ![s].rows = {}, ![s].tasks = NoTasks]
  /\ late' = late \union {m \in Tasks(s) : scan[s].tasks[m] = "fetch" /\ Kind[m] = "other"}

(* A fetch is joined, its result handed on, and the message counted; the   *)
(* row of one that failed is tried once.                                   *)
Join(s, m) ==
  /\ scan[s].pc = "run" /\ m \in Tasks(s)
  /\ \/ scan[s].tasks[m] = "alert" /\ Enqueue(m)
     \/ scan[s].tasks[m] = "error" /\ (Report(m) \/ Log(m))
     \/ scan[s].tasks[m] = "nothing" /\ UNCHANGED mail
  /\ scan' = [scan EXCEPT ![s].pc = "count", ![s].done = @ + 1, ![s].batch = @ + 1,
                          ![s].tasks = WithoutTask(@, m)]
  /\ UNCHANGED <<marker, cancelled, late, searchFailed, stuck>>

Due(s) == scan[s].batch >= Interval

(* The next fetch, if the list has one. *)
Continued(s) ==
  LET more == scan[s].next <= Len(scan[s].ids) IN
  [scan[s] EXCEPT !.pc = "run",
     !.batch = IF Due(s) THEN 0 ELSE @, !.rows = IF Due(s) THEN {} ELSE @,
     !.next  = IF more THEN @ + 1 ELSE @,
     !.tasks = IF more THEN WithTask(@, scan[s].ids[scan[s].next]) ELSE @]

(* Every few messages the rows and the count are stored, if the database   *)
(* lets them; then the scan goes on, or stops if it was cancelled.         *)
Count(s) ==
  /\ scan[s].pc = "count"
  /\ \/ UNCHANGED marker
     \/ /\ Due(s) /\ marker # NoScan
        /\ marker' = [marker EXCEPT !.status = "in_progress", !.done = scan[s].done]
  /\ IF cancelled
     THEN Stopped(s)
     ELSE /\ scan' = [scan EXCEPT ![s] = Continued(s)]
          /\ IF Due(s) THEN Flush(s) ELSE UNCHANGED mail
          /\ UNCHANGED <<cancelled, late>>
  /\ UNCHANGED <<searchFailed, stuck>>

Complete(s) ==
  /\ scan[s].pc = "run" /\ Tasks(s) = {} /\ Flush(s)
  /\ LastWrite([status |-> "completed", ids |-> scan[s].ids, done |-> scan[s].done])
  /\ scan' = [scan EXCEPT ![s] = AtRest]
  /\ UNCHANGED <<cancelled, late, searchFailed>>

-----------------------------------------------------------------------------
(* Cancelling, offered from the moment a scan is requested.                *)

Cancel ==
  /\ \E s \in Scanners : scan[s].pc # "idle"
  /\ ~cancelled /\ cancelled' = TRUE
  /\ UNCHANGED <<marker, scan, late, searchFailed, stuck, mail>>

(* cancel_poll sees the flag while fetches are in flight. *)
Stop(s) ==
  /\ scan[s].pc = "run" /\ cancelled /\ Stopped(s)
  /\ UNCHANGED <<marker, searchFailed, stuck>>

(* The checkpoint is deleted, and of the listed messages every row about   *)
(* which nothing was decided.                                              *)
Undecided == {m \in stored : booked[m] = 0}

Sweep(s) ==
  LET gone == Undecided \intersect Range(scan[s].ids) IN
  /\ scan[s].pc = "sweep" /\ scan' = [scan EXCEPT ![s] = AtRest]
  /\ \/ WriteLost /\ UNCHANGED <<stored, excused>>
     \/ /\ marker' = NoScan /\ UNCHANGED stuck
        /\ stored' = stored \ gone /\ excused' = excused \union gone
  /\ UNCHANGED <<cancelled, late, searchFailed, arrived, queue, booked, logged>>

Land(m) ==
  /\ m \in late /\ late' = late \ {m} /\ Processed(m)
  /\ UNCHANGED <<marker, cancelled, scan, searchFailed, stuck>>

FetchStep(s, m) == LookUp(s, m) \/ FetchMail(s, m) \/ Ignore(s, m) \/ Join(s, m)

ScanStep(s) ==
  \/ Claim(s) \/ Begin(s) \/ Search(s) \/ Fail(s) \/ Count(s) \/ Complete(s) \/ Stop(s) \/ Sweep(s)
  \/ \E m \in Messages : FetchStep(s, m)
=============================================================================
