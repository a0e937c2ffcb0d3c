-------------------------- MODULE MailIntakeProofs --------------------------
(***************************************************************************)
(* Theorems about MailIntake, for any number of messages, polls, scans,    *)
(* fetches in flight and launches.                                         *)
(***************************************************************************)
EXTENDS MailIntake, TLAPS

-----------------------------------------------------------------------------
(* What every operation on the shared rows and the queue respects.         *)

Booking == \A m \in Messages : booked[m] <= 1 /\ (booked[m] > 0 => m \in stored)

Remembered == \A m \in Messages : Accounted(m) => Accounted(m)'

Stores(ms) ==
  /\ \/ stored' = stored \union ms /\ UNCHANGED logged
     \/ logged' = logged \union ms /\ UNCHANGED stored
  /\ UNCHANGED <<arrived, queue, booked, excused>>

Deletes(ms) ==
  /\ stored' = stored \ ms /\ excused' = excused \union ms
  /\ UNCHANGED <<arrived, queue, booked, logged>>

MailStep ==
  \/ UNCHANGED mail \/ Arrive
  \/ \E m \in Messages : Processed(m) \/ Enqueue(m) \/ Report(m) \/ Log(m)
                         \/ Commit(m) \/ Drop(m)
  \/ \E ms \in SUBSET Messages : Stores(ms)
  \/ \E ms \in SUBSET Undecided : Deletes(ms)

(* Enqueueing without its guard. *)
LEMMA Enqueued ==
  ASSUME NEW m \in Messages, Enqueue(m)
  PROVE  /\ queue' = [queue EXCEPT ![m] = queue[m] + 1]
         /\ UNCHANGED <<arrived, stored, booked, excused, logged>>
BY Zenon DEF Enqueue

LEMMA MailKept ==
  ASSUME MailType, MailStep
  PROVE  MailType' /\ (Booking => Booking') /\ Remembered /\ arrived <= arrived'
<1> USE MailAssumption DEF MailType, Booking, Remembered, Accounted, Known, Messages
<1>1. CASE UNCHANGED mail
  BY <1>1 DEF mail
<1>2. CASE Arrive
  BY <1>2 DEF Arrive
<1>3. ASSUME NEW m \in Messages, Processed(m)
      PROVE  MailType' /\ (Booking => Booking') /\ Remembered /\ arrived <= arrived'
  BY <1>3 DEF Processed
<1>4. ASSUME NEW m \in Messages, Enqueue(m)
      PROVE  MailType' /\ (Booking => Booking') /\ Remembered /\ arrived <= arrived'
  <2>1. /\ queue' = [queue EXCEPT ![m] = queue[m] + 1]
        /\ UNCHANGED <<arrived, stored, booked, excused, logged>>
    BY <1>4, Enqueued, Zenon
  <2> QED
    BY <2>1
<1>5. ASSUME NEW m \in Messages, Report(m) \/ Log(m)
      PROVE  MailType' /\ (Booking => Booking') /\ Remembered /\ arrived <= arrived'
  <2>1. UNCHANGED <<arrived, stored, queue, booked>>
    BY <1>5 DEF Report, Log
  <2>2. /\ excused \subseteq excused' /\ excused' \subseteq Messages
        /\ logged \subseteq logged' /\ logged' \subseteq Messages
    BY <1>5 DEF Report, Log
  <2> QED
    BY <2>1, <2>2
<1>6. ASSUME NEW m \in Messages, Commit(m)
      PROVE  MailType' /\ (Booking => Booking') /\ Remembered /\ arrived <= arrived'
  <2>1. /\ queue[m] > 0 /\ queue' = [queue EXCEPT ![m] = queue[m] - 1]
        /\ stored' = stored \union {m}
        /\ booked' = IF m \in stored THEN booked ELSE [booked EXCEPT ![m] = booked[m] + 1]
        /\ UNCHANGED <<arrived, excused, logged>>
    BY <1>6 DEF Commit, Seen
  <2>2. MailType' /\ arrived <= arrived'
    <3>1. queue[m] \in Nat /\ queue[m] - 1 \in Nat /\ booked[m] + 1 \in Nat
      BY <1>6, <2>1
    <3>2. queue' \in [Messages -> Nat]
      BY <2>1, <3>1
    <3>3. booked' \in [Messages -> Nat]
      <4>1. CASE m \in stored
        BY <2>1, <4>1
      <4>2. CASE m \notin stored
        BY <2>1, <3>1, <4>2
      <4> QED BY <4>1, <4>2
    <3>4. stored' \subseteq Messages
      BY <1>6, <2>1
    <3>5. arrived' \in 0..MaxMail /\ arrived <= arrived'
      BY <2>1
    <3>6. excused' \subseteq Messages /\ logged' \subseteq Messages
      BY <2>1
    <3> QED BY <3>2, <3>3, <3>4, <3>5, <3>6, Zenon
  <2>3. ASSUME NEW n \in Messages
        PROVE  /\ n # m => queue'[n] = queue[n] /\ booked'[n] = booked[n]
               /\ n \in stored => n \in stored' /\ booked'[n] = booked[n]
               /\ m \in stored' /\ (m \notin stored => booked'[m] = booked[m] + 1)
    BY <2>1, <2>3
  <2>4. ASSUME Booking, NEW n \in Messages PROVE booked'[n] <= 1 /\ (booked'[n] > 0 => n \in stored')
    <3>1. CASE n = m /\ m \notin stored
      <4>1. booked[m] = 0
        BY <2>4, <3>1
      <4> QED BY <2>3, <3>1, <4>1
    <3>2. CASE n # m \/ m \in stored
      BY <2>3, <2>4, <3>2, <2>1
    <3> QED BY <3>1, <3>2
  <2>5. ASSUME NEW n \in Messages, Accounted(n) PROVE Accounted(n)'
    BY <2>1, <2>3, <2>5
  <2> QED BY <2>2, <2>4, <2>5
<1>7. ASSUME NEW m \in Messages, Drop(m)
      PROVE  MailType' /\ (Booking => Booking') /\ Remembered /\ arrived <= arrived'
  BY <1>7 DEF Drop
<1>8. ASSUME NEW ms \in SUBSET Messages, Stores(ms)
      PROVE  MailType' /\ (Booking => Booking') /\ Remembered /\ arrived <= arrived'
  <2>1. /\ UNCHANGED <<arrived, queue, booked, excused>>
        /\ stored \subseteq stored' /\ stored' \subseteq Messages
        /\ logged \subseteq logged' /\ logged' \subseteq Messages
    BY <1>8 DEF Stores
  <2> QED
    BY <2>1
<1>9. ASSUME NEW ms \in SUBSET Undecided, Deletes(ms)
      PROVE  MailType' /\ (Booking => Booking') /\ Remembered /\ arrived <= arrived'
  BY <1>9 DEF Deletes, Undecided
<1> QED
  BY <1>1, <1>2, <1>3, <1>4, <1>5, <1>6, <1>7, <1>8, <1>9 DEF MailStep

-----------------------------------------------------------------------------
(* Polling: a poll that looks at a message looks at one it listed.         *)

InRange ==
  \A p \in Pollers :
    /\ poll[p].pc # "idle" => poll[p].next \in Nat \ {0}
    /\ poll[p].pc \in {"fetch", "send"} => poll[p].next <= poll[p].latest

LEMMA PollKept ==
  ASSUME MailType, PollingType, InRange, NEW p \in Pollers,
         PollStep(p) \/ GiveUp(p) \/ FetchFails(p)
  PROVE  PollingType' /\ InRange' /\ MailStep
<1> USE MailAssumption, NoneAssumption
    DEF MailType, PollingType, InRange, HistoryIds, Messages, Idle, NextMail, Goto
<1>1. CASE Open(p)
  BY <1>1 DEF Open, StartHistoryId, MailStep
<1>2. CASE List(p)
  BY <1>2 DEF List, MailStep
<1>3. CASE ListExpired(p)
  BY <1>3 DEF ListExpired, MailStep
<1>4. CASE Look(p)
  <2>1. MailStep /\ UNCHANGED <<checkpoint, account, horizon>>
    BY <1>4 DEF Look, MailStep
  <2>2. CASE poll' = [poll EXCEPT ![p].pc = "look", ![p].next = @ + 1]
    BY <1>4, <2>1, <2>2 DEF Look
  <2>3. CASE poll' = [poll EXCEPT ![p].pc = "fetch"]
    BY <1>4, <2>1, <2>3 DEF Look
  <2> QED
    BY <1>4, <2>2, <2>3 DEF Look
<1>5. CASE Fetch(p)
  <2>1. poll[p].next \in Messages /\ poll[p].next <= poll[p].latest
    BY <1>5 DEF Fetch
  <2>2. MailStep
    BY <1>5, <2>1 DEF Fetch, MailStep
  <2>3. UNCHANGED <<checkpoint, account, horizon>>
    BY <1>5 DEF Fetch
  <2>4. CASE Kind[poll[p].next] = "alert"
    <3>1. poll' = [poll EXCEPT ![p].pc = "send"]
      BY <1>5, <2>4 DEF Fetch
    <3>2. PollingType'
      BY <3>1, <2>1, <2>3
    <3>3. InRange'
      BY <3>1, <2>1
    <3> QED
      BY <3>2, <3>3, <2>2
  <2>5. CASE Kind[poll[p].next] # "alert"
    <3>1. poll' = [poll EXCEPT ![p].pc = "look", ![p].next = @ + 1]
      BY <1>5, <2>5 DEF Fetch
    <3>2. PollingType'
      BY <3>1, <2>1, <2>3
    <3>3. InRange'
      BY <3>1, <2>1
    <3> QED
      BY <3>2, <3>3, <2>2
  <2> QED
    BY <2>4, <2>5
<1>6. CASE Send(p)
  <2>1. poll[p].next \in Messages /\ poll[p].pc = "send"
    BY <1>6 DEF Send
  <2>2. MailStep
    BY <1>6, <2>1 DEF Send, MailStep
  <2>3. /\ poll' = [poll EXCEPT ![p].pc = "look", ![p].next = @ + 1]
        /\ UNCHANGED <<checkpoint, account, horizon>>
    BY <1>6 DEF Send
  <2> QED
    BY <2>1, <2>2, <2>3
<1>7. CASE Save(p)
  BY <1>7 DEF Save, MailStep
<1>8. CASE GiveUp(p)
  BY <1>8 DEF GiveUp, MailStep
<1>9. CASE FetchFails(p)
  BY <1>9 DEF FetchFails, MailStep
<1> QED
  BY <1>1, <1>2, <1>3, <1>4, <1>5, <1>6, <1>7, <1>8, <1>9 DEF PollStep

-----------------------------------------------------------------------------
(* The fetches in flight are of messages, whatever becomes of them.        *)

LEMMA FetchesKept ==
  ASSUME NEW tasks \in Fetches, NEW m \in Messages, NEW state \in TaskStates
  PROVE  /\ DOMAIN tasks \subseteq Messages
         /\ NoTasks \in Fetches
         /\ [tasks EXCEPT ![m] = state] \in Fetches
         /\ WithTask(tasks, m) \in Fetches
         /\ WithoutTask(tasks, m) \in Fetches
<1>1. PICK ms \in SUBSET Messages : tasks \in [ms -> TaskStates]
  BY DEF Fetches
<1>2. NoTasks \in [{} -> TaskStates]
  BY DEF NoTasks
<1>3. [tasks EXCEPT ![m] = state] \in [ms -> TaskStates]
  BY <1>1
<1>4. WithTask(tasks, m) \in [ms \union {m} -> TaskStates]
  BY <1>1 DEF WithTask, TaskStates
<1>5. WithoutTask(tasks, m) \in [ms \ {m} -> TaskStates]
  BY <1>1 DEF WithoutTask
<1>6. {} \subseteq Messages /\ ms \union {m} \subseteq Messages /\ ms \ {m} \subseteq Messages
  BY <1>1
<1> QED
  BY <1>1, <1>2, <1>3, <1>4, <1>5, <1>6 DEF Fetches

LEMMA StartedKept ==
  ASSUME NEW s \in Scanners, ScanningType, NEW ids \in Seq(Messages), NEW done \in Nat
  PROVE  Started(s, ids, done) \in Scan
<1> DEFINE last == IF done + MaxFetches < Len(ids) THEN done + MaxFetches ELSE Len(ids)
           first == {ids[i] : i \in (done + 1)..last}
<1>1. last \in Nat /\ last <= Len(ids)
  BY IntakeAssumption
<1>2. first \subseteq Messages
  BY <1>1
<1>3. [m \in first |-> "new"] \in Fetches
  <2>1. [m \in first |-> "new"] \in [first -> TaskStates]
    BY DEF TaskStates
  <2> QED
    BY <1>2, <2>1 DEF Fetches
<1>4. (IF done < last THEN last + 1 ELSE done + 1) \in Nat \ {0}
  BY <1>1
<1> QED
  BY <1>3, <1>4 DEF Started, ScanningType, Scan, Places

-----------------------------------------------------------------------------
(* A scan's own steps: its place, its fetches, its count.                  *)

(* Replacing one scan's state by another one of the type. *)
LEMMA ScanReplaced ==
  ASSUME ScanningType, NEW s \in Scanners, NEW new \in Scan,
         scan' = [scan EXCEPT ![s] = new]
  PROVE  scan' \in [Scanners -> Scan]
BY DEF ScanningType

(* A scan at rest. *)
LEMMA RestKept == AtRest \in Scan
<1>1. NoTasks \in [{} -> TaskStates]
  BY DEF NoTasks
<1>2. NoTasks \in Fetches
  BY <1>1 DEF Fetches
<1>3. <<>> \in Seq(Messages) /\ 0 \in 0..MaxMail
  BY MailAssumption
<1> QED
  BY <1>2, <1>3 DEF AtRest, Scan, Places

LEMMA ClaimKept ==
  ASSUME MailType, ScanningType, NEW s \in Scanners, Request(s) \/ Claim(s)
  PROVE  ScanningType' /\ MailStep
<1>1. MailStep
  BY DEF Request, Claim, MailStep
<1>2. marker \in Marker \union {NoScan} /\ scan[s] \in Scan
  BY DEF ScanningType
<1>3. CASE Request(s)
  <2>1. [scan[s] EXCEPT !.pc = "claim", !.found = marker, !.asked = arrived] \in Scan
    BY <1>2 DEF Scan, Places, MailType
  <2>2. scan' = [scan EXCEPT ![s] =
                   [scan[s] EXCEPT !.pc = "claim", !.found = marker, !.asked = arrived]]
    BY <1>3 DEF Request, ScanningType
  <2>3. scan' \in [Scanners -> Scan]
    BY <2>1, <2>2, ScanReplaced
  <2> QED
    BY <1>1, <1>3, <2>3 DEF Request, ScanningType
<1>4. CASE Claim(s)
  <2>1. Claimed \in Marker
    <3>1. CASE marker = NoScan
      <4>1. <<>> \in Seq(Messages)
        OBVIOUS
      <4> QED
        BY <3>1, <4>1 DEF Claimed, Marker
    <3>2. CASE marker # NoScan
      BY <1>2, <3>2 DEF Claimed, Marker
    <3> QED
      BY <3>1, <3>2
  <2>2. marker' \in Marker \union {NoScan}
    BY <1>2, <1>4, <2>1 DEF Claim
  <2>3. [scan[s] EXCEPT !.pc = "begin"] \in Scan
    BY <1>2 DEF Scan, Places
  <2>4. \/ scan' = [scan EXCEPT ![s] = AtRest]
        \/ scan' = [scan EXCEPT ![s] = [scan[s] EXCEPT !.pc = "begin"]]
    BY <1>4 DEF Claim, ScanningType
  <2>5. scan' \in [Scanners -> Scan]
    BY <2>3, <2>4, RestKept, ScanReplaced
  <2> QED
    BY <1>1, <1>4, <2>2, <2>5 DEF Claim, ScanningType
<1> QED
  BY <1>3, <1>4

LEMMA LastWriteKept ==
  ASSUME ScanningType, NEW row, LastWrite(row)
  PROVE  stuck' \in BOOLEAN
BY Zenon DEF LastWrite, WriteLost, ScanningType

LEMMA StartKept ==
  ASSUME MailType, ScanningType, NEW s \in Scanners,
         Begin(s) \/ Search(s) \/ SearchFails(s) \/ Fail(s)
  PROVE  ScanningType' /\ MailStep
<1>1. MailStep
  BY DEF Begin, Search, SearchFails, Fail, MailStep
<1>2. marker \in Marker \union {NoScan} /\ scan[s] \in Scan
  BY DEF ScanningType
<1>3. CASE Begin(s)
  <2>1. CASE Resumes(s)
    <3>1. scan[s].found \in Marker
      BY <1>2, <2>1 DEF Resumes, Scan
    <3>2. scan[s].found.ids \in Seq(Messages) /\ scan[s].found.done \in Nat
      BY <3>1 DEF Marker
    <3>3. Started(s, scan[s].found.ids, scan[s].found.done) \in Scan
      BY <3>2, StartedKept
    <3>4. scan' \in [Scanners -> Scan]
      BY <1>3, <2>1, <3>3, ScanReplaced DEF Begin
    <3>5. marker' \in Marker
      BY <1>3, <2>1, <3>1 DEF Begin, Marker
    <3> QED
      BY <1>1, <1>3, <3>4, <3>5 DEF Begin, ScanningType
  <2>2. CASE ~Resumes(s)
    <3>1. [scan[s] EXCEPT !.pc = "search", !.found = NoScan] \in Scan
      BY <1>2 DEF Scan, Places
    <3>2. scan' = [scan EXCEPT ![s] = [scan[s] EXCEPT !.pc = "search", !.found = NoScan]]
      BY <1>3, <2>2 DEF Begin, ScanningType
    <3>3. scan' \in [Scanners -> Scan]
      BY <3>1, <3>2, ScanReplaced
    <3> QED
      BY <1>1, <1>2, <1>3, <2>2, <3>3 DEF Begin, ScanningType
  <2> QED
    BY <2>1, <2>2
<1>4. CASE Search(s)
  <2>1. Mailbox \in Seq(Messages)
    <3>1. arrived \in Nat /\ Mailbox \in [1..arrived -> Messages]
      BY MailAssumption DEF Mailbox, MailType, Messages
    <3> QED
      BY <3>1
  <2>2. Started(s, Mailbox, 0) \in Scan
    BY <2>1, StartedKept
  <2>3. scan' \in [Scanners -> Scan]
    BY <1>4, <2>2, ScanReplaced DEF Search
  <2>4. marker' \in Marker
    BY <1>4, <2>1 DEF Search, Marker
  <2> QED
    BY <1>1, <1>4, <2>3, <2>4 DEF Search, ScanningType
<1>5. CASE SearchFails(s)
  <2>1. [scan[s] EXCEPT !.pc = "fail"] \in Scan
    BY <1>2 DEF Scan, Places
  <2>2. scan' = [scan EXCEPT ![s] = [scan[s] EXCEPT !.pc = "fail"]]
    BY <1>5 DEF SearchFails, ScanningType
  <2>3. scan' \in [Scanners -> Scan]
    BY <2>1, <2>2, ScanReplaced
  <2> QED
    BY <1>1, <1>5, <2>3 DEF SearchFails, ScanningType
<1>6. CASE Fail(s)
  <2>1. scan' \in [Scanners -> Scan]
    BY <1>6, RestKept, ScanReplaced DEF Fail
  <2>2. marker' \in Marker \union {NoScan}
    BY <1>2, <1>6 DEF Fail, LastWrite, WriteLost, Marker
  <2>3. stuck' \in BOOLEAN
    BY <1>6, LastWriteKept DEF Fail
  <2> QED
    BY <1>1, <1>6, <2>1, <2>2, <2>3 DEF Fail, ScanningType
<1> QED
  BY <1>3, <1>4, <1>5, <1>6

LEMMA FetchKept ==
  ASSUME MailType, ScanningType, NEW s \in Scanners, NEW m \in Messages,
         LookUp(s, m) \/ FetchMail(s, m) \/ Ignore(s, m) \/ FetchMailFails(s, m)
  PROVE  ScanningType' /\ MailStep
<1>1. MailStep
  BY DEF LookUp, FetchMail, Ignore, FetchMailFails, MailStep
<1>2. scan[s] \in Scan /\ scan[s].tasks \in Fetches /\ scan[s].rows \subseteq Messages
  BY DEF ScanningType, Scan
<1>3. UNCHANGED <<marker, cancelled, late, searchFailed, stuck>>
  BY DEF LookUp, FetchMail, Ignore, FetchMailFails
<1>4. ASSUME NEW state \in TaskStates, NEW rows \in SUBSET Messages,
             scan' = [scan EXCEPT ![s] =
                        [scan[s] EXCEPT !.tasks = [scan[s].tasks EXCEPT ![m] = state],
                                        !.rows = rows]]
      PROVE  ScanningType'
  <2>1. [scan[s].tasks EXCEPT ![m] = state] \in Fetches
    BY <1>2, FetchesKept
  <2>2. [scan[s] EXCEPT !.tasks = [scan[s].tasks EXCEPT ![m] = state], !.rows = rows] \in Scan
    BY <1>2, <2>1 DEF Scan
  <2>3. scan' \in [Scanners -> Scan]
    BY <1>4, <2>2, ScanReplaced
  <2> QED
    BY <1>3, <2>3 DEF ScanningType
<1>5. \E state \in TaskStates, rows \in SUBSET Messages :
         scan' = [scan EXCEPT ![s] =
                    [scan[s] EXCEPT !.tasks = [scan[s].tasks EXCEPT ![m] = state],
                                    !.rows = rows]]
  <2>1. ASSUME NEW state \in TaskStates, Task(s, m, state)
        PROVE  scan' = [scan EXCEPT ![s] =
                          [scan[s] EXCEPT !.tasks = [scan[s].tasks EXCEPT ![m] = state],
                                          !.rows = scan[s].rows]]
    BY <1>2, <2>1 DEF Task, ScanningType, Scan
  <2>2. CASE Ignore(s, m)
    <3>1. scan' = [scan EXCEPT ![s] =
                     [scan[s] EXCEPT !.tasks = [scan[s].tasks EXCEPT ![m] = "nothing"],
                                     !.rows = scan[s].rows \union {m}]]
      BY <1>2, <2>2 DEF Ignore, ScanningType, Scan
    <3> QED
      BY <1>2, <3>1 DEF TaskStates
  <2>3. CASE LookUp(s, m) \/ FetchMail(s, m) \/ FetchMailFails(s, m)
    <3>1. \E state \in TaskStates : Task(s, m, state)
      BY <2>3 DEF LookUp, FetchMail, FetchMailFails, TaskStates
    <3> QED
      BY <1>2, <2>1, <3>1
  <2> QED
    BY <2>2, <2>3
<1> QED
  BY <1>1, <1>4, <1>5

LEMMA JoinKept ==
  ASSUME MailType, ScanningType, NEW s \in Scanners, NEW m \in Messages, Join(s, m)
  PROVE  ScanningType' /\ MailStep
<1>1. MailStep
  BY DEF Join, MailStep
<1>2. /\ scan[s] \in Scan /\ scan[s].tasks \in Fetches
      /\ scan[s].done + 1 \in Nat /\ scan[s].batch + 1 \in Nat
  BY DEF ScanningType, Scan
<1>3. WithoutTask(scan[s].tasks, m) \in Fetches
  BY <1>2, FetchesKept DEF TaskStates
<1>4. ASSUME NEW done \in Nat, NEW batch \in Nat, NEW tasks \in Fetches
      PROVE  [scan[s] EXCEPT !.pc = "count", !.done = done, !.batch = batch,
                             !.tasks = tasks] \in Scan
  BY <1>2 DEF Scan, Places
<1>5. scan' = [scan EXCEPT ![s] =
                 [scan[s] EXCEPT !.pc = "count", !.done = scan[s].done + 1,
                                 !.batch = scan[s].batch + 1,
                                 !.tasks = WithoutTask(scan[s].tasks, m)]]
  BY <1>2 DEF Join, ScanningType, Scan
<1>6. scan' \in [Scanners -> Scan]
  BY <1>2, <1>3, <1>4, <1>5, ScanReplaced
<1> QED
  BY <1>1, <1>6 DEF Join, ScanningType

LEMMA StopKept ==
  ASSUME MailType, ScanningType, NEW s \in Scanners, Stopped(s),
         marker' \in Marker \union {NoScan}, UNCHANGED <<searchFailed, stuck>>
  PROVE  ScanningType' /\ MailStep
<1>1. scan[s] \in Scan /\ scan[s].rows \subseteq Messages /\ Tasks(s) \subseteq Messages
  <2>1. scan[s].tasks \in Fetches /\ MaxMail \in Nat
    BY MailAssumption DEF ScanningType, Scan
  <2> QED
    BY <2>1 DEF ScanningType, Scan, Fetches, Tasks
<1>2. MailStep
  BY <1>1 DEF Stopped, Flush, Stores, MailStep
<1>3. NoTasks \in Fetches
  <2>1. NoTasks \in [{} -> TaskStates]
    BY DEF NoTasks
  <2> QED
    BY <2>1 DEF Fetches
<1>4. [scan[s] EXCEPT !.pc = "sweep", !.rows = {}, !.tasks = NoTasks] \in Scan
  BY <1>1, <1>3 DEF Scan, Places
<1>5. scan' = [scan EXCEPT ![s] =
                 [scan[s] EXCEPT !.pc = "sweep", !.rows = {}, !.tasks = NoTasks]]
  BY DEF Stopped, ScanningType
<1>6. scan' \in [Scanners -> Scan]
  BY <1>4, <1>5, ScanReplaced
<1> QED
  BY <1>1, <1>2, <1>6 DEF Stopped, ScanningType

LEMMA CountKept ==
  ASSUME MailType, ScanningType, NEW s \in Scanners, Count(s)
  PROVE  ScanningType' /\ MailStep
<1>1. scan[s] \in Scan /\ marker \in Marker \union {NoScan} /\ scan[s].done \in Nat
  BY DEF ScanningType, Scan
<1>2. marker' \in Marker \union {NoScan}
  <2>1. CASE /\ marker # NoScan
             /\ marker' = [marker EXCEPT !.status = "in_progress", !.done = scan[s].done]
    <3>1. marker \in Marker
      BY <1>1, <2>1
    <3> QED
      BY <1>1, <2>1, <3>1 DEF Marker
  <2>2. CASE UNCHANGED marker
    BY <1>1, <2>2
  <2> QED
    BY <2>1, <2>2 DEF Count
<1>3. CASE cancelled
  <2>1. Stopped(s) /\ UNCHANGED <<searchFailed, stuck>>
    BY <1>3 DEF Count
  <2> QED
    BY <1>2, <2>1, StopKept
<1>4. CASE ~cancelled
  <2>1. /\ scan[s].ids \in Seq(Messages) /\ scan[s].next \in Nat \ {0}
        /\ scan[s].tasks \in Fetches /\ scan[s].rows \subseteq Messages
    BY <1>1 DEF Scan
  <2>2. MailStep
    BY <1>4, <2>1 DEF Count, Flush, Stores, MailStep
  <2>3. ASSUME scan[s].next <= Len(scan[s].ids)
        PROVE  WithTask(scan[s].tasks, scan[s].ids[scan[s].next]) \in Fetches
    <3>1. scan[s].ids[scan[s].next] \in Messages
      BY <2>1, <2>3
    <3> QED
      BY <2>1, <3>1, FetchesKept DEF TaskStates
  <2>4. Continued(s) \in Scan
    <3>1. ASSUME NEW batch \in Nat, NEW rows \in SUBSET Messages, NEW next \in Nat \ {0},
                 NEW tasks \in Fetches
          PROVE  [scan[s] EXCEPT !.pc = "run", !.batch = batch, !.rows = rows, !.next = next,
                                 !.tasks = tasks] \in Scan
      BY <1>1 DEF Scan, Places
    <3>2. (IF Due(s) THEN 0 ELSE scan[s].batch) \in Nat
      BY <1>1 DEF Scan
    <3>3. (IF Due(s) THEN {} ELSE scan[s].rows) \in SUBSET Messages
      BY <2>1
    <3>4. (IF scan[s].next <= Len(scan[s].ids) THEN scan[s].next + 1 ELSE scan[s].next) \in Nat \ {0}
      BY <2>1
    <3>5. (IF scan[s].next <= Len(scan[s].ids)
           THEN WithTask(scan[s].tasks, scan[s].ids[scan[s].next]) ELSE scan[s].tasks) \in Fetches
      BY <2>1, <2>3
    <3> QED
      BY <3>1, <3>2, <3>3, <3>4, <3>5 DEF Continued
  <2>5. scan' \in [Scanners -> Scan]
    BY <1>4, <2>4, ScanReplaced DEF Count
  <2> QED
    BY <1>1, <1>2, <1>4, <2>2, <2>5 DEF Count, ScanningType
<1> QED
  BY <1>3, <1>4

LEMMA EndKept ==
  ASSUME MailType, ScanningType, NEW s \in Scanners, Complete(s) \/ Stop(s) \/ Sweep(s)
  PROVE  ScanningType' /\ MailStep
<1>1. scan[s] \in Scan /\ marker \in Marker \union {NoScan}
  BY DEF ScanningType
<1>2. scan[s].ids \in Seq(Messages) /\ scan[s].done \in Nat /\ scan[s].rows \subseteq Messages
  BY <1>1 DEF Scan
<1>3. CASE Complete(s)
  <2>1. MailStep
    BY <1>2, <1>3 DEF Complete, Flush, Stores, MailStep
  <2>2. marker' \in Marker \union {NoScan}
    BY <1>1, <1>2, <1>3 DEF Complete, LastWrite, WriteLost, Marker
  <2>3. scan' \in [Scanners -> Scan] /\ stuck' \in BOOLEAN
    BY <1>3, RestKept, ScanReplaced, LastWriteKept DEF Complete
  <2> QED
    BY <1>3, <2>1, <2>2, <2>3 DEF Complete, ScanningType
<1>4. CASE Stop(s)
  BY <1>1, <1>4, StopKept DEF Stop
<1>5. CASE Sweep(s)
  <2>1. MailStep
    <3>1. Undecided \intersect Range(scan[s].ids) \in SUBSET Undecided
      OBVIOUS
    <3>2. \/ UNCHANGED mail
          \/ Deletes(Undecided \intersect Range(scan[s].ids))
      BY <1>5 DEF Sweep, Deletes, mail
    <3> QED
      BY <3>1, <3>2 DEF MailStep
  <2>2. scan' \in [Scanners -> Scan]
    BY <1>5, RestKept, ScanReplaced DEF Sweep
  <2>3. marker' \in Marker \union {NoScan} /\ stuck' \in BOOLEAN
    BY <1>1, <1>5 DEF Sweep, WriteLost, ScanningType
  <2> QED
    BY <1>5, <2>1, <2>2, <2>3 DEF Sweep, ScanningType
<1> QED
  BY <1>3, <1>4, <1>5

LEMMA AsideKept ==
  ASSUME MailType, ScanningType, Cancel \/ \E m \in Messages : Land(m)
  PROVE  ScanningType' /\ MailStep
BY DEF Cancel, Land, ScanningType, MailStep

LEMMA ScansKept ==
  ASSUME MailType, ScanningType, Scans
  PROVE  ScanningType' /\ MailStep
BY ClaimKept, StartKept, FetchKept, JoinKept, CountKept, EndKept, AsideKept
   DEF Scans, ScanStep, FetchStep

-----------------------------------------------------------------------------
(* The tables and the memory of polls and scans keep their types.          *)

Typed == TypeOK /\ InRange

LEMMA TypedInit == Init => Typed
<1> SUFFICES ASSUME Init PROVE Typed
  OBVIOUS
<1>1. MailType /\ PollingType /\ InRange
  BY MailAssumption DEF Init, MailInit, PollingInit, MailType, PollingType, InRange, Idle,
                        HistoryIds, Messages
<1>2. ScanningType
  BY RestKept DEF Init, ScanningInit, ScanningType
<1> QED
  BY <1>1, <1>2, IntakeAssumption DEF Init, Typed, TypeOK

LEMMA TypedRelaunch ==
  ASSUME Typed, Relaunch
  PROVE  Typed'
<1> USE DEF Typed, TypeOK
<1>1. MailType'
  BY DEF Relaunch, MailType
<1>2. PollingType' /\ InRange'
  BY MailAssumption DEF Relaunch, PollingType, InRange, Idle, HistoryIds
<1>3. marker' \in Marker \union {NoScan}
  BY DEF Relaunch, ScanningType, InProgress, Marker
<1>4. ScanningType'
  BY <1>3, RestKept DEF Relaunch, ScanningType
<1>5. crashes' \in 0..MaxCrashes
  BY IntakeAssumption DEF Relaunch
<1> QED
  BY <1>1, <1>2, <1>4, <1>5

LEMMA TypedStep ==
  ASSUME Typed, Next, ~Relaunch
  PROVE  Typed' /\ MailStep /\ UNCHANGED crashes
<1> USE DEF Typed, TypeOK
<1>1. CASE NewMail
  <2>1. MailStep /\ MailType'
    BY <1>1, MailKept DEF NewMail, MailStep
  <2>2. PollingType' /\ InRange' /\ ScanningType' /\ UNCHANGED crashes
    BY <1>1 DEF NewMail, polling, scanning, PollingType, InRange, ScanningType
  <2> QED
    BY <2>1, <2>2
<1>2. CASE Polls
  <2>1. PollingType' /\ InRange' /\ MailStep
    <3>1. CASE Expire
      BY <3>1 DEF Expire, PollingType, InRange, MailStep, MailType, HistoryIds
    <3>2. CASE \E p \in Pollers : PollStep(p) \/ GiveUp(p) \/ FetchFails(p)
      BY <3>2, PollKept
    <3> QED
      BY <1>2, <3>1, <3>2 DEF Polls
  <2>2. ScanningType' /\ UNCHANGED crashes
    BY <1>2 DEF Polls, scanning, ScanningType
  <2> QED
    BY <2>1, <2>2, MailKept
<1>3. CASE Scans
  <2>1. PollingType' /\ InRange' /\ UNCHANGED crashes
    BY <1>3 DEF Scans, polling, PollingType, InRange
  <2> QED
    BY <1>3, <2>1, ScansKept, MailKept
<1>4. CASE Worker
  <2>1. MailStep
    BY <1>4 DEF Worker, MailStep
  <2>2. PollingType' /\ InRange' /\ ScanningType' /\ UNCHANGED crashes
    BY <1>4 DEF Worker, polling, scanning, PollingType, InRange, ScanningType
  <2> QED
    BY <2>1, <2>2, MailKept
<1> QED
  BY <1>1, <1>2, <1>3, <1>4 DEF Next

LEMMA TypedKept ==
  ASSUME Typed, [Next]_vars
  PROVE  Typed'
<1>1. CASE UNCHANGED vars
  BY <1>1 DEF Typed, TypeOK, InRange, vars, mail, polling, scanning, MailType, PollingType,
              ScanningType
<1> QED
  BY <1>1, TypedRelaunch, TypedStep

(* The tables of mail, polling and scanning, and what polls and scans hold *)
(* in memory, keep their types in every execution.                         *)
THEOREM TypeCorrect == Spec => []TypeOK
<1>1. Typed => TypeOK
  BY DEF Typed
<1> QED
  BY <1>1, TypedInit, TypedKept, PTL DEF Spec

-----------------------------------------------------------------------------
(* However often a message is processed, it is booked at most once: what   *)
(* is booked is stored, and a cancelled scan deletes only what is not.     *)
THEOREM EachMessageBookedOnce == Spec => []BookedOnce
<1>1. Init => Booking
  BY DEF Init, MailInit, Booking
<1>2. ASSUME Typed, Booking, [Next]_vars
      PROVE  Booking'
  <2>1. CASE UNCHANGED vars
    BY <1>2, <2>1 DEF vars, mail, Booking
  <2>2. CASE Relaunch
    BY <1>2, <2>2 DEF Relaunch, Booking
  <2>3. CASE Next /\ ~Relaunch
    BY <1>2, <2>3, TypedStep, MailKept DEF Typed, TypeOK
  <2> QED
    BY <1>2, <2>1, <2>2, <2>3
<1>3. Booking => BookedOnce
  BY DEF Booking, BookedOnce
<1> QED
  BY <1>1, <1>2, <1>3, TypedInit, TypedKept, PTL DEF Spec

-----------------------------------------------------------------------------
(* At most one scan runs: whoever runs holds the checkpoint row, and the   *)
(* row is given to no one while it is held.                                *)

Holds == \A s \in Scanners : Running(s) => InProgress

LEMMA HoldsClaim ==
  ASSUME Typed, Holds, OneScan, NEW s \in Scanners, Request(s) \/ Claim(s)
  PROVE  (Holds /\ OneScan)'
<1>1. scan \in [Scanners -> Scan] /\ marker \in Marker \union {NoScan}
  BY DEF Typed, TypeOK, ScanningType
<1> USE <1>1 DEF Holds, OneScan, Running
<1>2. CASE Request(s)
  BY <1>2 DEF Request, InProgress, Scan
<1>3. CASE Claim(s) /\ InProgress
  BY <1>3 DEF Claim, InProgress, AtRest
<1>4. CASE Claim(s) /\ ~InProgress
  <2>1. InProgress'
    <3>1. marker' = Claimed
      BY <1>4 DEF Claim
    <3>2. Claimed \in Marker /\ Claimed.status = "in_progress"
      <4>1. <<>> \in Seq(Messages)
        OBVIOUS
      <4> QED
        BY <4>1 DEF Claimed, Marker
    <3> QED
      BY <3>1, <3>2, NoScanAssumption DEF InProgress
  <2>2. \A t \in Scanners \ {s} : ~Running(t)'
    BY <1>4 DEF Claim
  <2> QED
    BY <2>1, <2>2
<1> QED
  BY <1>2, <1>3, <1>4

(* A step of the scan that runs. *)
LEMMA HoldsRunning ==
  ASSUME Typed, Typed', Holds, OneScan, NEW s \in Scanners, Running(s),
         \A t \in Scanners \ {s} : scan'[t] = scan[t],
         Running(s)' => InProgress'
  PROVE  (Holds /\ OneScan)'
<1>1. \A t \in Scanners \ {s} : ~Running(t)'
  BY DEF OneScan, Running
<1> QED
  BY <1>1 DEF Holds, OneScan

LEMMA HoldsScan ==
  ASSUME Typed, Typed', Holds, OneScan, NEW s \in Scanners,
         \/ ScanStep(s) /\ ~Claim(s)
         \/ SearchFails(s)
         \/ \E m \in Messages : FetchMailFails(s, m)
  PROVE  (Holds /\ OneScan)'
<1>1. scan \in [Scanners -> Scan] /\ marker \in Marker \union {NoScan} /\ scan[s] \in Scan
  BY DEF Typed, TypeOK, ScanningType
<1>2. marker' \in Marker \union {NoScan}
  BY DEF Typed, TypeOK, ScanningType
<1>3. ASSUME Running(s), \A t \in Scanners \ {s} : scan'[t] = scan[t], Running(s)' => InProgress'
      PROVE  (Holds /\ OneScan)'
  BY <1>3, HoldsRunning
<1>4. Running(s) => InProgress
  BY DEF Holds
<1> USE <1>1, <1>4 DEF Running
<1>5. CASE Begin(s)
  <2>1. CASE Resumes(s)
    <3>1. scan[s].found \in Marker
      BY <2>1 DEF Resumes, Scan
    <3>2. marker' \in Marker /\ marker'.status = "in_progress"
      BY <1>5, <2>1, <3>1 DEF Begin, Marker
    <3>3. InProgress'
      BY <3>2, NoScanAssumption DEF InProgress
    <3> QED
      BY <1>3, <1>5, <3>3 DEF Begin
  <2>2. CASE ~Resumes(s)
    BY <1>3, <1>5, <2>2 DEF Begin, InProgress
  <2> QED
    BY <2>1, <2>2
<1>6. CASE Search(s)
  <2>1. marker' = [status |-> "in_progress", ids |-> Mailbox, done |-> 0]
    BY <1>6 DEF Search
  <2>2. marker' \in Marker
    <3>1. arrived \in Nat /\ Mailbox \in [1..arrived -> Messages]
      BY MailAssumption DEF Mailbox, Typed, TypeOK, MailType, Messages
    <3>2. Mailbox \in Seq(Messages)
      BY <3>1
    <3> QED
      BY <2>1, <3>2 DEF Marker
  <2>3. InProgress'
    BY <2>1, <2>2, NoScanAssumption DEF InProgress
  <2> QED
    BY <1>3, <1>6, <2>3 DEF Search
<1>7. CASE Fail(s) \/ Complete(s) \/ Sweep(s)
  <2>1. scan' = [scan EXCEPT ![s] = AtRest]
    BY <1>7 DEF Fail, Complete, Sweep
  <2>2. Running(s) /\ ~Running(s)'
    BY <1>7, <2>1 DEF Fail, Complete, Sweep, AtRest
  <2> QED
    BY <1>3, <2>1, <2>2
<1>8. CASE SearchFails(s) \/ Stop(s)
  BY <1>3, <1>8 DEF SearchFails, Stop, Stopped, InProgress
<1>9. CASE \E m \in Messages : FetchStep(s, m) \/ FetchMailFails(s, m)
  BY <1>3, <1>9 DEF FetchStep, LookUp, FetchMail, Ignore, FetchMailFails, Join, Fetching, Task,
                    InProgress
<1>10. CASE Count(s)
  <2>1. scan[s].pc = "count" /\ \A t \in Scanners \ {s} : scan'[t] = scan[t]
    BY <1>10 DEF Count, Stopped
  <2>2. InProgress'
    <3>1. marker \in Marker /\ marker # NoScan /\ marker.status = "in_progress"
      BY <2>1 DEF InProgress
    <3>2. CASE marker' = [marker EXCEPT !.status = "in_progress", !.done = scan[s].done]
      <4>1. scan[s].done \in Nat
        BY DEF Scan
      <4>2. marker' \in Marker /\ marker'.status = "in_progress"
        BY <3>1, <3>2, <4>1 DEF Marker
      <4> QED
        BY <4>2, NoScanAssumption DEF InProgress
    <3>3. CASE UNCHANGED marker
      BY <3>1, <3>3 DEF InProgress
    <3> QED
      BY <1>10, <3>2, <3>3 DEF Count
  <2> QED
    BY <1>3, <2>1, <2>2
<1> QED
  BY <1>5, <1>6, <1>7, <1>8, <1>9, <1>10 DEF ScanStep

(* Of the requests racing for an account's checkpoint one scans. *)
THEOREM ScansAlone == Spec => []OneScan
<1>1. Init => Holds /\ OneScan
  BY DEF Init, ScanningInit, Holds, OneScan, Running, AtRest
<1>2. ASSUME Typed, Typed', Holds, OneScan, [Next]_vars
      PROVE  (Holds /\ OneScan)'
  <2>1. CASE UNCHANGED scanning
    BY <1>2, <2>1 DEF scanning, Holds, OneScan, Running, InProgress
  <2>2. CASE Relaunch
    BY <2>2 DEF Relaunch, Holds, OneScan, Running, AtRest
  <2>3. CASE Scans
    <3>1. CASE Cancel \/ \E m \in Messages : Land(m)
      BY <1>2, <3>1 DEF Cancel, Land, Holds, OneScan, Running, InProgress
    <3>2. ASSUME NEW s \in Scanners,
                 \/ Request(s) \/ ScanStep(s) \/ SearchFails(s)
                 \/ \E m \in Messages : FetchMailFails(s, m)
          PROVE  (Holds /\ OneScan)'
      BY <1>2, <3>2, HoldsClaim, HoldsScan
    <3> QED
      BY <2>3, <3>1, <3>2 DEF Scans
  <2>4. CASE NewMail \/ Polls \/ Worker \/ UNCHANGED vars
    BY <2>1, <2>4 DEF NewMail, Polls, Worker, vars
  <2> QED
    BY <1>2, <2>2, <2>3, <2>4 DEF Next
<1> QED
  BY <1>1, <1>2, TypedInit, TypedKept, PTL DEF Spec

-----------------------------------------------------------------------------
(* Polling leaves no mail behind while the application runs: below every   *)
(* stored history id, and below the place of every poll under way, all     *)
(* mail is accounted for.                                                  *)

Below(n) == \A m \in Messages : m < n => Accounted(m)

Read ==
  /\ \A id \in HistoryIds : id = checkpoint \/ id = account => Below(id + 1)
  /\ \A p \in Pollers : poll[p].pc # "idle" => Below(poll[p].next)

(* Reading on by one message, once that one is accounted for. *)
LEMMA ReadOn ==
  ASSUME Typed, Typed', Read, Remembered, NEW p \in Pollers,
         UNCHANGED <<checkpoint, account>>,
         poll[p].pc # "idle",
         \A m \in Messages : m = poll[p].next => Accounted(m)',
         NextMail(p)
  PROVE  Read'
<1>1. poll \in [Pollers -> [pc : {"idle", "list", "look", "fetch", "send"},
                           next : Nat, latest : HistoryIds]]
  BY DEF Typed, TypeOK, PollingType
<1>2. poll[p].next \in Nat /\ Messages \subseteq Nat
  BY <1>1, MailAssumption DEF Messages
<1>3. poll'[p].next = poll[p].next + 1 /\ \A q \in Pollers \ {p} : poll'[q] = poll[q]
  BY <1>1 DEF NextMail
<1>4. \A m \in Messages : m < poll[p].next => Accounted(m)'
  BY DEF Read, Below, Remembered
<1>5. ASSUME NEW m \in Messages, m < poll'[p].next
      PROVE  Accounted(m)'
  <2>1. m < poll[p].next \/ m = poll[p].next
    BY <1>2, <1>3, <1>5
  <2> QED
    BY <1>4, <2>1
<1>6. ASSUME NEW q \in Pollers, poll'[q].pc # "idle", NEW m \in Messages, m < poll'[q].next
      PROVE  Accounted(m)'
  BY <1>3, <1>5, <1>6 DEF Read, Below, Remembered
<1>7. ASSUME NEW id \in HistoryIds, id = checkpoint' \/ id = account',
             NEW m \in Messages, m < id + 1
      PROVE  Accounted(m)'
  BY <1>7 DEF Read, Below, Remembered
<1> QED
  BY <1>6, <1>7 DEF Read, Below

(* A poll that goes on without moving, or ends. *)
LEMMA ReadStill ==
  ASSUME Typed, Read, Remembered, NEW p \in Pollers,
         \A id \in HistoryIds :
           id = checkpoint' \/ id = account' => id = checkpoint \/ id = account,
         \A q \in Pollers \ {p} : poll'[q] = poll[q],
         poll'[p].pc # "idle" => poll[p].pc # "idle" /\ poll'[p].next = poll[p].next
  PROVE  Read'
BY DEF Read, Below, Remembered

LEMMA ReadPolling ==
  ASSUME Typed, Typed', Read, Remembered, NEW p \in Pollers,
         PollStep(p) \/ GiveUp(p) \/ FetchFails(p)
  PROVE  Read'
<1>1. poll \in [Pollers -> [pc : {"idle", "list", "look", "fetch", "send"},
                           next : Nat, latest : HistoryIds]]
  BY DEF Typed, TypeOK, PollingType
<1>2. checkpoint \in HistoryIds \union {None} /\ account \in HistoryIds \union {None}
  BY DEF Typed, TypeOK, PollingType
<1>3. CASE Open(p)
  <2>1. StartHistoryId \in HistoryIds
    BY <1>2, <1>3 DEF Open, StartHistoryId
  <2>2. Below(StartHistoryId + 1)
    BY <2>1 DEF Read, StartHistoryId
  <2>3. poll'[p].next = StartHistoryId + 1 /\ \A q \in Pollers \ {p} : poll'[q] = poll[q]
    BY <1>1, <1>3 DEF Open
  <2>4. ASSUME NEW q \in Pollers, poll'[q].pc # "idle", NEW m \in Messages, m < poll'[q].next
        PROVE  Accounted(m)'
    BY <2>2, <2>3, <2>4 DEF Read, Below, Remembered
  <2>5. UNCHANGED <<checkpoint, account>>
    BY <1>3 DEF Open
  <2> QED
    BY <2>4, <2>5 DEF Read, Below, Remembered
<1>4. CASE List(p) \/ ListExpired(p) \/ GiveUp(p)
  <2>1. \A id \in HistoryIds :
          id = checkpoint' \/ id = account' => id = checkpoint \/ id = account
    BY <1>4, NoneAssumption DEF List, ListExpired, GiveUp
  <2>2. /\ \A q \in Pollers \ {p} : poll'[q] = poll[q]
        /\ poll'[p].pc # "idle" => poll[p].pc # "idle" /\ poll'[p].next = poll[p].next
    BY <1>1, <1>4 DEF List, ListExpired, GiveUp, Idle
  <2> QED
    BY <2>1, <2>2, ReadStill
<1>5. CASE Look(p)
  <2>1. poll[p].pc # "idle" /\ UNCHANGED <<checkpoint, account, mail>>
    BY <1>5 DEF Look
  <2>2. CASE Seen(poll[p].next)
    <3>1. NextMail(p)
      BY <1>5, <2>2 DEF Look
    <3>2. \A m \in Messages : m = poll[p].next => Accounted(m)'
      BY <2>1, <2>2 DEF Seen, Accounted, Known, mail
    <3> QED
      BY <2>1, <3>1, <3>2, ReadOn
  <2>3. CASE ~Seen(poll[p].next)
    <3>1. poll' = [poll EXCEPT ![p].pc = "fetch"]
      BY <1>5, <2>3 DEF Look, Goto
    <3> QED
      BY <1>1, <2>1, <3>1, ReadStill
  <2> QED
    BY <2>2, <2>3
<1>6. CASE Fetch(p)
  <2>1. /\ poll[p].pc # "idle" /\ UNCHANGED <<checkpoint, account>>
        /\ Processed(poll[p].next)
    BY <1>6 DEF Fetch
  <2>2. CASE Kind[poll[p].next] = "alert"
    <3>1. poll' = [poll EXCEPT ![p].pc = "send"]
      BY <1>6, <2>2 DEF Fetch, Goto
    <3> QED
      BY <1>1, <2>1, <3>1, ReadStill
  <2>3. CASE Kind[poll[p].next] # "alert"
    <3>1. NextMail(p)
      BY <1>6, <2>3 DEF Fetch
    <3>2. \A m \in Messages : m = poll[p].next => Accounted(m)'
      BY <2>1, <2>3, MailAssumption DEF Processed, Accounted, Known
    <3> QED
      BY <2>1, <3>1, <3>2, ReadOn
  <2> QED
    BY <2>2, <2>3
<1>7. CASE FetchFails(p)
  <2>1. \A m \in Messages : m = poll[p].next => Accounted(m)'
    BY <1>7 DEF FetchFails, Log, Accounted, Known
  <2> QED
    BY <1>7, <2>1, ReadOn DEF FetchFails
<1>8. CASE Send(p)
  <2>1. poll[p].pc = "send" /\ NextMail(p) /\ UNCHANGED <<checkpoint, account>>
    BY <1>8 DEF Send
  <2>2. poll[p].next \in Messages
    BY <1>1, <2>1, MailAssumption DEF Typed, InRange, Messages, HistoryIds
  <2>3. queue' = [queue EXCEPT ![poll[p].next] = queue[poll[p].next] + 1]
    BY <1>8, <2>2, Enqueued, Zenon DEF Send
  <2>4. \A m \in Messages : m = poll[p].next => Accounted(m)'
    BY <2>2, <2>3 DEF Accounted, Known, Typed, TypeOK, MailType
  <2> QED
    BY <2>1, <2>4, ReadOn
<1>9. CASE Save(p)
  <2>1. poll[p].latest \in HistoryIds /\ poll[p].next \in Nat /\ poll[p].latest < poll[p].next
    BY <1>1, <1>9, MailAssumption DEF Save, HistoryIds
  <2>2. Below(poll[p].latest + 1)
    BY <1>9, <2>1, MailAssumption DEF Save, Read, Below, HistoryIds, Messages
  <2>3. ASSUME NEW id \in HistoryIds, id = checkpoint' \/ id = account',
               NEW m \in Messages, m < id + 1
        PROVE  Accounted(m)'
    BY <1>9, <2>2, <2>3 DEF Save, Below, Remembered
  <2>4. ASSUME NEW q \in Pollers, poll'[q].pc # "idle"
        PROVE  poll'[q] = poll[q]
    BY <1>1, <1>9, <2>4 DEF Save, Idle
  <2> QED
    BY <2>3, <2>4 DEF Read, Below, Remembered
<1> QED
  BY <1>3, <1>4, <1>5, <1>6, <1>7, <1>8, <1>9 DEF PollStep

(* While the application runs, polling resumes from a history id below     *)
(* which every message is accounted for.                                   *)
THEOREM PollingLeavesNothingBehind == Spec => []PollingKeepsUp
<1> DEFINE Kept == crashes = 0 => Read
<1>1. Init => Kept
  BY MailAssumption, NoneAssumption
     DEF Init, PollingInit, Read, Below, Idle, Messages, HistoryIds
<1>2. ASSUME Typed, Typed', Kept, [Next]_vars
      PROVE  Kept'
  <2>1. CASE UNCHANGED vars
    BY <1>2, <2>1 DEF vars, mail, polling, Read, Below, Accounted, Known
  <2>2. CASE Relaunch
    BY <2>2, <1>2, IntakeAssumption DEF Relaunch, Typed, TypeOK
  <2>3. CASE Next /\ ~Relaunch /\ crashes = 0
    <3>1. Remembered /\ Read
      BY <1>2, <2>3, TypedStep, MailKept DEF Typed, TypeOK
    <3>2. CASE UNCHANGED <<checkpoint, account, poll>>
      BY <3>1, <3>2 DEF Read, Below, Remembered
    <3>3. CASE Polls
      <4>1. CASE Expire
        BY <3>2, <4>1 DEF Expire
      <4> QED
        BY <1>2, <3>1, <3>3, <4>1, ReadPolling DEF Polls
    <3>4. CASE NewMail \/ Scans \/ Worker
      BY <3>2, <3>4 DEF NewMail, Scans, Worker, polling
    <3> QED
      BY <2>3, <3>3, <3>4 DEF Next
  <2> QED
    BY <1>2, <2>1, <2>2, <2>3, TypedStep
<1>3. Typed /\ Kept => PollingKeepsUp
  <2> SUFFICES ASSUME Typed, Kept, crashes = 0, StartHistoryId # None,
                      NEW m \in 1..StartHistoryId
               PROVE  Accounted(m)
    BY DEF PollingKeepsUp, NoMailSkippedByPolling
  <2>1. StartHistoryId \in HistoryIds
    BY DEF Typed, TypeOK, PollingType, StartHistoryId
  <2>2. m \in Messages /\ m < StartHistoryId + 1
    BY <2>1, MailAssumption DEF HistoryIds, Messages
  <2> QED
    BY <2>1, <2>2 DEF Read, Below, StartHistoryId
<1> QED
  BY <1>1, <1>2, <1>3, TypedInit, TypedKept, PTL DEF Spec

-----------------------------------------------------------------------------
(* A scan covers what it was asked for.  While no search fails and the     *)
(* application runs, every message a running scan was asked for is         *)
(* accounted for, collected, being fetched, or still to be fetched; and a  *)
(* scan with messages left has a fetch in flight.                          *)

Pending(s, m) ==
  \/ Accounted(m)
  \/ m \in scan[s].rows
  \/ m \in DOMAIN scan[s].tasks /\ scan[s].tasks[m] # "nothing"
  \/ \E i \in scan[s].next..Len(scan[s].ids) : scan[s].ids[i] = m

Busy(s) ==
  scan[s].pc = "run" /\ scan[s].next <= Len(scan[s].ids) => DOMAIN scan[s].tasks # {}

Unfailed(row) == row # NoScan => row.status # "failed"

Seeks(s) ==
  /\ scan[s].pc # "fail" /\ Unfailed(scan[s].found) /\ scan[s].asked <= arrived
  /\ scan[s].pc \in {"run", "count"} =>
       Busy(s) /\ \A m \in Messages : m <= scan[s].asked => Pending(s, m)

Seeking == Unfailed(marker) /\ \A s \in Scanners : Seeks(s)

(* What a step of one scan leaves to show. *)
LEMMA SeekingOthers ==
  ASSUME Typed, Seeking, Remembered, arrived' \in Nat, arrived <= arrived', NEW s \in Scanners,
         \A t \in Scanners \ {s} : scan'[t] = scan[t],
         Unfailed(marker)', Seeks(s)'
  PROVE  Seeking'
<1>1. ASSUME NEW t \in Scanners \ {s} PROVE Seeks(t)'
  <2>1. scan'[t] = scan[t] /\ Seeks(t) /\ scan[t].asked \in Nat /\ arrived \in Nat
    BY MailAssumption DEF Seeking, Typed, TypeOK, ScanningType, Scan, MailType
  <2>2. scan'[t].asked <= arrived'
    BY <2>1 DEF Seeks
  <2>3. ASSUME NEW m \in Messages, Pending(t, m) PROVE Pending(t, m)'
    BY <2>1, <2>3 DEF Pending, Remembered
  <2> QED
    BY <2>1, <2>2, <2>3 DEF Seeks, Busy, Unfailed
<1> QED
  BY <1>1 DEF Seeking

LEMMA SeekingStart ==
  ASSUME Typed, Seeking, Remembered, arrived' = arrived, NEW s \in Scanners,
         Request(s) \/ Claim(s) \/ Begin(s)
  PROVE  Seeking'
<1>1. /\ scan \in [Scanners -> Scan] /\ marker \in Marker \union {NoScan} /\ scan[s] \in Scan
      /\ arrived \in Nat
  BY MailAssumption DEF Typed, TypeOK, ScanningType, MailType
<1>2. Seeks(s) /\ Unfailed(marker)
  BY DEF Seeking
<1>3. \A t \in Scanners \ {s} : scan'[t] = scan[t]
  BY <1>1 DEF Request, Claim, Begin
<1>4. Unfailed(marker)' /\ Seeks(s)'
  <2>1. CASE Request(s)
    BY <1>1, <1>2, <2>1 DEF Request, Seeks, Unfailed, Scan
  <2>2. CASE Claim(s) /\ InProgress
    BY <1>1, <1>2, <2>2 DEF Claim, Seeks, Unfailed, AtRest
  <2>3. CASE Claim(s) /\ ~InProgress
    <3>1. scan'[s].pc = "begin" /\ scan'[s].found = scan[s].found /\ scan'[s].asked = scan[s].asked
      BY <1>1, <2>3 DEF Claim, Scan
    <3>2. marker' = Claimed
      BY <2>3 DEF Claim
    <3>3. Unfailed(Claimed)
      BY <1>1 DEF Claimed, Unfailed, Marker
    <3> QED
      BY <1>1, <1>2, <3>1, <3>2, <3>3 DEF Seeks, Unfailed
  <2>4. CASE Begin(s)
    <3>1. ~Resumes(s)
      BY <1>2 DEF Resumes, Seeks, Unfailed
    <3>2. /\ scan'[s].pc = "search" /\ scan'[s].found = NoScan /\ scan'[s].asked = scan[s].asked
          /\ UNCHANGED marker
      BY <1>1, <2>4, <3>1 DEF Begin, Scan
    <3> QED
      BY <1>1, <1>2, <3>2 DEF Seeks, Unfailed
  <2> QED
    BY <2>1, <2>2, <2>3, <2>4
<1> QED
  BY <1>1, <1>3, <1>4, SeekingOthers

(* A search lists all mail there is. *)
LEMMA SeekingSearch ==
  ASSUME Typed, Seeking, Remembered, arrived' = arrived, NEW s \in Scanners, Search(s)
  PROVE  Seeking'
<1>1. /\ scan \in [Scanners -> Scan] /\ scan[s] \in Scan
      /\ arrived \in Nat /\ MaxMail \in Nat /\ arrived <= MaxMail /\ MaxFetches \in Nat \ {0}
  BY MailAssumption, IntakeAssumption DEF Typed, TypeOK, ScanningType, MailType
<1>2. Seeks(s)
  BY DEF Seeking
<1> DEFINE last == IF 0 + MaxFetches < Len(Mailbox) THEN 0 + MaxFetches ELSE Len(Mailbox)
           next == IF 0 < last THEN last + 1 ELSE 0 + 1
<1>3. Mailbox \in Seq(Messages) /\ Len(Mailbox) = arrived
  <2>1. Mailbox \in [1..arrived -> Messages]
    BY <1>1 DEF Mailbox, Messages
  <2> QED
    BY <1>1, <2>1 DEF Mailbox
<1>4. /\ \A t \in Scanners \ {s} : scan'[t] = scan[t]
      /\ scan'[s] = Started(s, Mailbox, 0) /\ marker'.status = "in_progress"
  BY <1>1 DEF Search
<1>5. /\ scan'[s].pc = "run" /\ scan'[s].found = NoScan /\ scan'[s].asked = scan[s].asked
      /\ scan'[s].ids = Mailbox /\ scan'[s].next = next
      /\ scan'[s].tasks = [m \in {Mailbox[i] : i \in (0 + 1)..last} |-> "new"]
  BY <1>1, <1>4 DEF Started, Scan
<1>6. ASSUME NEW m \in Messages, m <= arrived
      PROVE  Pending(s, m)'
  <2>1. m \in Nat /\ arrived + 1 - m \in 1..arrived /\ Mailbox[arrived + 1 - m] = m
    BY <1>1, <1>6 DEF Mailbox, Messages
  <2>2. CASE arrived + 1 - m <= last
    BY <1>1, <1>3, <1>5, <2>1, <2>2 DEF Pending
  <2>3. CASE ~(arrived + 1 - m <= last)
    <3>1. arrived + 1 - m \in next..Len(Mailbox)
      BY <1>1, <1>3, <2>1, <2>3
    <3> QED
      BY <1>5, <2>1, <3>1 DEF Pending
  <2> QED
    BY <2>2, <2>3
<1>7. Busy(s)'
  <2>1. ASSUME next <= Len(Mailbox) PROVE 1 \in (0 + 1)..last
    BY <1>1, <1>3, <2>1
  <2> QED
    BY <1>5, <2>1 DEF Busy
<1>8. Seeks(s)'
  <2>1. scan[s].asked \in Nat /\ scan[s].asked <= arrived
    BY <1>1, <1>2 DEF Seeks, Scan
  <2>2. \A m \in Messages : m <= scan[s].asked => m <= arrived
    BY <1>1, <2>1 DEF Messages
  <2>3. \A m \in Messages : m <= scan'[s].asked => Pending(s, m)'
    BY <1>5, <1>6, <2>2
  <2>4. Unfailed(scan[s].found)'
    BY <1>5 DEF Unfailed
  <2>5. scan'[s].asked <= arrived'
    BY <1>5, <2>1
  <2> QED
    BY <1>5, <1>7, <2>3, <2>4, <2>5 DEF Seeks
<1> QED
  BY <1>1, <1>4, <1>8, SeekingOthers DEF Unfailed

(* A step of one fetch, which leaves the others as they are. *)
LEMMA SeekingTask ==
  ASSUME Typed, Seeking, Remembered, arrived' = arrived, NEW s \in Scanners, NEW m \in Messages,
         UNCHANGED marker, \A t \in Scanners \ {s} : scan'[t] = scan[t],
         scan[s].pc \in {"run", "count"}, scan'[s].pc \in {"run", "count"},
         scan'[s].found = scan[s].found, scan'[s].asked = scan[s].asked,
         scan'[s].ids = scan[s].ids, scan'[s].next = scan[s].next,
         scan[s].rows \subseteq scan'[s].rows,
         \A n \in DOMAIN scan[s].tasks \ {m} :
           n \in DOMAIN scan'[s].tasks /\ scan'[s].tasks[n] = scan[s].tasks[n],
         Busy(s)', Pending(s, m) => Pending(s, m)'
  PROVE  Seeking'
<1>1. Seeks(s) /\ arrived \in Nat
  BY MailAssumption DEF Seeking, Typed, TypeOK, MailType
<1>2. ASSUME NEW n \in Messages, Pending(s, n), n # m
      PROVE  Pending(s, n)'
  BY <1>2 DEF Pending, Remembered
<1>3. Seeks(s)'
  BY <1>1, <1>2 DEF Seeks, Unfailed
<1> QED
  BY <1>1, <1>3, SeekingOthers DEF Seeking, Unfailed

LEMMA SeekingFetch ==
  ASSUME Typed, Seeking, Remembered, arrived' = arrived, NEW s \in Scanners, NEW m \in Messages,
         LookUp(s, m) \/ FetchMail(s, m) \/ Ignore(s, m) \/ FetchMailFails(s, m)
  PROVE  Seeking'
<1>1. scan \in [Scanners -> Scan] /\ scan[s] \in Scan /\ scan[s].tasks \in Fetches
  BY DEF Typed, TypeOK, ScanningType, Scan
<1>2. PICK ms \in SUBSET Messages : scan[s].tasks \in [ms -> TaskStates]
  BY <1>1 DEF Fetches
<1>3. scan[s].pc \in {"run", "count"} /\ m \in ms /\ UNCHANGED marker
  BY <1>2 DEF LookUp, FetchMail, Ignore, FetchMailFails, Fetching, Tasks
<1> DEFINE Moved(state, rows) ==
      /\ \A t \in Scanners \ {s} : scan'[t] = scan[t]
      /\ scan'[s].pc = scan[s].pc /\ scan'[s].found = scan[s].found
      /\ scan'[s].asked = scan[s].asked /\ scan'[s].ids = scan[s].ids
      /\ scan'[s].next = scan[s].next /\ scan'[s].rows = scan[s].rows \union rows
      /\ scan'[s].tasks = [scan[s].tasks EXCEPT ![m] = state]
<1>4. \E state \in TaskStates, rows \in SUBSET Messages :
        Moved(state, rows) /\ (state = "nothing" => Accounted(m)' \/ m \in rows)
  <2>1. ASSUME NEW state \in TaskStates, Task(s, m, state)
        PROVE  Moved(state, {})
    BY <1>1, <2>1 DEF Task, Scan
  <2>2. CASE LookUp(s, m)
    <3>1. PICK state \in TaskStates :
            Task(s, m, state) /\ (state = "nothing" => Seen(m))
      BY <2>2 DEF LookUp, TaskStates
    <3>2. state = "nothing" => Accounted(m)'
      BY <3>1, <2>2 DEF LookUp, Seen, Accounted, Known, mail
    <3> HIDE DEF Moved
    <3> QED
      BY <2>1, <3>1, <3>2
  <2>3. CASE FetchMail(s, m)
    <3>1. PICK state \in TaskStates :
            Task(s, m, state) /\ (state = "nothing" => Kind[m] # "alert")
      BY <2>3 DEF FetchMail, TaskStates
    <3>2. state = "nothing" => Accounted(m)'
      BY <3>1, <2>3, MailAssumption DEF FetchMail, Processed, Accounted, Known
    <3> HIDE DEF Moved
    <3> QED
      BY <2>1, <3>1, <3>2
  <2>4. CASE Ignore(s, m)
    <3>1. Moved("nothing", {m}) /\ "nothing" \in TaskStates
      BY <1>1, <2>4 DEF Ignore, Scan, TaskStates
    <3> HIDE DEF Moved
    <3> QED
      BY <3>1
  <2>5. CASE FetchMailFails(s, m)
    <3>1. Moved("error", {}) /\ "error" \in TaskStates
      BY <2>1, <2>5 DEF FetchMailFails, TaskStates
    <3> HIDE DEF Moved
    <3> QED
      BY <3>1
  <2> HIDE DEF Moved
  <2> QED
    BY <2>2, <2>3, <2>4, <2>5
<1>5. PICK state \in TaskStates, rows \in SUBSET Messages :
        Moved(state, rows) /\ (state = "nothing" => Accounted(m)' \/ m \in rows)
  BY <1>4
<1>6. Moved(state, rows)
  BY <1>5
<1>7. DOMAIN scan'[s].tasks = ms /\ scan'[s].tasks[m] = state
  BY <1>2, <1>3, <1>6
<1>8. Busy(s)'
  BY <1>3, <1>7 DEF Busy
<1>9. Pending(s, m)'
  BY <1>3, <1>5, <1>6, <1>7 DEF Pending
<1>10. \A n \in DOMAIN scan[s].tasks \ {m} :
         n \in DOMAIN scan'[s].tasks /\ scan'[s].tasks[n] = scan[s].tasks[n]
  BY <1>2, <1>6, <1>7
<1> QED
  BY <1>3, <1>6, <1>8, <1>9, <1>10, SeekingTask

LEMMA SeekingJoin ==
  ASSUME Typed, Seeking, Remembered, arrived' = arrived, NEW s \in Scanners, NEW m \in Messages,
         Join(s, m)
  PROVE  Seeking'
<1>1. scan \in [Scanners -> Scan] /\ scan[s] \in Scan
  BY DEF Typed, TypeOK, ScanningType
<1>2. /\ scan[s].pc = "run" /\ m \in DOMAIN scan[s].tasks /\ UNCHANGED marker
      /\ \A t \in Scanners \ {s} : scan'[t] = scan[t]
      /\ scan'[s].pc = "count" /\ scan'[s].found = scan[s].found
      /\ scan'[s].asked = scan[s].asked /\ scan'[s].ids = scan[s].ids
      /\ scan'[s].next = scan[s].next /\ scan'[s].rows = scan[s].rows
      /\ scan'[s].tasks = WithoutTask(scan[s].tasks, m)
  BY <1>1 DEF Join, Tasks, Scan
<1>3. \A n \in DOMAIN scan[s].tasks \ {m} :
        n \in DOMAIN scan'[s].tasks /\ scan'[s].tasks[n] = scan[s].tasks[n]
  BY <1>2 DEF WithoutTask
<1>4. Busy(s)'
  BY <1>2 DEF Busy
<1>5. Pending(s, m) => Pending(s, m)'
  <2>1. CASE scan[s].tasks[m] = "alert" /\ Enqueue(m)
    <3>1. queue' = [queue EXCEPT ![m] = queue[m] + 1]
      BY <2>1, Enqueued, Zenon
    <3>2. Accounted(m)'
      BY <3>1 DEF Accounted, Known, Typed, TypeOK, MailType
    <3> QED
      BY <3>2 DEF Pending
  <2>2. CASE Report(m) \/ Log(m)
    <3>1. Accounted(m)'
      BY <2>2 DEF Report, Log, Accounted, Known
    <3> QED
      BY <3>1 DEF Pending
  <2>3. CASE scan[s].tasks[m] = "nothing"
    BY <1>2, <2>3 DEF Pending, Remembered
  <2> QED
    BY <2>1, <2>2, <2>3, Zenon DEF Join
<1> QED
  BY <1>2, <1>3, <1>4, <1>5, SeekingTask

LEMMA SeekingCount ==
  ASSUME Typed, Seeking, Remembered, arrived' = arrived, NEW s \in Scanners, Count(s)
  PROVE  Seeking'
<1>1. /\ scan \in [Scanners -> Scan] /\ marker \in Marker \union {NoScan} /\ scan[s] \in Scan
      /\ scan[s].ids \in Seq(Messages) /\ scan[s].next \in Nat \ {0} /\ scan[s].done \in Nat
      /\ arrived \in Nat
  BY MailAssumption DEF Typed, TypeOK, ScanningType, Scan, MailType
<1>2. Seeks(s) /\ Unfailed(marker) /\ scan[s].pc = "count"
  BY DEF Seeking, Count
<1>3. Unfailed(marker)'
  <2>1. CASE /\ marker # NoScan
             /\ marker' = [marker EXCEPT !.status = "in_progress", !.done = scan[s].done]
    <3>1. marker \in Marker
      BY <1>1, <2>1
    <3> QED
      BY <1>1, <2>1, <3>1 DEF Unfailed, Marker
  <2>2. CASE UNCHANGED marker
    BY <1>2, <2>2 DEF Unfailed
  <2> QED
    BY <2>1, <2>2 DEF Count
<1>4. CASE cancelled
  <2>1. /\ \A t \in Scanners \ {s} : scan'[t] = scan[t]
        /\ scan'[s].pc = "sweep" /\ scan'[s].found = scan[s].found
        /\ scan'[s].asked = scan[s].asked
    BY <1>1, <1>4 DEF Count, Stopped, Scan
  <2>2. Seeks(s)'
    BY <1>2, <2>1 DEF Seeks, Unfailed
  <2> QED
    BY <1>1, <1>3, <2>1, <2>2, SeekingOthers
<1>5. CASE ~cancelled
  <2> DEFINE more == scan[s].next <= Len(scan[s].ids)
  <2>1. /\ \A t \in Scanners \ {s} : scan'[t] = scan[t]
        /\ scan'[s] = Continued(s)
    BY <1>1, <1>5 DEF Count
  <2>2. /\ scan'[s].pc = "run" /\ scan'[s].found = scan[s].found
        /\ scan'[s].asked = scan[s].asked /\ scan'[s].ids = scan[s].ids
        /\ scan'[s].next = IF more THEN scan[s].next + 1 ELSE scan[s].next
        /\ scan'[s].rows = IF Due(s) THEN {} ELSE scan[s].rows
        /\ scan'[s].tasks = IF more THEN WithTask(scan[s].tasks, scan[s].ids[scan[s].next])
                            ELSE scan[s].tasks
    BY <1>1, <2>1 DEF Continued, Scan
  <2>3. ASSUME NEW m \in Messages, Pending(s, m)
        PROVE  Pending(s, m)'
    <3>1. CASE Accounted(m)
      BY <3>1 DEF Pending, Remembered
    <3>2. CASE m \in scan[s].rows
      <4>1. CASE Due(s)
        <5>1. m \in stored' \union logged'
          BY <1>5, <3>2, <4>1 DEF Count, Flush
        <5> QED
          BY <5>1 DEF Pending, Accounted, Known
      <4>2. CASE ~Due(s)
        BY <2>2, <3>2, <4>2 DEF Pending
      <4> QED
        BY <4>1, <4>2
    <3>3. CASE m \in DOMAIN scan[s].tasks /\ scan[s].tasks[m] # "nothing"
      <4>1. CASE more
        BY <2>2, <3>3, <4>1 DEF Pending, WithTask
      <4>2. CASE ~more
        BY <2>2, <3>3, <4>2 DEF Pending
      <4> QED
        BY <4>1, <4>2
    <3>4. ASSUME NEW i \in scan[s].next..Len(scan[s].ids), scan[s].ids[i] = m
          PROVE  Pending(s, m)'
      <4>1. more
        BY <1>1
      <4>2. CASE i = scan[s].next
        BY <2>2, <3>4, <4>1, <4>2 DEF Pending, WithTask
      <4>3. CASE i # scan[s].next
        <5>1. i \in (scan[s].next + 1)..Len(scan[s].ids)
          BY <1>1, <4>3
        <5> QED
          BY <2>2, <3>4, <4>1, <5>1 DEF Pending
      <4> QED
        BY <4>2, <4>3
    <3> QED
      BY <2>3, <3>1, <3>2, <3>3, <3>4 DEF Pending
  <2>4. Busy(s)'
    <3>1. CASE more
      BY <2>2, <3>1 DEF Busy, WithTask
    <3>2. CASE ~more
      BY <2>2, <3>2 DEF Busy
    <3> QED
      BY <3>1, <3>2
  <2>5. Seeks(s)'
    BY <1>2, <2>2, <2>3, <2>4 DEF Seeks, Unfailed
  <2> QED
    BY <1>1, <1>3, <2>1, <2>5, SeekingOthers
<1> QED
  BY <1>4, <1>5

LEMMA SeekingEnd ==
  ASSUME Typed, Seeking, Remembered, arrived' = arrived, NEW s \in Scanners,
         Complete(s) \/ Stop(s) \/ Sweep(s)
  PROVE  Seeking'
<1>1. /\ scan \in [Scanners -> Scan] /\ scan[s] \in Scan /\ arrived \in Nat
  BY MailAssumption DEF Typed, TypeOK, ScanningType, MailType
<1>2. Seeks(s) /\ Unfailed(marker)
  BY DEF Seeking
<1>3. Unfailed(marker)'
  BY <1>2 DEF Complete, Stop, Sweep, LastWrite, WriteLost, Unfailed
<1>4. \A t \in Scanners \ {s} : scan'[t] = scan[t]
  BY <1>1 DEF Complete, Stop, Stopped, Sweep
<1>5. CASE Stop(s)
  <2>1. scan'[s].pc = "sweep" /\ scan'[s].found = scan[s].found /\ scan'[s].asked = scan[s].asked
    BY <1>1, <1>5 DEF Stop, Stopped, Scan
  <2>2. Seeks(s)'
    BY <1>2, <2>1 DEF Seeks, Unfailed
  <2> QED
    BY <1>1, <1>3, <1>4, <2>2, SeekingOthers
<1>6. CASE Complete(s) \/ Sweep(s)
  <2>1. scan'[s] = AtRest
    BY <1>1, <1>6 DEF Complete, Sweep
  <2>2. Seeks(s)'
    BY <1>1, <2>1 DEF Seeks, AtRest, Unfailed
  <2> QED
    BY <1>1, <1>3, <1>4, <2>2, SeekingOthers
<1> QED
  BY <1>5, <1>6

LEMMA SeekingAside ==
  ASSUME Typed, Seeking, Remembered, arrived' \in Nat, arrived <= arrived', UNCHANGED <<scan, marker>>
  PROVE  Seeking'
<1>1. ASSUME NEW s \in Scanners PROVE Seeks(s)'
  <2>1. Seeks(s) /\ scan[s].asked \in Nat /\ arrived \in Nat
    BY MailAssumption DEF Seeking, Typed, TypeOK, ScanningType, Scan, MailType
  <2>2. scan[s].asked <= arrived'
    BY <2>1 DEF Seeks
  <2>3. ASSUME NEW m \in Messages, Pending(s, m) PROVE Pending(s, m)'
    BY <2>3 DEF Pending, Remembered
  <2> QED
    BY <2>1, <2>2, <2>3 DEF Seeks, Busy, Unfailed
<1> QED
  BY <1>1 DEF Seeking, Unfailed

LEMMA NoArrival ==
  ASSUME Typed, Scans
  PROVE  arrived' = arrived
<1>1. ASSUME NEW s \in Scanners, NEW m \in Messages, Join(s, m)
      PROVE  arrived' = arrived
  <2>1. Enqueue(m) \/ Report(m) \/ Log(m) \/ UNCHANGED mail
    BY <1>1, Zenon DEF Join
  <2>2. Enqueue(m) => arrived' = arrived
    BY Enqueued, Zenon
  <2> QED
    BY <2>1, <2>2 DEF Report, Log, mail
<1>2. ASSUME NEW s \in Scanners, NEW m \in Messages,
             LookUp(s, m) \/ FetchMail(s, m) \/ Ignore(s, m) \/ FetchMailFails(s, m)
      PROVE  arrived' = arrived
  BY <1>2 DEF LookUp, FetchMail, Ignore, FetchMailFails, Processed, mail
<1>3. ASSUME NEW s \in Scanners,
             \/ Request(s) \/ Claim(s) \/ Begin(s) \/ Search(s) \/ SearchFails(s) \/ Fail(s)
             \/ Count(s) \/ Complete(s) \/ Stop(s) \/ Sweep(s)
      PROVE  arrived' = arrived
  BY <1>3 DEF Request, Claim, Begin, Search, SearchFails, Fail, Count, Complete, Stop, Sweep,
              Stopped, Flush, mail
<1>4. ASSUME NEW m \in Messages, Cancel \/ Land(m)
      PROVE  arrived' = arrived
  BY <1>4 DEF Cancel, Land, Processed, mail
<1>5. CASE Cancel
  BY <1>5 DEF Cancel, mail
<1> QED
  BY <1>1, <1>2, <1>3, <1>4, <1>5 DEF Scans, ScanStep, FetchStep

LEMMA SeekingScans ==
  ASSUME Typed, Seeking, Remembered, Scans, ~searchFailed'
  PROVE  Seeking'
<1>1. arrived' = arrived /\ arrived \in Nat
  BY NoArrival, MailAssumption DEF Typed, TypeOK, MailType
<1>2. ASSUME NEW s \in Scanners, NEW m \in Messages, FetchStep(s, m) \/ FetchMailFails(s, m)
      PROVE  Seeking'
  BY <1>1, <1>2, SeekingFetch, SeekingJoin DEF FetchStep
<1>3. ASSUME NEW s \in Scanners,
             \/ Request(s) \/ Claim(s) \/ Begin(s) \/ Search(s) \/ Count(s)
             \/ Complete(s) \/ Stop(s) \/ Sweep(s)
      PROVE  Seeking'
  BY <1>1, <1>3, SeekingStart, SeekingSearch, SeekingCount, SeekingEnd
<1>4. ASSUME NEW s \in Scanners, SearchFails(s) \/ Fail(s)
      PROVE  FALSE
  BY <1>4 DEF SearchFails, Fail, Seeking, Seeks
<1>5. CASE Cancel \/ \E m \in Messages : Land(m)
  BY <1>1, <1>5, SeekingAside DEF Cancel, Land
<1> QED
  BY <1>2, <1>3, <1>4, <1>5 DEF Scans, ScanStep

(* A scan that completes has accounted for all mail that was there when it *)
(* was requested, while no search failed and the application ran.          *)
THEOREM ScansCover == Spec => UninterruptedScanCovers
<1> DEFINE Kept == crashes = 0 /\ ~searchFailed => Seeking
<1>1. Init => Kept
  BY MailAssumption
     DEF Init, MailInit, ScanningInit, Seeking, Seeks, Unfailed, AtRest
<1>2. ASSUME Typed, Typed', Kept, [Next]_vars
      PROVE  Kept'
  <2>1. CASE UNCHANGED vars
    <3>1. CASE crashes = 0 /\ ~searchFailed
      <4>1. Remembered /\ arrived' \in Nat /\ arrived <= arrived' /\ UNCHANGED <<scan, marker>>
        BY <1>2, <2>1, MailAssumption
           DEF vars, mail, scanning, Remembered, Accounted, Known, Typed, TypeOK, MailType
      <4> QED
        BY <1>2, <3>1, <4>1, SeekingAside
    <3> QED
      BY <2>1, <3>1 DEF vars, scanning
  <2>2. CASE Relaunch
    BY <2>2, <1>2, IntakeAssumption DEF Relaunch, Typed, TypeOK
  <2>3. CASE Next /\ ~Relaunch
    <3>1. /\ Remembered /\ arrived <= arrived' /\ UNCHANGED crashes
          /\ arrived' \in Nat
      BY <1>2, <2>3, TypedStep, MailKept, MailAssumption DEF Typed, TypeOK, MailType
    <3>2. CASE Scans
      <4>1. ~searchFailed' => ~searchFailed
        BY <3>2 DEF Scans, ScanStep, FetchStep, Request, Claim, Begin, Search, SearchFails, Fail,
                    LookUp, FetchMail, Ignore, FetchMailFails, Join, Count, Complete, Stop, Sweep,
                    Cancel, Land
      <4> QED
        BY <1>2, <3>1, <3>2, <4>1, SeekingScans
    <3>3. CASE NewMail \/ Polls \/ Worker
      <4>1. UNCHANGED <<scan, marker, searchFailed>>
        BY <3>3 DEF NewMail, Polls, Worker, scanning
      <4> QED
        BY <1>2, <3>1, <4>1, SeekingAside
    <3> QED
      BY <2>3, <3>2, <3>3 DEF Next
  <2> QED
    BY <1>2, <2>1, <2>2, <2>3
<1>3. ASSUME Typed, Kept, NEW s \in Scanners, Complete(s), crashes = 0, ~searchFailed
      PROVE  Covers(s)
  <2>1. /\ Seeks(s) /\ scan[s].pc = "run" /\ DOMAIN scan[s].tasks = {}
        /\ stored \subseteq stored' /\ logged \subseteq logged'
        /\ scan[s].rows \subseteq stored' \/ scan[s].rows \subseteq logged'
        /\ UNCHANGED <<queue, excused>>
    BY <1>3 DEF Seeking, Complete, Tasks, Flush
  <2>2. scan[s].next \in Nat /\ Len(scan[s].ids) \in Nat /\ scan[s].asked \in 0..MaxMail
    BY <1>3 DEF Typed, TypeOK, ScanningType, Scan
  <2>3. scan[s].next..Len(scan[s].ids) = {}
    BY <2>1, <2>2 DEF Seeks, Busy
  <2>4. ASSUME NEW m \in 1..scan[s].asked PROVE Accounted(m)'
    <3>1. m \in Messages /\ m <= scan[s].asked
      BY <2>2, MailAssumption DEF Messages
    <3>2. Pending(s, m)
      BY <2>1, <3>1 DEF Seeks
    <3>3. Accounted(m) \/ m \in scan[s].rows
      BY <2>1, <2>3, <3>2 DEF Pending
    <3> QED
      BY <2>1, <3>3 DEF Accounted, Known
  <2> QED
    BY <2>4 DEF Covers
<1>4. Typed /\ Kept /\ [Next]_vars =>
        [\A s \in Scanners : Complete(s) /\ crashes = 0 /\ ~searchFailed => Covers(s)]_vars
  BY <1>3
<1> QED
  BY <1>1, <1>2, <1>4, TypedInit, TypedKept, PTL DEF Spec, UninterruptedScanCovers
=============================================================================
