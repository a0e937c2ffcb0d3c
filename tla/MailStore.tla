----------------------------- MODULE MailStore ------------------------------
(***************************************************************************)
(* What polling and the historical scan share: the mailbox of one account, *)
(* the rows that mark a message as seen, and the in-memory transaction     *)
(* queue between them and the ledger.                                      *)
(*                                                                         *)
(* A message is a number, its place in the order of arrival; Gmail's       *)
(* history id is the number of messages that have arrived.  Processing a   *)
(* message checks whether it was seen, fetches and extracts it, and either *)
(* hands an alert to the queue or stores it itself: as an entry parked     *)
(* for review, or as ignored.                                              *)
(*                                                                         *)
(* src/src-tauri/src/ingestion/message_processor.rs, ingestion/queues.rs,  *)
(* db/transaction_observations.rs                                          *)
(***************************************************************************)
EXTENDS Integers, Sequences, Functions

CONSTANTS
  MaxMail,   \* bound on the messages that arrive
  Kind,      \* whether a message is an alert, or is parked or ignored
  Capacity   \* of the transaction queue (TRANSACTION_QUEUE_CAPACITY)

Messages == 1..MaxMail

ASSUME MailAssumption ==
  MaxMail \in Nat /\ Kind \in [Messages -> {"alert", "other"}] /\ Capacity \in Nat \ {0}

VARIABLES
  arrived,   \* messages in the mailbox
  stored,    \* messages with an observation or an ignored_messages row
  queue,     \* copies of each message's job in the transaction queue
  booked,    \* how often each message was reconciled into the ledger
  excused,   \* messages with a scan_failed_messages row, or that a cancelled
             \* scan deleted (history)
  logged     \* messages whose loss only the log mentions (history)

mail == <<arrived, stored, queue, booked, excused, logged>>

MailType ==
  /\ arrived \in 0..MaxMail
  /\ stored \subseteq Messages
  /\ queue \in [Messages -> Nat] /\ booked \in [Messages -> Nat]
  /\ excused \subseteq Messages /\ logged \subseteq Messages

MailInit ==
  /\ arrived = 0 /\ stored = {} /\ excused = {} /\ logged = {}
  /\ queue = [m \in Messages |-> 0] /\ booked = [m \in Messages |-> 0]

Arrive ==
  /\ arrived < MaxMail /\ arrived' = arrived + 1
  /\ UNCHANGED <<stored, queue, booked, excused, logged>>

Seen(m) == m \in stored

(* process_message: what it stores by itself. *)
Processed(m) ==
  /\ stored' = IF Kind[m] = "other" THEN stored \union {m} ELSE stored
  /\ UNCHANGED <<arrived, queue, booked, excused, logged>>

(* Sending blocks while the queue is full. *)
Enqueue(m) ==
  /\ FoldFunction(+, 0, queue) < Capacity
  /\ queue' = [queue EXCEPT ![m] = @ + 1]
  /\ UNCHANGED <<arrived, stored, booked, excused, logged>>

(* An error while processing a message, which is passed over: a line of    *)
(* the log, and of a scan a scan_failed_messages row.                      *)
Log(m) ==
  /\ logged' = logged \union {m}
  /\ UNCHANGED <<arrived, stored, queue, booked, excused>>

Report(m) ==
  /\ excused' = excused \union {m}
  /\ UNCHANGED <<arrived, stored, queue, booked, logged>>

(* Regression: an observation already stored is reconciled again. *)
CommitAgain(m) ==
  /\ queue[m] > 0 /\ queue' = [queue EXCEPT ![m] = @ - 1]
  /\ stored' = stored \union {m}
  /\ booked' = [booked EXCEPT ![m] = @ + 1]
  /\ UNCHANGED <<arrived, excused, logged>>

(* A worker reconciles a job; storing the observation is idempotent, and   *)
(* one already stored is not reconciled again.                             *)
Commit(m) ==
  /\ queue[m] > 0 /\ queue' = [queue EXCEPT ![m] = @ - 1]
  /\ stored' = stored \union {m}
  /\ booked' = IF Seen(m) THEN booked ELSE [booked EXCEPT ![m] = @ + 1]
  /\ UNCHANGED <<arrived, excused, logged>>

(* The pool or the transaction fails: the job is dropped, with a line in   *)
(* the log.                                                                *)
Drop(m) ==
  /\ queue[m] > 0 /\ queue' = [queue EXCEPT ![m] = @ - 1]
  /\ logged' = logged \union {m}
  /\ UNCHANGED <<arrived, stored, booked, excused>>

(* The program still knows what became of a message: it is stored, on its  *)
(* way, has a row that says that it failed, or was deleted when the user   *)
(* cancelled a scan.                                                       *)
Known(m) == m \in stored \union excused \/ queue[m] > 0

(* It knows, or the log does.                                              *)
Accounted(m) == Known(m) \/ m \in logged
=============================================================================
