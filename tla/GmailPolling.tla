---------------------------- MODULE GmailPolling ----------------------------
(***************************************************************************)
(* Incremental polling of one Gmail account: from the stored history id,   *)
(* list what was added, process it message by message, and store the new   *)
(* history id.  The loop and the user's "Sync now" may poll at once.       *)
(*                                                                         *)
(* src/src-tauri/src/ingestion/polling.rs, ingestion/oauth.rs              *)
(***************************************************************************)
EXTENDS MailStore

CONSTANTS Pollers, None

VARIABLES
  checkpoint, \* last_processed_token of the gmail_history checkpoint
  account,    \* connected_accounts.last_history_id
  horizon,    \* history ids below it have expired at Gmail
  poll        \* each poll's place: pc, the next message, the last one listed

polling == <<checkpoint, account, horizon, poll>>

HistoryIds == 0..MaxMail

ASSUME NoneAssumption == None \notin HistoryIds

PollingType ==
  /\ checkpoint \in HistoryIds \union {None}
  /\ account \in HistoryIds \union {None}
  /\ horizon \in HistoryIds
  /\ poll \in [Pollers -> [pc : {"idle", "list", "look", "fetch", "send"},
                           next : Nat, latest : HistoryIds]]

Idle == [pc |-> "idle", next |-> 0, latest |-> 0]

PollingInit ==
  /\ checkpoint = None /\ account = 0 /\ horizon = 0
  /\ poll = [p \in Pollers |-> Idle]

(* Where polling reads from: the checkpoint wins over the account's row. *)
StartHistoryId == IF checkpoint # None THEN checkpoint ELSE account

Goto(p, pc)  == poll' = [poll EXCEPT ![p].pc = pc]
NextMail(p)  == poll' = [poll EXCEPT ![p].pc = "look", ![p].next = @ + 1]

Expire ==
  /\ horizon < arrived /\ horizon' = arrived
  /\ UNCHANGED <<checkpoint, account, poll, mail>>

(* A poll without a history id is skipped. *)
Open(p) ==
  /\ poll[p].pc = "idle" /\ StartHistoryId # None
  /\ poll' = [poll EXCEPT ![p] = [pc |-> "list", next |-> StartHistoryId + 1, latest |-> 0]]
  /\ UNCHANGED <<checkpoint, account, horizon, mail>>

List(p) ==
  /\ poll[p].pc = "list" /\ poll[p].next > horizon
  /\ poll' = [poll EXCEPT ![p].pc = "look", ![p].latest = arrived]
  /\ UNCHANGED <<checkpoint, account, horizon, mail>>

(* handle_invalid_history_id *)
ListExpired(p) ==
  /\ poll[p].pc = "list" /\ poll[p].next <= horizon
  /\ account' = None /\ poll' = [poll EXCEPT ![p] = Idle]
  /\ UNCHANGED <<checkpoint, horizon, mail>>

GiveUp(p) ==
  /\ poll[p].pc = "list" /\ poll' = [poll EXCEPT ![p] = Idle]
  /\ UNCHANGED <<checkpoint, account, horizon, mail>>

Look(p) ==
  LET m == poll[p].next IN
  /\ poll[p].pc = "look" /\ m <= poll[p].latest
  /\ IF Seen(m) THEN NextMail(p) ELSE Goto(p, "fetch")
  /\ UNCHANGED <<checkpoint, account, horizon, mail>>

Fetch(p) ==
  LET m == poll[p].next IN
  /\ poll[p].pc = "fetch" /\ Processed(m)
  /\ IF Kind[m] = "alert" THEN Goto(p, "send") ELSE NextMail(p)
  /\ UNCHANGED <<checkpoint, account, horizon>>

(* A message whose processing failed is logged and passed over. *)
FetchFails(p) ==
  /\ poll[p].pc = "fetch" /\ Log(poll[p].next) /\ NextMail(p)
  /\ UNCHANGED <<checkpoint, account, horizon>>

Send(p) ==
  /\ poll[p].pc = "send" /\ Enqueue(poll[p].next) /\ NextMail(p)
  /\ UNCHANGED <<checkpoint, account, horizon>>

(* Regression: the mailbox's history id is read when it is saved. *)
SaveCurrent(p) ==
  /\ poll[p].pc = "look" /\ poll[p].next > poll[p].latest
  /\ checkpoint' = arrived /\ account' = arrived
  /\ poll' = [poll EXCEPT ![p] = Idle]
  /\ UNCHANGED <<horizon, mail>>

(* save_history_id *)
Save(p) ==
  /\ poll[p].pc = "look" /\ poll[p].next > poll[p].latest
  /\ checkpoint' = poll[p].latest /\ account' = poll[p].latest
  /\ poll' = [poll EXCEPT ![p] = Idle]
  /\ UNCHANGED <<horizon, mail>>

PollStep(p) ==
  \/ Open(p) \/ List(p) \/ ListExpired(p) \/ Look(p) \/ Fetch(p) \/ Send(p) \/ Save(p)

-----------------------------------------------------------------------------
(* No message up to the history id polling resumes from was passed over    *)
(* without a trace, be it one in the log (save_history_id).                *)
NoMailSkippedByPolling ==
  StartHistoryId # None => \A m \in 1..StartHistoryId : Accounted(m)
=============================================================================
