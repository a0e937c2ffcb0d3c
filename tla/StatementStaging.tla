--------------------------- MODULE StatementStaging ---------------------------
(***************************************************************************)
(* Statement PDFs on their way into the ledger: uploaded or found in mail, *)
(* held for a password or for the name of the account, parsed by a queue   *)
(* of jobs, staged as a draft, and committed by the user.                  *)
(*                                                                         *)
(* A document is one attempt to import a file; its id is the key of the    *)
(* statement row, the unprocessed row, the draft and the stored PDF. Every *)
(* await point of the code at which another command can run is a boundary  *)
(* between two actions. What a row of a statement says is left out: rows   *)
(* are numbered.                                                           *)
(***************************************************************************)
EXTENDS Integers, Sequences, FiniteSets

CONSTANTS
  Files,          \* the PDF files the user or the bank may send
  Mailed,         \* those that may arrive in mail
  Selections,     \* sets of files the user may select together
  Cycle,          \* [Files -> the account and billing period it states, or NoCycle]
  Key,            \* [Files -> the password it is locked with, or NoKey]
  Headless,       \* files whose header does not name issuer and account
  Named,          \* files whose name gives the billing period away
  NoCycle, NoKey,
  Rows,           \* number of rows on a statement
  BatchThreshold, \* selections of more files report their progress
  QueueCapacity,  \* places in the statement queue
  Parsers,        \* STATEMENT_QUEUE_MAX_CONCURRENT
  MaxIds, MaxTasks, MaxSelections, MaxMishaps  \* bounds of the instance

ASSUME StagingAssumption ==
  /\ Rows \in Nat \ {0} /\ BatchThreshold \in Nat
  /\ QueueCapacity \in Nat \ {0} /\ Parsers \in Nat \ {0}
  /\ MaxIds \in Nat /\ MaxTasks \in Nat /\ MaxSelections \in Nat
  /\ MaxMishaps \in Nat
  /\ UNION {Mailed, Headless, Named} \subseteq Files /\ Selections \subseteq SUBSET Files
  /\ DOMAIN Cycle = Files /\ DOMAIN Key = Files

Ids == 1 .. MaxIds
RowNumbers == 1 .. Rows

VARIABLES
  source,       \* the file of each document, in the order the ids were drawn
  queuedRow,    \* [Ids -> the `statements` row with parse_status 'queued': none, with or without file_hash]
  unprocessed,  \* [Ids -> status of the unprocessed_statements row]
  noted,        \* documents whose unprocessed row carries the file's hash
  drafts,       \* [Ids -> status of the statement_drafts row]
  stored,       \* documents whose PDF is on disk
  retained,     \* documents with a pdf_retained_until
  entered,      \* `statements` rows with parse_status 'parsed', entries and evidence
  passwords,    \* pdf_passwords
  queue,        \* jobs in memory
  tasks,        \* commands and jobs in progress
  prompt,       \* the document the account dialog asks about, 0 if closed
  sweep,        \* rows a "parse all again" has yet to visit
  batches,      \* upload commands: files left, and the progress tracker
  fate,         \* [Ids -> how the document's journey ended] (history)
  spoilt,       \* statements entered by a commit that lost a write, or was cut short (history)
  mishaps       \* failed steps and quits so far

rows == <<queuedRow, unprocessed, noted, drafts, retained, entered, passwords>>
window == <<prompt, sweep>>
history == <<fate, spoilt, mishaps>>
vars == <<source, rows, stored, queue, tasks, window, batches, history>>

IntakeKinds == {"upload", "email"}
PipelineKinds == {"job", "submit", "retry", "reparse", "confirm"}

Task == [kind: IntakeKinds \cup PipelineKinds \cup {"commit"}, id: 0 .. MaxIds, file: Files,
         batch: Nat, pc: {"check", "unlock", "enqueue", "send", "parse", "block", "cycle", "draft",
         "staged", "blocked", "failed", "statement", "entries", "observe", "bill", "retain", "status"},
         at: Nat]

Statement == [draft: Ids, file: Files, entries: SUBSET RowNumbers,
              evidence: SUBSET (RowNumbers \X RowNumbers)]

AwaitingStatus == {"awaiting_password", "awaiting_instrument_confirmation"}

(* Shapes of the rows, the queue and the tasks; ids are drawn in order. *)
TypeOK ==
  /\ source \in Seq(Files) /\ Len(source) <= MaxIds
  /\ queuedRow \in [Ids -> {"none", "hashed", "plain"}]
  /\ unprocessed \in [Ids -> AwaitingStatus \cup {"none", "resolved"}]
  /\ drafts \in [Ids -> {"none", "pending_review", "committed"}]
  /\ noted \subseteq Ids /\ stored \subseteq Ids /\ retained \subseteq Ids /\ spoilt \subseteq DOMAIN entered
  /\ entered \in Seq(Statement)
  /\ passwords \subseteq {Key[f] : f \in Files}
  /\ queue \in Seq([id: Ids, batch: Nat]) /\ Len(queue) <= QueueCapacity
  /\ tasks \subseteq Task
  /\ prompt \in 0 .. MaxIds /\ sweep \subseteq Ids
  /\ \A b \in DOMAIN batches : batches[b].left \subseteq Files
  /\ fate \in [Ids -> {"open", "moved", "failed", "discarded", "dropped"}]
  /\ mishaps \in 0 .. MaxMishaps

Init ==
  /\ source = <<>> /\ queuedRow = [i \in Ids |-> "none"]
  /\ unprocessed = [i \in Ids |-> "none"] /\ noted = {}
  /\ drafts = [i \in Ids |-> "none"]
  /\ stored = {} /\ retained = {} /\ entered = <<>>
  /\ passwords \in SUBSET ({Key[f] : f \in Files} \ {NoKey})
  /\ queue = <<>> /\ tasks = {} /\ prompt = 0 /\ sweep = {} /\ batches = <<>>
  /\ fate = [i \in Ids |-> "open"] /\ spoilt = {} /\ mishaps = 0

-----------------------------------------------------------------------------
(* Helpers. *)

Drawn == 1 .. Len(source)
NextId == Len(source) + 1
Pipelines == {t \in tasks : t.kind \in PipelineKinds}
Jobs == {t \in tasks : t.kind = "job"}

\* Work on a file with no header may have to draw one more id (a bound of the instance).
Spare(f) == IF f \in Headless THEN 1 ELSE 0
Reserved ==
  LET pending == {t \in tasks : t.kind # "confirm" /\ t.pc \in {"check", "unlock", "enqueue", "send", "parse", "block"}}
  IN  Cardinality({t \in pending : t.pc = "check"}) + Cardinality({t \in pending : t.file \in Headless})
      + Cardinality({n \in DOMAIN queue : source[queue[n].id] \in Headless})
Room(n) == Len(source) + Reserved + n <= MaxIds /\ Cardinality(tasks) < MaxTasks

Step(t, pc) == tasks' = (tasks \ {t}) \cup {[t EXCEPT !.pc = pc]}
End(t) == tasks' = tasks \ {t}
Start(kind, id, file, batch, pc) ==
  tasks' = tasks \cup {[kind |-> kind, id |-> id, file |-> file, batch |-> batch, pc |-> pc, at |-> 0]}

Fault == mishaps < MaxMishaps /\ mishaps' = mishaps + 1
Ends(id, how) == fate' = [fate EXCEPT ![id] = IF @ = "open" THEN how ELSE @]

(* The tables: statements that wait to be parsed, drafts, and what is      *)
(* entered.  A draft's id is a primary key.                                *)
InsertQueued(i, as) == queuedRow' = [queuedRow EXCEPT ![i] = as]
DeleteQueued(i) == queuedRow' = [queuedRow EXCEPT ![i] = "none"]

InsertDraft(i) == drafts[i] = "none" /\ drafts' = [drafts EXCEPT ![i] = "pending_review"]
UpdateDraft(i, status) == drafts' = [drafts EXCEPT ![i] = IF @ = "none" THEN @ ELSE status]
DeleteDraft(i) == drafts' = [drafts EXCEPT ![i] = "none"]
PendingReview == {i \in DOMAIN drafts : drafts[i] = "pending_review"}

InsertStatement(i, f) == entered' = Append(entered, [draft |-> i, file |-> f, entries |-> {}, evidence |-> {}])
InsertEntries(at, written) == entered' = [entered EXCEPT ![at].entries = written]

(* The progress tracker of a batch, seeded with the number of files. *)
Counted(b) == IF b = 0 THEN batches ELSE [batches EXCEPT ![b].finished = @ + 1]

HashSeen(f) ==
  \/ \E i \in Drawn : source[i] = f /\ queuedRow[i] = "hashed"
  \/ \E i \in Drawn : source[i] = f /\ i \in noted /\ unprocessed[i] # "none"

CycleSeen(f) ==
  Cycle[f] # NoCycle /\ \E n \in DOMAIN entered : Cycle[entered[n].file] = Cycle[f]

NameSeen(f) == f \in Named /\ CycleSeen(f)

\* try_all_stored_passwords, after trying without one.
Opens(f) == Key[f] \in passwords \cup {NoKey}

Actionable == {i \in Drawn : unprocessed[i] = "awaiting_password"}

Committing(i) == \E t \in tasks : t.kind = "commit" /\ t.id = i

\* The thirty days do not run out while a commit is under way.
CleanupExpiredPdfs ==
  \E expired \in SUBSET {i \in retained : ~Committing(i)} :
    stored' = stored \ expired /\ retained' = retained \ expired

-----------------------------------------------------------------------------
(* Intake: uploads and mail. *)

SelectFiles(S) ==
  /\ Len(batches) < MaxSelections /\ S # {}
  /\ \A b \in DOMAIN batches : batches[b].left = {}
  /\ ~ \E t \in tasks : t.kind = "upload"
  /\ CleanupExpiredPdfs
  /\ batches' = Append(batches, [left |-> S, total |-> Cardinality(S), finished |-> 0])
  /\ UNCHANGED <<source, queuedRow, unprocessed, noted, drafts, entered, passwords, queue, tasks, window, history>>

NextFile(b, f) ==
  /\ f \in batches[b].left /\ Room(1 + Spare(f))
  /\ ~ \E t \in tasks : t.kind = "upload"
  /\ batches' = [batches EXCEPT ![b].left = @ \ {f}]
  /\ Start("upload", 0, f, IF batches[b].total > BatchThreshold THEN b ELSE 0, "check")
  /\ UNCHANGED <<source, rows, stored, queue, window, history>>

Attachment(f) ==
  /\ Room(1 + Spare(f))
  /\ Start("email", 0, f, 0, "check")
  /\ UNCHANGED <<source, rows, stored, queue, window, batches, history>>

CheckDuplicate(t) ==
  /\ t.pc = "check"
  /\ IF HashSeen(t.file) \/ (t.kind = "upload" /\ NameSeen(t.file))
     THEN /\ End(t) /\ batches' = Counted(t.batch) /\ UNCHANGED source
     ELSE /\ NextId <= MaxIds
          /\ source' = Append(source, t.file)
          /\ tasks' = (tasks \ {t}) \cup {[t EXCEPT !.pc = "unlock", !.id = NextId]}
          /\ UNCHANGED batches
  /\ UNCHANGED <<rows, stored, queue, window, history>>

\* A sidecar that cannot be reached counts as a password that does not fit.
ResolvePassword(t) ==
  /\ t.pc = "unlock"
  /\ \/ /\ Opens(t.file)
        /\ Step(t, "enqueue")
        /\ UNCHANGED <<unprocessed, noted, stored, batches, mishaps>>
     \/ /\ \/ ~Opens(t.file) /\ UNCHANGED mishaps
           \/ Fault
        /\ unprocessed' = [unprocessed EXCEPT ![t.id] = "awaiting_password"]
        /\ noted' = IF t.kind = "upload" THEN noted \cup {t.id} ELSE noted
        /\ stored' = stored \cup {t.id}
        /\ batches' = Counted(t.batch)
        /\ End(t)
  /\ UNCHANGED <<source, queuedRow, drafts, retained, entered, passwords, queue, window, fate, spoilt>>

Enqueue(t) ==
  /\ t.pc = "enqueue"
  /\ InsertQueued(t.id, IF t.kind = "upload" THEN "hashed" ELSE "plain")
  /\ \/ /\ stored' = stored \cup {t.id} /\ Step(t, "send")
        /\ UNCHANGED <<batches, fate, mishaps>>
     \/ /\ Fault /\ Ends(t.id, IF t.kind = "upload" THEN "failed" ELSE "dropped")
        /\ batches' = Counted(t.batch) /\ End(t) /\ UNCHANGED stored
  /\ UNCHANGED <<source, unprocessed, noted, drafts, retained, entered, passwords, queue, window, spoilt>>

Send(t) ==
  /\ t.pc = "send" /\ Len(queue) < QueueCapacity
  /\ queue' = Append(queue, [id |-> t.id, batch |-> t.batch])
  /\ End(t)
  /\ UNCHANGED <<source, rows, stored, window, batches, history>>

-----------------------------------------------------------------------------
(* stage_parse_pipeline, for jobs of the queue and for commands. *)

Dispatch ==
  /\ queue # <<>> /\ Cardinality(Jobs) < Parsers
  /\ Start("job", Head(queue).id, source[Head(queue).id], Head(queue).batch, "parse")
  /\ queue' = Tail(queue)
  /\ UNCHANGED <<source, rows, stored, window, batches, history>>

Fail(t) == Fault /\ Step(t, "failed")

\* Pages, metadata, and the gate on issuer and account.
Parse(t) ==
  /\ t.pc = "parse"
  /\ stored' = stored \cup {t.id}
  /\ \/ /\ t.kind = "confirm" \/ t.file \notin Headless
        /\ Step(t, "cycle") /\ UNCHANGED <<queuedRow, mishaps>>
     \/ /\ t.kind # "confirm" /\ t.file \in Headless
        /\ DeleteQueued(t.id)
        /\ Step(t, "block") /\ UNCHANGED mishaps
     \/ Fail(t) /\ UNCHANGED queuedRow
  /\ UNCHANGED <<source, unprocessed, noted, drafts, retained, entered, passwords, queue, window, batches, fate, spoilt>>

\* The document continues under a new id, and the dialog moves to it.
BlockedAwaitingInstrument(t) ==
  /\ NextId <= MaxIds
  /\ source' = Append(source, t.file)
  /\ unprocessed' = [unprocessed EXCEPT ![NextId] = "awaiting_instrument_confirmation"]
  /\ noted' = IF t.kind = "job" \/ t.id \in noted THEN noted \cup {NextId} ELSE noted
  /\ stored' = stored \cup {NextId}
  /\ prompt' = NextId
  /\ Ends(t.id, "moved")
  /\ Step(t, "blocked")
  /\ UNCHANGED <<sweep, mishaps>>

Block(t) ==
  /\ t.pc = "block"
  /\ \/ BlockedAwaitingInstrument(t)
     \/ Fail(t) /\ UNCHANGED <<source, unprocessed, noted, stored, window, fate>>
  /\ UNCHANGED <<queuedRow, drafts, retained, entered, passwords, queue, batches, spoilt>>

CheckCycle(t) ==
  /\ t.pc = "cycle"
  /\ passwords' = IF Key[t.file] = NoKey THEN passwords ELSE passwords \cup {Key[t.file]}
  /\ \/ /\ CycleSeen(t.file)
        /\ DeleteQueued(t.id)
        /\ Step(t, "failed") /\ UNCHANGED mishaps
     \/ /\ ~CycleSeen(t.file)
        /\ Step(t, "draft") /\ UNCHANGED <<queuedRow, mishaps>>
     \/ ~CycleSeen(t.file) /\ Fail(t) /\ UNCHANGED queuedRow
  /\ UNCHANGED <<source, unprocessed, noted, drafts, retained, entered, stored, queue, window, batches, fate, spoilt>>

(* Regression: the draft is upserted. *)
StageDraftAgain(t) ==
  /\ t.pc = "draft"
  /\ DeleteQueued(t.id)
  /\ drafts' = [drafts EXCEPT ![t.id] = "pending_review"]
  /\ Step(t, "staged")
  /\ UNCHANGED <<source, unprocessed, noted, retained, entered, passwords, stored, queue, window, batches, history>>

StageDraft(t) ==
  /\ t.pc = "draft"
  /\ DeleteQueued(t.id)
  /\ \/ InsertDraft(t.id) /\ Step(t, "staged") /\ UNCHANGED mishaps
     \/ drafts[t.id] # "none" /\ Step(t, "failed") /\ UNCHANGED <<drafts, mishaps>>
     \/ Fail(t) /\ UNCHANGED drafts
  /\ UNCHANGED <<source, unprocessed, noted, retained, entered, passwords, stored, queue, window, batches, fate, spoilt>>

(* Regression: the unprocessed row goes away when the retry fails. *)
SettleForgets(t) ==
  /\ t.pc \in {"staged", "blocked", "failed"}
  /\ stored' = IF t.kind = "job" /\ t.pc # "staged" THEN stored \ {t.id} ELSE stored
  /\ unprocessed' = IF t.kind \in {"submit", "retry", "reparse"} /\ t.pc # "staged"
                    THEN [unprocessed EXCEPT ![t.id] = "none"] ELSE unprocessed
  /\ batches' = Counted(t.batch)
  /\ prompt' = IF t.kind = "confirm" /\ t.pc = "staged" THEN 0 ELSE prompt
  /\ IF t.pc = "failed" /\ t.kind \in {"job", "submit", "confirm"}
     THEN Ends(t.id, "failed") ELSE UNCHANGED fate
  /\ End(t)
  /\ UNCHANGED <<source, queuedRow, noted, drafts, retained, entered, passwords, queue, sweep, spoilt, mishaps>>

(* Regression: the job always deletes its PDF. *)
SettleDeletes(t) ==
  /\ t.pc \in {"staged", "blocked", "failed"}
  /\ stored' = IF t.kind = "job" THEN stored \ {t.id} ELSE stored
  /\ unprocessed' = IF t.kind \in {"submit", "retry", "reparse"} /\ t.pc = "blocked"
                    THEN [unprocessed EXCEPT ![t.id] = "none"] ELSE unprocessed
  /\ batches' = Counted(t.batch)
  /\ prompt' = IF t.kind = "confirm" /\ t.pc = "staged" THEN 0 ELSE prompt
  /\ IF t.pc = "failed" /\ t.kind \in {"job", "submit", "confirm"}
     THEN Ends(t.id, "failed") ELSE UNCHANGED fate
  /\ End(t)
  /\ UNCHANGED <<source, queuedRow, noted, drafts, retained, entered, passwords, queue, sweep, spoilt, mishaps>>

(* Regression: a job that failed never gives its permit back. *)
SettleStuck(t) ==
  /\ t.pc \in {"staged", "blocked"}
  /\ stored' = IF t.kind = "job" /\ t.pc # "staged" THEN stored \ {t.id} ELSE stored
  /\ unprocessed' = IF t.kind \in {"submit", "retry", "reparse"} /\ t.pc = "blocked"
                    THEN [unprocessed EXCEPT ![t.id] = "none"] ELSE unprocessed
  /\ batches' = Counted(t.batch)
  /\ prompt' = IF t.kind = "confirm" /\ t.pc = "staged" THEN 0 ELSE prompt
  /\ IF t.pc = "failed" /\ t.kind \in {"job", "submit", "confirm"}
     THEN Ends(t.id, "failed") ELSE UNCHANGED fate
  /\ End(t)
  /\ UNCHANGED <<source, queuedRow, noted, drafts, retained, entered, passwords, queue, sweep, spoilt, mishaps>>

\* What each caller does with the outcome of the pipeline.
Settle(t) ==
  /\ t.pc \in {"staged", "blocked", "failed"}
  /\ stored' = IF t.kind = "job" /\ t.pc # "staged" THEN stored \ {t.id} ELSE stored
  /\ unprocessed' = IF t.kind \in {"submit", "retry", "reparse"} /\ t.pc = "blocked"
                    THEN [unprocessed EXCEPT ![t.id] = "none"] ELSE unprocessed
  /\ batches' = Counted(t.batch)
  /\ prompt' = IF t.kind = "confirm" /\ t.pc = "staged" THEN 0 ELSE prompt
  /\ IF t.pc = "failed" /\ t.kind \in {"job", "submit", "confirm"}
     THEN Ends(t.id, "failed") ELSE UNCHANGED fate
  /\ End(t)
  /\ UNCHANGED <<source, queuedRow, noted, drafts, retained, entered, passwords, queue, sweep, spoilt, mishaps>>

-----------------------------------------------------------------------------
(* The user's answers. *)

\* A correct password resolves the row before the file is parsed.
SubmitPassword(i) ==
  /\ i \in Actionable \cap stored /\ Room(Spare(source[i]))
  /\ unprocessed' = [unprocessed EXCEPT ![i] = "resolved"]
  /\ Start("submit", i, source[i], 0, "parse")
  /\ UNCHANGED <<source, queuedRow, noted, drafts, retained, entered, passwords, stored, queue, window, batches, history>>

Retry(i, kind) ==
  /\ i \in stored /\ unprocessed[i] # "none"
  /\ Key[source[i]] \in passwords
  /\ Room(Spare(source[i]))
  /\ Start(kind, i, source[i], 0, "parse")

RetryUnprocessed(i) ==
  /\ i \in Actionable /\ Retry(i, "retry")
  /\ ~ \E t \in tasks : t.kind = "retry"
  /\ UNCHANGED <<source, rows, stored, queue, window, batches, history>>

Sweeping == sweep # {} \/ \E t \in tasks : t.kind = "reparse"

ReparseAll ==
  /\ ~Sweeping /\ Actionable # {}
  /\ sweep' = Actionable
  /\ UNCHANGED <<source, rows, stored, queue, tasks, prompt, batches, history>>

\* The rows were read at the start, the newest comes first; each is looked up again by id alone.
ReparseNext(i) ==
  /\ i \in sweep /\ \A j \in sweep : j <= i
  /\ ~ \E t \in tasks : t.kind = "reparse"
  /\ sweep' = sweep \ {i}
  /\ IF unprocessed[i] # "none" /\ i \in stored /\ Key[source[i]] \in passwords
     THEN Retry(i, "reparse") ELSE UNCHANGED tasks
  /\ UNCHANGED <<source, rows, stored, queue, prompt, batches, history>>

ConfirmInstrument ==
  /\ prompt # 0 /\ prompt \in stored /\ unprocessed[prompt] # "none" /\ Room(0)
  /\ ~ \E t \in tasks : t.kind = "confirm"
  /\ Start("confirm", prompt, source[prompt], 0, "parse")
  /\ UNCHANGED <<source, rows, stored, queue, window, batches, history>>

CloseInstrumentModal ==
  /\ prompt # 0 /\ prompt' = 0
  /\ UNCHANGED <<source, rows, stored, queue, tasks, sweep, batches, history>>

DiscardUnprocessed(i) ==
  /\ i \in Actionable
  /\ unprocessed' = [unprocessed EXCEPT ![i] = "none"]
  /\ Ends(i, "discarded")
  /\ UNCHANGED <<source, queuedRow, noted, drafts, retained, entered, passwords, stored, queue, tasks, window,
                 batches, spoilt, mishaps>>

DiscardDraft(i) ==
  /\ i \in PendingReview /\ ~Committing(i)
  /\ stored' = stored \ {i}
  /\ DeleteDraft(i)
  /\ fate' = [fate EXCEPT ![i] = "discarded"]
  /\ UNCHANGED <<source, queuedRow, unprocessed, noted, retained, entered, passwords, queue, tasks, window,
                 batches, spoilt, mishaps>>

-----------------------------------------------------------------------------
(* commit_staged_draft: six transactions, one after another. *)

CommitDraft(i) ==
  /\ i \in PendingReview /\ ~Committing(i) /\ Cardinality(tasks) < MaxTasks
  /\ Start("commit", i, source[i], 0, "statement")
  /\ UNCHANGED <<source, rows, stored, queue, window, batches, history>>

WriteStatement(t) ==
  /\ t.pc = "statement"
  /\ InsertStatement(t.id, t.file)
  /\ tasks' = (tasks \ {t}) \cup {[t EXCEPT !.pc = "entries", !.at = Len(entered) + 1]}
  /\ UNCHANGED <<source, queuedRow, unprocessed, noted, drafts, retained, passwords, stored, queue, window, batches, history>>

\* A row whose entry cannot be written is logged and left out.
MapRows(t) ==
  /\ t.pc = "entries"
  /\ \/ /\ InsertEntries(t.at, RowNumbers)
        /\ UNCHANGED <<spoilt, mishaps>>
     \/ /\ Fault /\ spoilt' = spoilt \cup {t.at}
        /\ \E r \in RowNumbers : InsertEntries(t.at, RowNumbers \ {r})
  /\ Step(t, "observe")
  /\ UNCHANGED <<source, queuedRow, unprocessed, noted, drafts, retained, passwords, stored, queue, window, batches, fate>>

(* Regression: the entries come back newest first. *)
ZippedBackwards(kept) == {<<Cardinality({k \in kept : k >= e}), e>> : e \in kept}

(* build_all_observations zips the rows with the ids of the entries written. *)
Zipped(kept) == {<<Cardinality({k \in kept : k <= e}), e>> : e \in kept}

Observe(t) ==
  /\ t.pc = "observe"
  /\ \/ /\ entered' = [entered EXCEPT ![t.at].evidence = Zipped(entered[t.at].entries)]
        /\ UNCHANGED <<spoilt, mishaps>>
     \/ /\ Fault /\ spoilt' = spoilt \cup {t.at}
        /\ \E lost \in Zipped(entered[t.at].entries) :
             entered' = [entered EXCEPT ![t.at].evidence = Zipped(entered[t.at].entries) \ {lost}]
  /\ Step(t, "bill")
  /\ UNCHANGED <<source, queuedRow, unprocessed, noted, drafts, retained, passwords, stored, queue, window, batches, fate>>

ClassifyBill(t) ==
  /\ t.pc = "bill"
  /\ \/ Step(t, "retain") /\ UNCHANGED <<spoilt, mishaps>>
     \/ Fault /\ End(t) /\ spoilt' = spoilt \cup {t.at}
  /\ UNCHANGED <<source, rows, stored, queue, window, batches, fate>>

RetainPdf(t) ==
  /\ t.pc = "retain"
  /\ unprocessed' = [unprocessed EXCEPT ![t.id] = "resolved"]
  /\ retained' = retained \cup {t.id}
  /\ Step(t, "status")
  /\ UNCHANGED <<source, queuedRow, noted, drafts, entered, passwords, stored, queue, window, batches, history>>

MarkCommitted(t) ==
  /\ t.pc = "status"
  /\ UpdateDraft(t.id, "committed")
  /\ End(t)
  /\ UNCHANGED <<source, queuedRow, unprocessed, noted, retained, entered, passwords, stored, queue, window, batches, history>>

-----------------------------------------------------------------------------
(* Quitting and the next launch. *)

InMemory == {t.id : t \in tasks} \cup {queue[n].id : n \in DOMAIN queue}

\* Nothing queues the documents again: rows marked 'queued' are not read at launch.
Quit ==
  /\ IF InMemory = {} THEN UNCHANGED mishaps ELSE Fault
  /\ fate' = [i \in Ids |-> IF /\ i \in InMemory /\ ~Committing(i) /\ fate[i] = "open"
                               /\ unprocessed[i] \notin AwaitingStatus
                            THEN "dropped" ELSE fate[i]]
  /\ spoilt' = spoilt \cup ({t.at : t \in {u \in tasks : u.kind = "commit"}} \ {0})
  /\ queue' = <<>> /\ tasks' = {} /\ prompt' = 0 /\ sweep' = {}
  /\ batches' = [b \in DOMAIN batches |-> [left |-> {}, total |-> 0, finished |-> 0]]
  /\ CleanupExpiredPdfs
  /\ UNCHANGED <<source, queuedRow, unprocessed, noted, drafts, entered, passwords>>

TaskStep(t) ==
  \/ CheckDuplicate(t) \/ ResolvePassword(t) \/ Enqueue(t) \/ Send(t)
  \/ Parse(t) \/ Block(t) \/ CheckCycle(t) \/ StageDraft(t) \/ Settle(t)
  \/ WriteStatement(t) \/ MapRows(t) \/ Observe(t) \/ ClassifyBill(t) \/ RetainPdf(t) \/ MarkCommitted(t)

UserOn(i) ==
  \/ SubmitPassword(i) \/ RetryUnprocessed(i) \/ DiscardUnprocessed(i)
  \/ DiscardDraft(i) \/ CommitDraft(i)

Next ==
  \/ \E S \in Selections : SelectFiles(S)
  \/ \E b \in DOMAIN batches : \E f \in batches[b].left : NextFile(b, f)
  \/ \E f \in Mailed : Attachment(f)
  \/ \E t \in tasks : TaskStep(t)
  \/ Dispatch
  \/ \E i \in Drawn : UserOn(i)
  \/ \E i \in sweep : ReparseNext(i)
  \/ ReparseAll \/ ConfirmInstrument \/ CloseInstrumentModal
  \/ Quit

\* The dispatcher and each job run on; commands are awaited by the window.
JobStep(i) == \E t \in Jobs : t.id = i /\ TaskStep(t)
Fairness == WF_vars(Dispatch) /\ \A i \in Ids : WF_vars(JobStep(i))

Spec == Init /\ [][Next]_vars /\ Fairness

-----------------------------------------------------------------------------
(* Properties. *)

Entries(i) == {n \in DOMAIN entered : entered[n].draft = i}

(* Between the password dialog, the queue, the drafts and the ledger no      *)
(* document gets lost on the way: unless its file was refused or failed,     *)
(* the user discarded it or the program ended, something still holds it.     *)
StatementAccountedFor ==
  \A i \in Drawn : fate[i] = "open" =>
    \/ i \in InMemory \/ unprocessed[i] \in AwaitingStatus
    \/ drafts[i] = "pending_review" \/ Entries(i) # {}

(* A draft waiting for review can still show its PDF, whichever of parsing, *)
(* retrying, discarding and the expiry of committed PDFs ran in between;     *)
(* the exceptions are a commit cut short after it set the expiry date, and   *)
(* a retry that overtook the discarding of its own draft.                    *)
PendingDraftKeepsPdf ==
  \A i \in Drawn : drafts[i] = "pending_review" =>
    \/ i \in stored \/ fate[i] = "discarded"
    \/ Entries(i) \cap spoilt # {}

(* A committed draft is in the ledger with every row, and every observation  *)
(* pairs a row with the entry written for that row: the two lists that       *)
(* commit_staged_draft zips only shift when a row could not be written.      *)
CommittedIsComplete ==
  \A i \in Ids : drafts[i] = "committed" =>
    \E n \in Entries(i) :
      n \notin spoilt => /\ entered[n].entries = RowNumbers
                         /\ entered[n].evidence = {<<e, e>> : e \in RowNumbers}

(* A draft is entered once: retries, stale lists and dialogs never let the   *)
(* same draft be staged and committed again. Only a commit that stopped      *)
(* half-way leaves an extra statement behind.                                *)
EnteredOnce ==
  \A i \in Drawn : \A m, n \in Entries(i) : m < n => m \in spoilt

(* A queued statement is parsed whatever the other jobs and commands do.     *)
QueueDrains ==
  \A i \in Ids :
    (\E n \in DOMAIN queue : queue[n].id = i)
      ~> (i \notin {queue[n].id : n \in DOMAIN queue} \cup {t.id : t \in Jobs})

(* What duplicate_check.rs promises of the hash of the file: the same bytes  *)
(* do not enter the ledger twice.                                            *)
FileEnteredOnce ==
  \A m, n \in DOMAIN entered : m # n /\ entered[m].file = entered[n].file => {m, n} \cap spoilt # {}
=============================================================================
