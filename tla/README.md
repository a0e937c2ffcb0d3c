# Dinero: a verification project in TLA+

Dinero is a desktop application that builds a ledger of the user's payments from bank emails,
statement PDFs and manual entries. Its core (`src/src-tauri/src`, Rust) is a set of cooperating
tasks over one encrypted SQLite file; a React front end (`src/src`) calls it through commands, and a
small TypeScript service (`src/licensing-backend`) sells licences.

What can go wrong here is seldom one function. Evidence of one payment arrives several times and in
any order; minutes pass between reading a row and writing the answer of a language model to it;
a poll, a scan, a background job and the user meet at the same message; tokens, licences and keys
are renewed while somebody else reads them; and the application may quit between any two commits.
The modules of this directory model those parts, TLC explores every interleaving of them on small
instances, and TLAPS proves the central invariants for all instances.

| What | Where |
|---|---|
| the reconciliation engine, its review queue and ledger edits; what they promise | `MatchScoring`, `Reconciliation`, `PaymentBook` |
| entries a language model completes in the background | `Enrichment` |
| polling, historical scan and queue of one mail account | `MailStore`, `GmailPolling`, `HistoricalScan`, `MailIntake` |
| connecting mailboxes, their tokens, losing and ending access | `MailAccount` |
| who sent a message and what it is about | `SenderGates` |
| statement PDFs from upload or mail to the ledger | `StatementStaging` |
| text to fields: the ladder of layers, and the rules it learns | `Extraction`, `RuleLearning` |
| names of merchants, and the pass that cleans them up | `MerchantNames`, `MerchantCleanup` |
| model files and the model server | `ModelSidecar` |
| instruments, mandates, bills | `Commitments` |
| alerts on spending | `SpendAlerts` |
| licence: client, service, and what both promise | `Licensing`, `LicenceLease` |
| keys, backups, moves to another machine | `KeyCustody` |
| instances for TLC | the `MC...` modules and 12 `.cfg` files |
| proofs | `ReconciliationProofs`, `LedgerHistoryProofs`, `StatementStagingProofs`, `EnrichmentProofs`, `MailIntakeProofs`, `LicensingProofs`, `HouseholdProofs` (keys, mandates, sidecar, alerts, gates), `LearningProofs` (rules, merchants and their clean-up) |
| the runs, mutants, findings, hazards and the map from definitions to source lines | `PROJECT.json` |

Run a check with `tlc -workers 2 -config MCLedger.cfg MCReconciliation`, a proof with
`tlapm ReconciliationProofs.tla`.

Paths below are relative to `src/src-tauri/src` unless they start with `src/`.

# 1. Inventory

For each component: its state, its operations, whom it meets, what is hard about it, and what makes
it correct. The status of each is in `PROJECT.json`, every hazard with its line under `hazards`.

## Modelled

**Reconciliation engine** (`reconciliation/engine.rs`, `scorer.rs`, `exact_match.rs`, `prefilter.rs`,
`canonical.rs`, `post_processing.rs`). State: `transaction_observations` (one row per piece of evidence,
with a link to a transaction), `transactions` (the canonical ledger, with `source_mix`, status and the
transaction a refund reverses). One operation, `reconcile`, runs inside `BEGIN IMMEDIATE` and has four
outcomes: exact merge, merge by score, new transaction, ambiguity. Called by the transaction workers,
the statement commit, the enrichment jobs and manual entry. Hard: every order of the sources takes
other branches with other rules of precedence; a merge changes the row that later evidence is
compared with. Correct when only evidence of one payment is merged, statements are never
overridden by weaker sources, and every transaction rests on evidence.

**Ambiguity clusters and decision log** (`reconciliation/cluster.rs`, `audit.rs`, `commands/data.rs`).
State: `reconciliation_clusters` with members, `match_decisions` (append-only). Operations: raise or
join a cluster; confirm, reject, keep separate, defer, undo. The verdicts commit statement by
statement, so a crash leaves a prefix. Correct when no evidence is forgotten and the log explains
every link.

**Ledger editing** (`commands/mod.rs`, `db/transactions.rs`, `db/transaction_observations.rs`). Edits of
amount, direction, time, instrument and merchant; deletion of manual transactions. They change rows that open
clusters and later merges refer to.

**Background enrichment, "layer 6"** (`ingestion/queues.rs`, `db/layer6_jobs.rs`,
`db/unassigned_transactions.rs`, `llm_pipeline.rs`). State: `unassigned_transactions` (entries waiting for
the model or the user), `layer6_pending_jobs` (durable jobs), jobs in memory. Operations: park,
persist, run the model, apply the outcome in several commits, replay at launch. Hard: minutes-old
results applied against entries the user, a cancelled scan or a verdict changed meanwhile; replay
after a crash between any two commits. Correct when a payment is booked once, a decided entry stays
decided, and every durable job comes to an end.

**Manual review of unassigned entries** (`commands/data.rs`,
`src/src/components/reconciliation/unassigned/useUnassignedForm.ts`). The form books a manual observation, then
settles the entry: two commands, with the background job running in between.

**Gmail polling** (`ingestion/polling.rs`, `ingestion/oauth.rs`, `db/connected_accounts.rs`). State: a history
id in two places, `connected_accounts.last_history_id` and the `gmail_history` checkpoint. A loop polls
every account, and "Sync now" polls beside it. Hard: the id is saved long after it was read, while
another poll works; Gmail expires ids. Correct when no mail is left behind.

**Historical scan** (`ingestion/historical_scan.rs`, `db/processing_checkpoints.rs`,
`ingestion/scan_db_batcher.rs`). State: one checkpoint row per account (status, list of ids, count), the set
of cancelled accounts, up to 25 fetch tasks, a batch of rows to write. Operations: claim, resume or
search, fetch, join, checkpoint, complete, fail, cancel and sweep. Hard: racing claims, fetches
that finish out of order, writes that land after the sweep, quitting in the middle. Correct when one
scan runs, a completed scan covers what was asked for, and the claim is always released.

**Transaction queue** (`ingestion/queues.rs`). A bounded channel of 256 jobs in memory with four
workers between intake and the engine; senders block when it is full, a worker that gets no
connection drops the job and reports it.

**Access to mailboxes** (`ingestion/oauth.rs`, `gmail_client.rs`, `db/connected_accounts.rs`). State: the
status of an account, its token in the keychain, the grant at Google. Operations: consent and
enrolment in the browser, renewal of a token, purge and degradation when Google refuses, disconnection
in three steps. Hard: a renewal is stored, or a refused token purged, long after it was read, while the
user reconnects or disconnects. Correct when an account that counts as active can be read, or is soon
reported.

**Message processing gates** (`ingestion/message_processor.rs`, `content_classifier.rs`, `verified_senders.rs`,
`auth_results.rs`, `db/sender_reputation.rs`, `db/ignored_messages.rs`). Decide who sent a message, what
it is about (first by subject and snippet, then by the whole text), and whether it is queued, parked
or ignored. State: sightings, suspects, the user's overrides of a sender's bank, ignored messages with
their expiry. Hard: a poll writes at once, a scan through a batch that may be lost; verdicts are remembered.
Correct when only vouched-for messages about money that moved reach the ledger, and a message turned
away for its sender is judged again.

**Statement staging and commit** (`commands/mod.rs` 130-942 and 1560-1700, `statements/duplicate_check.rs`,
`password.rs`, `pdf_storage.rs`, `observation_builder.rs`, `bill_classifier.rs`, `db/statement_drafts.rs`,
`db/unprocessed_statements.rs`, the statement queue of `ingestion/queues.rs`). State: queued rows, files
waiting for a password or an instrument, drafts, stored PDFs, statements with their entries. A commit
is one transaction after another: statement row, entries, one reconciliation per entry, bill,
retention, draft status. Hard: two commands on one document, retries, failures half-way, quitting.
Correct when no document is lost on the way, and a draft is entered once and completely.

**Extraction ladder** (`extraction/ladder.rs`, `normalization.rs`, `currency_handler.rs`, `llm.rs`). Pure: the
text of an alert and the learned rules to a set of fields, by layers that are each tried when the
ones before recovered too little, then cross-checked. Correct when the checks see what is booked.

**Learning of rules** (`learning/worker.rs`, `db/field_rules.rs`, `extraction/rule_synthesis.rs`). State: rule
variants per bank, field and template; lessons in a bounded queue in memory. Corrections of the user
and readings of the model become rules that are vetted against the bank's mail, stored, blamed for
failures, retired and reverted. Hard: what was vetted is stored later, beside reverts and other lessons.
Correct when a field of a template has one live rule, and a lesson decides what it was taught about.

**Merchants and their clean-up** (`extraction/merchant_normalizer.rs`, `merchant_confidence.rs`,
`db/merchants.rs`, `commands/merchant_cleanup.rs`, `db/merchant_cleanup.rs`). A descriptor is stripped of
noise and looked up among aliases and similar names; the clean-up has the model rename what was read
badly, several payments at a time, while the user renames, cancels and reverts, and while statements and
further mail rename the same payments. Correct when one descriptor keeps leading to one merchant, and every
change applied can be taken back.

**Model sidecar** (`llama_sidecar.rs`, `llm_manager.rs`, `commands/llm.rs`). Model files (downloads, markers,
choice, deletion) and one server process (start, calibration, cooldown after failure, replacement when
the choice changes, shutdown), with a semaphore that limits the calls made of it. Correct when one
server runs and is never asked more at once than it was measured to sustain.

**Instruments, mandates and bills** (`db/instruments.rs`, `db/recurring_payments.rs`,
`extraction/recurring_detector.rs`, `statements/bill_classifier.rs`, the mandate worker). Mails register and
cancel mandates, payments are detected as recurring, statements set the bill of a card, the user edits
and archives cards. Correct when what is cancelled stays cancelled until it is registered anew.

**Alerts** (`reconciliation/alert_worker.rs`, sums of `db/transactions.rs`, `db/alerts.rs`). After a commit a task
compares the month's spending with limits, payment by payment and statement by statement of SQL, beside
other tasks, deletions and a quit. Correct when a level of a month is announced once.

**Licensing client** (`licensing/`). State: the licence row with its expiry, last validation and last known
valid time. A worker revalidates, the user activates, refreshes and deactivates, a gate allows or refuses
writes. Hard: the worker decides on a state read before a network call and writes around the transition
check; the clock may be set. **Licensing backend** (`src/licensing-backend`), as far as one account goes:
subscription and binding, activation as a check and separate writes, webhooks of the payment provider.
Correct when the right to write is a lease that lapses by itself, is renewed by a validation that succeeds,
and, once given up or locked, returns only at the user's call; and an outage never locks a paying customer out.

**Keys, backups and machines** (`db/crypto.rs`, `db/mod.rs`, `db/migrations.rs`, `lib.rs`, commands of
`commands/mod.rs` and `data.rs`). State: the base key in the keychain, the marker naming the machine, the
file and its backups, each sealed for a key and a machine. Operations: a launch in steps (derive, rekey
after a move, open, back up, migrate, replace a corrupted file), the recovery phrase, daily backups, restore,
deletion. A restore at a launch copies the backup over the file and may be cut short. Correct when whatever is left behind, the next launch can open it.

**Lifecycle, startup and front end, in part** (`lib.rs`, `startup.rs`, `db/mod.rs`, `src/src/lib/globalState`,
`src/src/hooks/useResolveClusterActions.tsx`, `useStatementDraft.ts`). Modelled as far as a launch replays
jobs, releases claims, opens the file and starts the model, and as far as the screens restrict which
commands a user can issue in which state.

## Not modelled

**Statement parsing** (`statements/parser.rs`, `row_extractor.rs`, `metadata_extractor.rs`, `layout.rs`,
`row_llm.rs`, `learned_rows.rs`). Geometry and text heuristics over PDF pages; no state. The models take
every outcome they can have (headers found or not, a row lost, a failure) as an input.

**Retention and audit chain** (`db/retention.rs`, `db/audit_log.rs`). The sweep deletes what is settled and
a year old (raw payloads, automatic decisions, closed clusters, settled drafts), so that the log no longer
explains links of that age; the models keep everything. The hash chain of the audit log has no
reader: `verify_chain` has no caller.

**Parts of modelled components**: EMI groups, category keywords and predictions of the next payment
(derived data nothing modelled reads); bulk resolution (the modelled calls in one transaction);
the bill reminder and notification settings; backoff, quotas and attachments of polling; the batch
writer, compaction and the SQL of migrations; trials granted by the service, its rate limits and its
reconciliation job. Operations without a caller are left out too: `process_reconciliation_feedback`,
`record_success`, `check_upcoming_subscriptions`, the approval of pending senders and `assess_sender_risk`.

**Windows, menu, launch agent, updater**: shell integration with no state of the ledger.

# 2. The modules

Conventions. An action is one database transaction, or one step between two suspension points of
a task; its comment names the function when the name is not the function's own. Definitions whose
comment starts with "Regression" are not part of any behaviour: each is a definition changed the way
a plausible bug would change it, and the project is only believed because each such change breaks the
property it is listed with in `PROJECT.json` (`mutants`). "(history)" marks variables no code keeps,
which only properties and scenarios read.

## MatchScoring

`scorer.rs` and `exact_match.rs` as operators. Scores are integers in thousandths, a similarity is a
percentage (a table, so that any measure may stand for Jaro-Winkler), times are integers with `Day`
units to a day. The code adds binary fractions, which matters where a sum meets a threshold exactly. On the
floor of 0.55 one sum of whole parts does: the same reference exactly a day apart (dates without a time of day
are), no name to compare and no complementary source is 0.25 + 0.10 + 0.05 + 0.15 = 0.5499999999999999, and the code
opens a second transaction. `FallsShort` says so, and the scenario `DayApart` takes that way. The margin of 0.15 is met
exactly in `Margin`, where the code's difference falls on the same side as the integers'. Beyond these the
model's sums are off by less than a thousandth; with names 80 per cent similar, times 9, 18 or 28 units apart could fall
short of the floor in the code alone, and no scenario compares such a pair.

| part of the score | value |
|---|---|
| merchant, both known | 3 x similarity (300 for equal names) |
| reference, both known | +250 equal, +100 one inside the other, -250 contradicting |
| amount, direction | +100, +50 |
| time | 250 falling to 150 within a day, then 100 falling to 0 at three days |
| an alert against a statement-only transaction, or the reverse | +50 |

A candidate is viable from 550; it wins when no other viable one is within 150.

## Reconciliation

| variable | stands for |
|---|---|
| `intake`, `link` | `transaction_observations`: status and `canonical_transaction_id` |
| `transactions` | the ledger; a row's id is its index, `deleted` the soft-delete flag |
| `clusters` | `reconciliation_clusters` and members: the incoming evidence in order, the candidates |
| `decisions` | `match_decisions` |
| `corrections`, `crashes` | which transactions the user edited, how often a verdict was cut short (history) |

| action | code |
|---|---|
| `Ingest` | `ingest_observation`: insert, then `reconcile`, in one transaction |
| `Hold`, `ReconcileHeld`, `SettleHeld` | evidence parked first and reconciled later by the enrichment queue, with the crash between reconciling and settling |
| `Reconcile` | `engine.rs`: fingerprint and exact match, scoring, `NewCanonical`, `MergeInto`, `RaiseAmbiguity` |
| `Precedence` | `apply_match_precedence_and_link`: what each source may overwrite |
| `PostProcessed` | refund linking and the merchant name, which run after every merge or creation |
| `ConfirmMatch`, `RejectCandidate`, `KeepSeparate`, `MarkUnresolved`, `Unmerge` | the commands of the review panel; `done` is the last statement that committed |
| `EditTransaction`, `DeleteTransaction` | `update_transaction`, `delete_transaction` |

The three-day window, the 30 days of a refund, the margin of 15 points of confidence between two
emails are the code's constants. Where SQL leaves the order open (`ORDER BY` a column that ties or is
NULL, `LIMIT 1`), every order is a behaviour.

Left out, because no property tells them apart: currencies, notes, tags, locations, categories,
posting dates, `audit_log` rows; EMI groups, recurring payments and alias learning, which read the ledger
without changing what is modelled. `trigger_reconciliation` and `correct_match`, commands no screen
issues, and `bulk_resolve`, which wraps the modelled verdicts in one transaction, are left out too.

`PaymentBook` is what the ledger promises, without scores, clusters or sources: a book of payments kept from papers
that come in any order. A paper is filed once, under an entry it fits (`File`), or opens an entry of its
own unless one with its reference is there already (`Enter`), or the user is asked, and what is offered fits (`Ask`).
Then only the user moves a paper, among those there was doubt about (`Choose`, `Separate`), and only the user
changes an entry (`Correct`, `Remove`). `Reconciliation` implements it under the refinement

| of the book | in the ledger |
|---|---|
| `received`, `waiting` | observations whose `intake` is not "unseen"; those "held" |
| `asked`, `offered` | subjects of clusters; the candidates of all clusters resolved through the observation |
| `under` | `link` |
| `book` | the rows: instrument, amount, direction, time, reference, not deleted |
| `cut` | `crashes > 0` |

`KeepsBook` is `Book!Spec`, checked by TLC and proved (section 6). A crash may look at a paper again before it is
taken off the desk, but files it under the same entry or nowhere; cut short, "keep separate" may leave an entry
nothing stands under (`HalfSeparate`).

## Enrichment

| variable | stands for |
|---|---|
| `entry`, `reason` | an `unassigned_transactions` row |
| `stored`, `linked`, `decided`, `review` | its observation, that one's link, decision and open cluster |
| `durable` | `layer6_pending_jobs` |
| `step` | where the entry's intake or job stands, in memory and lost on a restart |
| `form`, `saving`, `saved`, `saves` | the review form: which entry is open, whether its booking is done and its settling not |
| `enriched`, `manual` | transactions booked by the background and by the form |

`Park` is the commit of message and entry, `Persist` and `Send` the durable row and the channel. `Run` ends
with any outcome in `Outcomes`; then `Check` (`apply_layer6_success`), `Write` (`update_observation`, which
writes back the whole row as it was read), `Book` (`reconcile_transactionally`), `Settle`, `Refine`, `Reject`,
`Ignore` and `Forget` (`delete_persisted_layer6_job`) are commits of their own. `Restart` loses what is in
memory and queues every durable job. `CancelScan` is the sweep of a cancelled scan, including an intake
that still finishes the write it was in. The user's actions are the form's. What reconciliation
decides is left open (new, merged, ambiguous), so the results hold whatever the engine does.

Abstractions: the reason `failed` stands for `extraction_failed` and for gaps that cannot be recovered;
the replay's own database read does not fail; replay and a fresh intake do not queue one entry twice
(section 7).

## MailStore, GmailPolling, HistoricalScan, MailIntake

`MailStore` holds what polling and scanning share. A message is a number, its place in the order of
arrival, and Gmail's history id the number of messages arrived. `Kind` tells an alert, which becomes
a job in the queue, from any other message, which `process_message` stores itself (parked or ignored).
`Commit` is a worker reconciling a job: the idempotent insert decides whether it is booked. `excused` and `logged` keep
apart what the program still knows of a message that was not booked: a row of `scan_failed_messages`, which
a retry can find, and a line of the log (a poll whose processing failed, a job that was dropped, a row the
database lost), which only a reader of logs finds. `Known` asks for the former, `Accounted` for either.

`GmailPolling` is `poll_single_account` for any number of polls of one account at once: `Open` reads the
history id (checkpoint before account row), `List` asks Gmail, `Look`, `Fetch`, `Send` handle one message,
`Save` writes both places. `ListExpired` is `handle_invalid_history_id`.

`HistoricalScan` is `run_scan`: `Request` and `Claim` (a SELECT, then an upsert that refuses a row in
progress), `Begin` (take over the list of a failed scan, or search), `Search`, the fetch tasks (`LookUp`,
`FetchMail`, `FetchMailFails`, `Ignore`), `Join` (results are joined in any order and handed on), `Count` (every `Interval`
messages the collected rows and the count are stored, and the cancellation flag is read), `Complete`, `Fail`,
`Cancel`, `Stop` (cancellation seen while fetches are in flight), `Sweep`, and `Land`: a write of an aborted task that
reaches the database after all. The last write of a scan is best-effort in the code (`let _ =`, `if let Ok(conn)`):
`Complete`, `Fail` and `Sweep` may each lose it (`LastWrite`), and then the row stays in progress until the next
launch; `stuck` (history) remembers that.

`MailIntake` composes the two with the workers and `Relaunch`, which loses queue, polls and scans and
marks a scan left in progress as failed.

Left out: mail of verified senders judged to be noise, which leaves no row (`SenderGates` has it); paging
of Gmail's lists; tokens (`MailAccount`), backoff, attachments (`StatementStaging`); pausing a scan (a debug command);
the coverage audit.

## MailAccount

| variable | stands for |
|---|---|
| `status`, `keychain` | `account_status`, and the token stored for the account |
| `honoured`, `granted` | which grants Google honours (external), how many the user gave |
| `flow`, `leaving` | connections under way in the browser, disconnections under way |
| `watch` | a task that reads mail: the loop, or "Sync now" |

`OpenConsent` tests the limit of accounts and the licence, `Consent` is Google's answer, `KeepToken` and `Enrol`
store token and account (`start_oauth_flow_async`). `OpenMail`, `ReadKeychain`, `Served`, `Refused`, `Exchange`,
`Store_`, `Purge` and `MarkDegraded` are a request with its renewals (`execute_with_retry`,
`refresh_token_store`); each is a step of its own, so that a reconnect or a disconnect (`Revoke`, `Forget`,
`Disconnect`) falls between any two. `Age` ends the hour of a token, `Withdraw` the grant.

Abstractions: the response to repeated failures, the migration of older keychains, the quota limiter
and backoff are left out. The write that degrades an account is taken to succeed; the code ignores its failure
(`oauth.rs:767-799`), after which the account stays active until a later request is refused again.

## SenderGates

A letter is sent by an address, with results of authentication, and its texts are sets of the phrases the
classifier looks for; `Kin` says how a domain relates to one of the registry (the same, under it, a
look-alike, ...). `desk` is what the poll and the scan have in hand, `batch` what the scan has noted and not
stored. `PickUp` is the check whether a message was seen, `JudgeSender` the sender, its authentication and
the user's override, `JudgeContent` the two classifications, the ladder's reading and the gates on it.
`FlushBatch` and `LoseBatch` are the batch's write and its loss, `PurgeExpired` the daily sweep of what was ignored,
`StoreHanded` a queue's work, `ReportWrongBank` and `RevertOverride` the user's.

Abstractions: the best-effort notes of a poll are taken to succeed; a message without payload is put
back (`PutBack`). An address with two @ is verified by what follows the last one, as `verified_senders.rs:115` does
(section 4); `SecondAt` names those letters, about whose sender `OnlyMovedMoney` promises nothing.

## StatementStaging

A document is one attempt to import a file; its id is the key of its rows. `tasks` holds every upload,
attachment, command and queue job in progress, with the step it is at: every await at which another
command can run is a boundary. `SelectFiles` and `NextFile` are the upload of the screen, `Attachment` mail;
`CheckDuplicate`, `ResolvePassword`, `Enqueue`, `Send` lead into the queue; `Dispatch`, `Parse`, `Block`, `CheckCycle`,
`StageDraft`, `Settle` are a job or a retry (`stage_parse_pipeline`). The user answers with `SubmitPassword`,
`RetryUnprocessed`, `ReparseAll`, `ConfirmInstrument`, discards, and commits: `WriteStatement`, `MapRows`, `Observe`,
`ClassifyBill`, `RetainPdf`, `MarkCommitted`. `Fault` lets any of them fail, `Quit` ends the program anywhere;
`CleanupExpiredPdfs` is the thirty days' expiry. `fate` and `spoilt` are history.

Left out: what a row says, editing the rows of a draft, merging instruments, the merchants' names of rows.

## Extraction and RuleLearning

`Extraction` is pure. A text is a sequence of the tokens that the regular expressions and label scans look
for, in order; a field is an option (a set of at most one value). It follows `run_extraction_ladder`: learned
rules, the bank's patterns, lines of statements, label scans, generic patterns, then the fields learned rules
override, the completion of amount in a foreign currency, the cross-checks of amount and date, and the
parsing of a model's answer. How a token is found in characters, and the score of a name, is data.

`RuleLearning` adds `mail` (what was read of each message and by whom), `rules`, the `queue` of lessons and the
`worker`. `Intake` reads a message with the rules live at that time, `Enrich` is the model's answer for one the
ladder could not read, `Correct` a correction of the user. The worker goes through `Take` (synthesis),
`Author` (the model writes a pattern), `Check` (the regression over the bank's mail) and `Store`, with time between
them for `Revert`, further lessons and `Quit`, which loses queue and worker.

`Intake` includes what `process_message` does to a result of the ladder (`Tidied`): the date of the mail where none
was read, the name of the user's own account for a transfer between accounts, an implausible name dropped, and the
placeholder of a balance notice. Hence the exceptions of two properties: a lesson that names an own account or an
implausible name is not what is booked (`LessonWins`), and the placeholder, whose amount is none, keeps its confidence
(`LadderIsVerified`).

A result is booked when it is sure enough, or when it is a transfer between the user's own accounts, however unsure
(`Sure`; the name such a transfer is given is left out); everything else waits for the user.

Abstractions: the two queries for rules are one step; the sample of twenty messages is all there are. The model
that authors a pattern may be absent, or fail (`AuthorFails`).

## MerchantNames and MerchantCleanup

A text is a sequence of segments parted by stars, each a sequence of words. `StripNoise` drops the
aggregator, digits and stopwords; `Resolve` looks a name up among the aliases, then among merchants that
look alike (`Likeness`, from 92 per cent), or makes a merchant. `resolved` (history) remembers what each name led to.

`MerchantCleanup`: `Start` selects candidates, a worker takes one (`TakeCandidate`), the model's answer is dropped or becomes a merchant and its alias (`DropAnswer`, `NameMerchant`), a
rule (`LearnRule`), a recorded correction (`Record`) and the renaming (`Rename`), each a commit. `Cancel`, `Exit`,
`UserRenames`, `RevertCorrection` and `RevertInterrupted` fall between them. `RemoveMerchants` is `bin/cleanup_merchants`.
`MergeEvidence` is a statement or a mail that the engine merges into a payment: it may write its own name over the one
shown (`canonical.rs:141-146`, `:283-287`), and post-processing its merchant (`post_processing.rs:88-102`), without a look at
the clean-up.

`touched` (history) marks payments somebody else renamed out of turn: the user; evidence merged after the payment was
selected, so that the correction records, and its undo restores, a name no evidence has any more; a worker that had
recorded its correction and renames after the correction was reverted. `CleanupReversible` says where such a payment's
name comes from no longer, and goes on counting its corrections.

Abstractions: one name containing another is judged by words, similarity is given, digits are words
of their own, a booking is atomic, categories are left out of names. Payments are debits, and the statements of
`apply_correction` do not fail. `InsertAlias` is best-effort in the code and taken to succeed here: a lost one makes the next
mail look the name up by likeness again.

## ModelSidecar

`files` (portions on disk, whether they are the model's, marker), `transfers` and `token` (the download a
cancellation reaches), `preferred`; `server` is what the application knows of the server, `starts` the start
tasks under way, `alive` the processes, `measured` the calls each was calibrated for, `calls` the callers.
`LetThrough`, `Launch`, `Acquire`, `Answer` are a caller (`ensure_server_ready` and the semaphore), `Spawn`, `BecomeReady`,
`FailStart` a start task, `Die` the death of a process, `CoolDown` the end of the 60 seconds, `Shutdown` a quit.

Abstractions: the caller's model is resolved in the step that asks for the server; a death during
calibration counts as a failed start.

## Commitments

`cards`, `bill` and `draft` are the instruments and an edit of one that was read and not yet written;
`rows` is `recurring_payments`, `inbox` the queue of mandate mails, `paid` counts similar payments. `Arrive`, `RegisterMandate`,
`CancelMandate` are mandate mails and their worker (`upsert_explicit`, `process_mandate_job`), `Outage` its loss of a
job, `Pay` a booked payment with the detection that follows (`Detect`), `CommitBill` a statement's bill, the rest the
user's commands. A mail names a card by its digits or only the bank; then the card is the bank's only one, or none
(`OnlyCardOf`, `instruments.rs:375-377`). A mail may be delivered again once it was worked off.

Left out: the transaction job of zero rupees that every mandate mail emits beside (`queues.rs:973-993`). It carries no
time, so that `fetch_candidates` refuses the observation and its transaction is rolled back, or, without an
instrument, it waits unreconciled: nothing is booked, and detection, which follows a booking, does not count it.

## SpendAlerts

A payment is its day, category, merchant and amount. `AlertTask` goes through the payments of a committed
statement one SQL statement at a time: `Pick` (flags and spikes), `Gauge` (sum of the month), `Look`
(was the level announced?), `RecordAlert` and the notice. `CommitLines`, `BookFromMail`, `Settle` change the ledger
meanwhile; `Fail` and `QuitAlerts` cut a task short. `WarnOffline` is the warning about missing data.

Abstractions: a payment is never of a later day than the one it is booked on. Of levels the tasks of two statements
announce side by side nothing is promised (`raced`, history).

## Licensing and LicenceLease

Time counts days (a token lasts two; grace and trial, the code's 7 and 15 days, are shortened), the
clock is `time + offset`. `cached`, `expiry`, `validated` and `known` are the row; `check` and `user` hold the call the worker
and the user are in. `Poll`, `StoreAnswer`, `DistrustAnswer`, `Tolerate` are a cycle of the worker; `Ask` and the `Finish...` actions the
user's commands; `ServeWorker`, `ServeRefresh`, `ServeDeactivation`, `CheckActivation`, `ServeActivation` and `BillingEvent`
the service. A call may be lost on either way, another machine of the customer may take or release
the binding, the clock may be set, and the application may quit.

`LicenceLease` is what both promise, in three variables: the right to write begins as a trial, lapses by itself, and
is taken up again by a renewal, whether the schedule asked for it or the user (`Renew`, `Told`). What was withdrawn - given
up by the user, or locked - no schedule, no answer on its way and no clock brings back, only a further call of the user's;
and a trial begins anew only on a clock that was set. `Licensing` implements it under the refinement
`lease <- RightToWrite`, `asking <- Busy(user)`, `tampered <- settings > 0`; `KeepsLease` is `Lease!Spec`, checked by TLC and
proved (section 6). That a validation does leave a valid token behind is `ValidationRenews`, which finding 4 refutes.

## KeyCustody

A sealed file is its base key, the machine its key was derived from, and whether it is sound.
`StartUp`, `Moved`, `OpenFile`, `MarkMachine`, `BackUpFirst`, `Migrate` and `ReplaceCorrupted` are the steps of a
launch, each of which may be the last; `WriteDownPhrase`, `EnterPhrase`, `BackUpDaily`, `RestoreDaily`, `DeleteKey`,
`DeleteFiles` are what runs afterwards; `ClearKeychain`, `MoveTo` and `Corrupt` are fate. `parted` (history) says how
the file came to be without its key.

`RestoreBackupFile` is the copy at a launch (`db/mod.rs:125-138`, `fs::copy`), which is not atomic: a launch that ends in
the middle leaves an empty file, which the next launch takes for a new one, or the first pages of the backup, which open
with its key and are unsound (`TornCopies`; blocks that are copied are no shorter than a page). The restore from the
settings (`RestoreDaily`) replaces the file by a rename, in one step.

Abstraction: the application ran once between two moves, so that the marker of a rekey was written
(see section 4).

# 3. The runs

Every run explores its instance completely. "Passing" runs find no error; "violation" runs
reproduce a disagreement between the code and what its comments or messages say (section 4).

| run | instance | shows |
|---|---|---|
| `ledger` | `MCReconciliation`, `MCLedger.cfg` | the invariants of the ledger in seven scenarios, in every order of arrival |
| `queue` | `MCEnrichment`, `MCQueue.cfg` | safety of the enrichment queue; in a calm execution every durable job ends |
| `mail` | `MCMailIntake`, `MCMail.cfg` | safety of polling and scanning |
| `mail_goes_on` | `MCMailAccount`, `MCMailAccount.cfg` | a scan's claim is always released; lost access to a mailbox is reported |
| `statements` | `MCStatementStaging`, `MCStatements.cfg` | no document is lost, a draft is entered once and completely, the queue drains |
| `household` | `MCHousehold`, `MCHousehold.cfg` | the components beside the ledger, the licence among them, one at a time |
| `reject`, `file_twice`, `outage`, `renewal`, `phrase_useless`, `polled_failure` | the same modules | one finding each |

`MCHousehold` and `MCMailAccount` join components that share no state. A variable `part`, chosen
in the initial state, says which of them an execution is about; the others stay as they start, so
the states are the sum and not the product of theirs.

## The ledger scenarios (`ledger`, `reject`)

A day is ten units, the exact-match tolerance one, the candidate window therefore thirty; names are
100 (equal) or 80 per cent similar. All evidence says 500 on one card. A scenario fixes what may arrive,
and bounds the verdicts, edits and crashes; the order of arrival, what is parked, and every answer of
the user are free.

- **TwoPayments** (3 verdicts): two emails of different payments half a day apart (`e1`, `e2`, references R1
  and R2) and two statement lines without reference. The emails score 400 against each other: two
  transactions. A line scores 640-750 against either, so with one of them known it merges and with
  both it is ambiguous: clusters, joins of an open cluster, every verdict, undo.
- **Interruption** (2 verdicts, 1 crash): the same evidence, but a verdict, or the step from booking to
  settling parked evidence, may be cut short anywhere.
- **OnePayment** (2 verdicts): an alert sent twice (`a1`, `a2`, one fingerprint: an exact match, and the second
  is more confident by 30 points), a manual entry and two statement lines, the second 35 units from
  the alert but 25 from the first line: a chain of merges that leaves the window of its start.
  `s1` scores 590 against the first alert, 840 once the reference is known; `s2` 665 against `s1`.
- **Reversal** (1 verdict): two charges 25 units apart (225 against each other), and a reversal seen by an
  email and two statement lines; the last has a reference and no name, stays below the floor and
  becomes a second credit. Refund links are made, shared and completed by later evidence.
- **Edited** (1 verdict, 1 edit): an alert and two statement lines of OnePayment, and an edit of amount,
  direction, time or merchant of any transaction at any moment.
- **DayApart** (1 verdict): two emails with one reference and no name exactly a day apart, and a line a unit from one
  of them. The emails sum to 550 on paper and fall short of the floor in the code: whichever comes second opens a
  payment of its own.
- **Margin** (1 verdict): an email of another reference 9 units from the first (`e1`) and a line that scores 750 and
  600 against the two: the margin exactly, on which the line merges.

Properties: `MergedEvidenceAgrees`, `SourceMixTruthful`, `EvidenceAccountedFor`,
`EveryTransactionHasEvidence`, `LogExplainsEveryLink`, `RefundLinksSound`, `StatementPrecedence`,
`ScoredMergesAreJustified`, and the refinement `KeepsBook`. Each reads as a sentence above its definition. Those about what
"the engine" did exempt evidence a cluster asked about: the user may confirm anything. Those about evidence behind
rows, decisions behind links and marks of refunds hold until the application dies inside a verdict. Five
observations reach every outcome of the engine and chains of three merges; what depends on
more of them, a drift through any number of merges, is proved (section 6).

## The queue (`queue`)

Two entries of one message; the second is parked when a cancelled scan deleted the observation
of the first. One failed write, one submitted form, any number of restarts and cancellations. Two entries
are enough to meet each other through their message, and `EnrichmentProofs` covers any number.
Some executions are `calm` from the start (`CalmConverges`): one entry; the user may dismiss, but not save, and a verdict is "extracted" or "rejected" (the
model may also fail, without end, before it answers); what "not a transaction" would do is told in section 4.

## Mail (`mail`, `mail_goes_on`, `polled_failure`)

Two messages, of which the first is parked or ignored and the second an alert, and a queue of one
place, so that senders block. `mail` picks one of three casts: the loop and "Sync now"; two requests
for a scan; one poll and one scan with two fetches in flight and a checkpoint every two messages.
Messages arrive, history ids expire (while polls are looked at alone: scans read none), fetches, searches and jobs fail, and scans are cancelled at any
moment. With two messages fetches finish out of order, a batch is both full and partial, and a list
changes between two searches. More messages, fetches and polls are covered by the proofs. One message may be left
to the log (`MaxLogged`). `polled_failure` is the cast of two polls. `mail`
itself has no crash: its properties on coverage are about an application that keeps running, and
section 4 says what a crash breaks. `mail_goes_on` is about one scan with a crash, and about one
mailbox with the loop and "Sync now", one connection in the browser and two grants.

## Statements (`statements`, `file_twice`)

Three files: a locked statement whose name gives its period away, an open one of the same period, and
one whose header does not say whose it is; two rows each. A scene fixes the files, the documents,
the commands at a time, the mishaps (a failed step or a quit) and the passwords known: the first two files
with the password known, one command and one mishap; the locked file twice with two commands at
a time; the same once, with a mishap; and the vague one with two ids, two commands and a mishap.
Queue and parsers are one and two, so that senders block and jobs overtake one another.

## The household (`household`, `outage`, `renewal`, `phrase_useless`)

- **rules**: five scenes of two to five alerts of a bank and the corrections of them, three ids of
  rules, a queue of two lessons and one quit; wordings read by each layer, a foreign amount, a date of two
  readings, a transfer to the user's own account (`OneLiveRule`, `LessonWins`, `LadderIsVerified`).
- **files** and **server**: two models of two portions, two transfers; two callers and two starts, with
  room for one or two calls, of which a user asks for no more than two (`ServerWithinMeasure`).
- **cleanup**: two payments, one of whose names nearly is one merchant and more nearly another, evidence that is merged
  into them later, two runs (`CleanupReversible`, `SameMerchantAgain`).
- **keys**: three keys, two machines, one pre-migration backup kept, two mishaps, restores whole or torn (`StaysOpenable`).
- **alerts**: three payments of two months on two statements, two limits, two levels, one crash
  (`AnnouncedOnce`). An execution is followed until the tasks of two statements run side by side: nothing is
  promised of a level after that.
- **mandates**: one card of one bank, two references, four mails that may each come again and of which one names only
  the bank, and three payments, which make a habit (`CancelledStaysCancelled`). Two cards of a bank, which a mail that
  names the bank cannot tell apart, are too many for TLC; the proof covers any cards.
- **gates**: letters of known, unknown and imitated senders, one of them with two @, two looks, one report, one sweep
  (`OnlyMovedMoney`).
- **licence**: days 0 to 4, tokens and grace of two days, a trial of three, two requests of the user, two settings of the
  clock, and every loss, quit and move of the other machine, so that every expiry falls inside and after the other
  (`KeepsLease`, `OnlyUserReactivates`, `RollbackCaught`).

`phrase_useless` is the part about keys alone, with launches that are fair; `outage` and `renewal` are the licence alone,
with six days, grace of three, a trial of four and an honest clock.

## Bounds

`MaxReviews`, `MaxCorrections`, `MaxCrashes`, `MaxSaves`, `MaxFaults`, `MaxMail`, `MaxGrants`, `MaxIds`, `MaxTasks`,
`MaxSelections`, `MaxMishaps`, `MaxTime`, `MaxSettings`, `MaxRequests`, `MaxQuits`, `MaxStarts`, `MaxSlots`, `MaxRuns`, `MaxHarm`, `MaxPaid`,
`MaxOutages`, `MaxLogged`, `LastDay`, `MaxLooks`, `MaxReports` and `LastSweep` are guards of actions or of an instance's next-state
relation; nothing else bounds a counter. The proofs do not use their values.

`CHECK_DEADLOCK FALSE` is stated where the system really comes to rest: all evidence has arrived and
every cluster is decided; no job is left; all mail is handled and polling, without a history id, is
skipped; the user has no document, grant, request or payment left within the bound.

## Fairness

`MCEnrichment!CalmFairness`: the application is launched again and again (weak fairness of `Restart`), and each
step of a job is strongly fair, because a restart may interrupt it any number of times but some
session lasts long enough; the model answers at last, and the deletion of a durable row succeeds at
last. Nothing is assumed of the user or of scans.

`MailIntake`: `PollFairness` is weak, since the loop ticks for ever; `ScanFairness` is strong, because a scan's task
waits for a place in the queue that another sender may take first, and tokio's channel serves
blocked senders in order; `Worker` is weakly fair: the four workers loop for ever. Failing fetches and
searches are not assumed to stop, arrivals, cancellations and crashes not to happen.

`MailAccount!WatchFairness`: the steps of a task follow each other (weak); the loop opens each active account
again and again and, now and then, Gmail can be reached to refuse a token (strong: an outage may come
between, but not always).

`StatementStaging!Fairness`: dispatcher and jobs run on (weak); nothing is assumed of commands, which the
window awaits, nor of the user. `Licensing!PollFairness`: the worker's loop, and its requests, which time out if
nothing else. `KeyCustody!Perseverance` (only in `phrase_useless`): the user starts the application again
and again, a launch gets through at last, and the phrase is entered where a screen offers it.

# 4. Findings

Six disagreements between the code and what the repository says of it, each with a run that ends in
the counterexample. `PROJECT.json` quotes the lines.

1. `reject` - rejecting the candidates of a cluster leaves the evidence in no transaction and in no
   list (`cluster.rs:187`); the dialog promises a separate transaction.
2. `file_twice` - the hash of a file is lost when its draft is staged, so the byte-identical file is
   staged and committed again (`commands/mod.rs:804`, against `duplicate_check.rs:3`).
3. `outage` - a failing revalidation locks a licence validated a moment ago, by the time the
   worker read before its call (`worker.rs:158`, against `worker.rs:3`).
4. `renewal` - the service answers a validation with `status` "validated", which the table's CHECK refuses: the
   worker's update, new token included, is lost without a trace, and a client that reached the server does not
   leave with a valid token (`worker.rs:109`, against `src/licensing-backend/api/license/validate.ts:4-6`).
5. `phrase_useless` - after the keychain was cleared every launch ends with a message that sends the
   user to settings no launch reaches (`lib.rs:247`, against `lib.rs:237`).
6. `polled_failure` - a polled message whose processing failed is logged and nothing more, and the history id moves past
   it (`polling.rs:577-579`, `:596`, against `:605`, "Written only after messages are successfully processed").

Further disagreements were met while modelling; they are behaviours of the modules (or next to them)
for which no run is kept.

Mail and queues:

- A job that finds "not a transaction" for an entry the user resolved meanwhile fails, is kept, and runs
  again at every launch (`queues.rs:624`, `unassigned_transactions.rs:78`); hence the premise of `CalmConverges`.
- After Gmail expired the history id, recovery clears the account's copy while the checkpoint's is
  preferred; polling never recovers (`oauth.rs:951`, `polling.rs:229`).
- A message that announces a debit and mentions a balance in passing hands its amount to the ledger, unless a balance
  could be read in it (`message_processor.rs:770`, against `content_classifier.rs:166`); `OnlyMovedMoney` says as much.
- An address with two @ is verified by what follows the last (`verified_senders.rs:115`), while
  `message_processor.rs:945-950` explains why that must not be, and a test says "must never verify"
  (`message_processor_tests.rs:127-152`; its address ends in a domain that is not registered). `OnlyMovedMoney` is about
  senders with one @.
- A scan whose last write is lost stays in progress, and its account cannot be scanned before the next launch
  (`historical_scan.rs:489-503`, `:1125-1170`, `:1184-1188`); `ScanEnds` exempts it.
- The history id is saved when jobs are queued, not stored: a quit loses the jobs and the next poll
  starts behind them (`polling.rs:597`). `PollingKeepsUp` is about an application that keeps running.
- A scan resumes by how many messages were handled, which with concurrent fetches is not which: one in
  flight is skipped (`historical_scan.rs:769`, against `:5`); after a failed search it resumes the list of the scan
  before and completes without having searched (`:496`, against `:4`). It stops at 500 pages and completes all
  the same, ignores a widened range, and its cancellation may delete entries polling parked.
- A transient failure to renew a token degrades the account too, and polls skip it until it is
  reconnected (`polling.rs:188`, against `oauth.rs:700`); a renewal that ends after a disconnection stores
  a token again; the failure of a stale renewal purges a newer token; two connections at once exceed the limit;
  a reconnect of a degraded account is refused without a subscription when another is active.
- Pending senders can be neither approved nor denied: what reads their reputation has no caller
  (`sender_reputation.rs:3`). Rejected messages leave no record of having been seen, so every rescan counts
  them again. Subject and snippet alone can ignore a real debit for thirty days (`message_processor.rs:276`).
  A failed flush loses the batch, which was taken out first.

Ledger:

- An email merged after a statement derives the merchant name again and may replace a better one
  (`post_processing.rs:93` against `canonical.rs:197`).
- A statement line confirmed by hand leaves `source_mix` at `email_only` (`cluster.rs:147` against
  `canonical.rs:150`); `SourceMixTruthful` therefore speaks of what the engine linked.
- The second source of a credit may bind it to another debit, and the first stays marked refunded
  (`post_processing.rs:45`); two credits may reverse one debit. `RefundLinksSound` asks for less.
- A crash inside a verdict leaves a link no decision explains (`commands/mod.rs:1993`).
- Only the first member of a cluster is decided; the others stay members of a closed one
  (`cluster.rs:32`). They count as accounted for, since the cluster named them.
- Undo reopens the cluster but leaves link and decision (`data.rs:2035`).
- The form and the background may each book a transaction of one entry (`data.rs:2005`), and a dismissal
  during the last steps of a job does not undo what the job books (`queues.rs:831`).
- A parked entry whose durable row could not be written before a crash waits for a model that was never asked
  (`message_processor.rs:651-672`).
- Alerts are evaluated when a statement is committed (`commands/mod.rs:879`), never for mail. An old month's
  statement imported this month leaves an alert that silences this month's level (`alert_worker.rs:84`, against
  `:3`); tasks of two statements may announce a level twice; a quit between recording and notifying loses the
  notice.

Statements:

- The check for duplicates and the row it looks for are apart by several awaits (`commands/mod.rs:276`): one
  attachment is imported twice by a poll and a scan.
- A failed parse leaves a document in no list (`db/statements.rs:31`); one waiting for an instrument is in the
  list of no screen once its dialog is closed; a failed insert of an entry shifts the pairing of rows
  and entries; the commit of a draft that failed half-way and is repeated enters the statement again.
- `soft_delete` of a statement deletes it (`db/statements.rs:143`); discarding leaves the PDF.

Learning and names:

- A candidate of the model overwrites the user's active rule with a pending one
  (`field_rules.rs:145`, against `:121`); a pending rule is never promoted; "revert to its previous
  variant" only deactivates (`:310`); what was checked may be stored after a revert (`:359`).
- Results of the background model are booked without the cross-checks of `finalize_result`
  (`queues.rs:530-560`); `LadderIsVerified` speaks of the ladder. A date read as 8 to 20 days from the mail,
  and a week in its other reading, stays unflagged.
- A renaming teaches the resolver nothing: the alias is entered under the new name (`commands/mod.rs:2349`), though
  the comment of a test says the old raw text must become an alias (`:3508`). A merchant removed by
  `bin/cleanup_merchants` can never be made again.
- Reverting a clean-up leaves its merchants and aliases, retires a rule other corrections share, and
  overwrites what the user wrote meanwhile (`merchant_cleanup.rs:479`). A correction of a payment into which a statement was
  merged after the selection overwrites the statement's name and records the older one, which its undo brings
  back (`merchant_cleanup.rs:308-350`).

Model, licence, keys, instruments:

- A server that dies stays "ready" and is not noticed; a shutdown during a start leaves one coming up
  afterwards; a half-downloaded file counts as usable (`llm_manager.rs:344`); a deletion or a second
  download during a download leaves a stale marker.
- A token lasts 48 hours, so the seven days of grace are cut short by the gate. A trial without a row never notices a clock set back (`state.rs:156`). Two machines can both bind.
- A move whose marker could not be written, followed by another move, cannot be undone. A daily backup of an
  older machine is put back unverified after a corruption. An account deletion cut short between key and
  files blocks every launch. Pre-migration backups are looked for in another directory than they are
  written to (`data.rs:2512`). Deletion leaves archives and statement PDFs (`data.rs:926`). "Moves old
  transactions" copies them (`retention.rs:17`).
- A registration that is delivered or worked off after the cancellation revives the pair, as any registration does.
- A cancellation that comes before its registration is never reconciled: nothing reads the
  unresolved rows (`unresolved_mandate_cancellations.rs:3`). An archived card's key stays taken, so mails naming
  it find no instrument (`instruments.rs:273`). Editing a card writes back the whole row as it was
  read and may lose a bill set meanwhile.

# 5. What only TLC checks

Every invariant and every action property that a passing run checks is proved, and so are the two refinements. The type
invariants of `StatementStaging`, `Licensing`, `Enrichment`, `RuleLearning` and of the household's parts are proved and in
no run; TLC found each of them to hold on the instances first.
What is left to TLC is what must happen at last: `CalmConverges`, `ScanEnds`, `LostAccessIsReported`, `QueueDrains`, `RollbackCaught`, and `PhraseRecovers`, which finding 5 refutes.
Liveness under fairness, and ENABLED, are out of the prover's reach, as are induction
over data and RECURSIVE operators. `MailAccount`, whose one property is of this kind, has no theorem. No module here uses RECURSIVE; the sum of a queue is a fold, of which
the proofs use nothing.

# 6. What is proved

All theorems hold for every value of the constants that the modules' named assumptions allow, and
rest on nothing else. Each proof has one lemma per action, or per group of actions with the same
effect, and combines them in the last step by temporal logic.

**ReconciliationProofs** (`ScoringAssumption`, `LedgerAssumption`). The inductive invariant is

    IInv == TypeOK /\ RowsExist /\ MergedEvidenceAgrees /\ EvidenceAccountedFor

- `TypeCorrect`: `Spec => []TypeOK`. Types alone are not inductive: a link or a candidate is used as
  an index of the ledger, so `RowsExist` says that they name rows, and that a cluster has a first
  member.
- `MergesAgree`: `[]MergedEvidenceAgrees`. No step changes amount, instrument, direction or time of a
  row but an edit (a statement overwrites the amount with the equal one it matched by), and every
  merge tests them against the row as it stands. Hence no chain of merges drifts.
- `NoEvidenceLost`: `[]EvidenceAccountedFor`. Links are never withdrawn and members never leave their
  cluster, whatever prefix of a verdict commits.
- `ScoredMergesJustified`: an action property from arithmetic on the score. Against a contradicting
  reference all other parts cannot reach 550 (300 - 250 + 150 + 250 + 50 = 500), and without a
  reference the merchant must contribute at least 100, hence 34 per cent of similarity.

**LedgerHistoryProofs** (the same assumptions) adds to `IInv` what the ledger remembers:

    HistoryInv == crashes = 0 => AskedOnce /\ Backing

- `EveryLinkExplained`: `[]LogExplainsEveryLink`. Every action that links also logs, a crash between the two ends the
  promise, and no entry is ever withdrawn. Every step concerns one observation (`About`); the others keep their part.
- `NoTransactionWithoutEvidence`: `[]EveryTransactionHasEvidence`. Alone it is not inductive: a verdict links evidence
  anew, and the row it leaves might have had no other. `Backing` says that each row has evidence no verdict can move
  (`Settled`: it was reconciled, and the cluster it is the subject of was closed by a verdict that Undo does not take
  back), one piece for each source its mix names; `AskedOnce` that a piece of evidence is the subject of at most one
  cluster.
- `SourceMixIsTruthful`: `[]SourceMixTruthful`, from `Backing` and from `MixHonest`, which says that no row's mix leaves
  out a source the engine linked. A crash inside a verdict may leave a merged row whose first source was moved,
  so what "merged" promises is asked for only while none happened.
- `StatementsAuthoritative`: the action property `StatementPrecedence`. By `MixHonest` a row the engine merged a
  statement into is not `email_only`, so an email linked to it fills gaps at most; a verdict merges nothing.
- `RefundLinksAreSound`: `[]RefundLinksSound`. `Processed` describes the rows after post-processing: nothing differs
  but the refund link of the row at hand, which goes to a row it can reverse, and marks of refunds. `Ledgerlike` says
  that the rows in between differ from the ledger's in nothing a refund depends on.
- `ImplementsBook`: `Spec => KeepsBook`. Initial states map to initial states, and each action has a lemma that names
  the step of the book it is: arrival and replay are `File`, `Enter` or `Ask`, a verdict `Choose` or
  `Separate`, or, cut short, `HalfSeparate` or `Die`, an edit `Correct` or `Remove`, the rest stutters. Beside
  `IInv` it needs `Placed`, that evidence not yet in is linked nowhere and nobody was asked about it. That no second
  entry is opened for a reference (`SameReferenceViable`) is arithmetic on the score: equal references, amounts and
  directions strictly within a day reach 250 + 100 + 50 + 150 = 550, the floor, whatever the merchant, and the one sum
  that falls short of it there is exactly a day apart. So such a row is a candidate, and the engine merges or asks. Exactly
  a day apart the book promises nothing: without a name to compare the engine opens a second entry.

**StatementStagingProofs** (`StagingAssumption`), for any files, rows, documents, parsers and mishaps. The invariant is

    IInv == Shape /\ Tables /\ Progress /\ Booked

- `Progress`: a draft has one commit at a time and waits for review meanwhile; before it writes its statement,
  all earlier statements of the draft are spoilt, afterwards its own is the latest, and each step done has left all rows and
  all pairs in it, or has spoilt it. `Booked`: a draft nobody commits has either one last and complete statement, and is
  committed, or only spoilt ones. Both are needed: quitting turns the first into the second.
- `CommittedDraftsComplete`: `[]CommittedIsComplete`. That the zipped lists line up (`ZippedInOrder`) is the count
  of the numbers up to n.
- `DraftsEnteredOnce`: `[]EnteredOnce`.
- `DocumentsAccountedFor`: `[]StatementAccountedFor`, from `AInv == IInv /\ Histories /\ Accounted`. `Held` says who
  holds each document: a task, a place in the queue, a row that waits for the user, or nobody, once it is
  safe. A retry never counts, since the row it was asked from still holds the document. `Orderly` says that a
  task that ends has left its document safe, and the action predicate `Onward` what no step takes back.
- `DraftsKeepTheirPdf`: `[]PendingDraftKeepsPdf`, from `PInv == AInv /\ Owned /\ Readable`. `Owned`: a document on the
  direct way (upload or mail, queue, job) has one owner, waits for nobody and has no draft, so that a failing
  job, which deletes the PDF of its document, deletes no draft's. `Readable`: work that is about to stage a draft
  has its PDF stored, and a PDF that may expire is a committed draft's, or of a commit about to mark it.
- `TypeCorrect`: `[]TypeOK`, from `AInv` and `Confined`. Every row, task and dialog is about a document that was drawn,
  for which `Fresh` must say that a task without a document is still being checked; the queue keeps within its
  places, and evidence pairs rows with entries of one statement: a pair's first part is a count of rows, and none of
  them is counted twice (`ZippedWithin`).

**EnrichmentProofs** (`EnrichmentAssumption`). The inductive invariant is

    IInv == TypeOK /\ OneObservation /\ AppliedIsLinked /\ DecisionsRecorded
            /\ OpenIsStored /\ ForgottenIsDone /\ ResolvedIsBacked

- `BookedOnce`: `[]EnrichedOnce`. Alone it is not inductive: a job at `write` could wipe a link and book
  again. `AppliedIsLinked` excludes it: an observation that was booked is linked and its job is past
  booking, and the check before writing stops linked ones. That a sweep spares decided observations
  (`DecisionsRecorded`), and that a message has one observation (`OneObservation`), carries it to
  messages parked twice.
- `ResolutionsBacked`, `OutcomesFinal`, `DurableJobsKept`, `TypeCorrect` follow from the same invariant;
  `ForgottenIsDone` says why a job about to be deleted is finished.

**MailIntakeProofs** (`MailAssumption`, `NoneAssumption`, `NoScanAssumption`, `IntakeAssumption`), for any
number of messages, polls, requests, fetches in flight and any interval and capacity:

- `TypeCorrect`, with `InRange`: polls and lists point at messages that exist.
- `EachMessageBookedOnce`: what is booked is stored, and a sweep spares what is booked.
- `ScansAlone`: a running scan holds the row (`Holds`), which no one is given while it is held.
- `PollingLeavesNothingBehind`: accounted for is what is on record, in the queue or in the log. `Read` says that below both stored history ids and below the place of
  every poll under way all mail is accounted for, and `Remembered` that it stays so until the
  application quits. Both copies of the id and all polls are needed: "Sync now" may save an older id
  than the loop did.
- `ScansCover`: `Seeking` follows each message that a scan was asked for from the list through fetch, batch
  and queue; `Busy` says that a scan with messages left has a fetch in flight, so that it cannot
  complete early.

**LicensingProofs** (`LicensingAssumption`), for every lifetime of tokens, grace, trial and clock. The inductive
invariant is the types together with `Honest`: no call carries an answer whose status the table would accept
from the worker, since the service says "validated", "activated" or "deactivated" and never a status of the
licence. So what the worker stores of an answer is nothing, and an answer that was on its way while the user gave the
licence up revives nothing - which the lease asks for, whether validations renew it or not.

- `ImplementsLease`: `Spec => KeepsLease`. Initial states map to initial states; for each action one lemma says
  what it does to `RightToWrite`: the worker and time only let it lapse, the service does not touch it, the
  end of a user's call is `Told`, a setting of the clock is `Turn`, the rest stutters.
- `ReactivationIsAsked`: `Spec => OnlyUserReactivates`, from the same invariant.
- `TypeCorrect`: `[]TypeOK`. The row keeps a status its table lists: the worker's update is refused with any other.

**HouseholdProofs**, about five components that share nothing; of each also the types, for the same assumptions:

- Keys (`CustodyAssumption`), for any keys, machines and number of backups kept. `NextLaunchOpens`:
  `CustodySpec => []StaysOpenable`. Alone it is not inductive: a launch changes file and
  marker in two steps, and a backup may come back in between. `Launching` adds what each stage of a launch has
  established (the key is derived, the file opens with it, the fallback backup belongs to the key and a machine the
  file may be on), and that is what makes each step safe to be the last. `Restored` says of a torn copy that it is no file,
  or one that opens where the backup would. `CustodyTypeCorrect`: no more backups are
  kept than the retention allows.
- Mandates (`CommitmentsAssumption`), for any cards, merchants, mails and payments. `CommitmentsTypeCorrect`:
  `CommitmentsSpec => []CommitmentsTypeOK`. `CancellationsHold`: `CommitmentsSpec => CancelledStaysCancelled`. Of the
  steps that write arrangements a cancellation only turns one off, a payment adds one only where the pair has none, and
  a registration revives the pair it names.
- The sidecar (`SidecarAssumption`: finitely many callers). `ServerNeverOverloaded`:
  `SidecarSpec => []ServerWithinMeasure`. The permits are counted per semaphore and the promise is about a process, so
  `PermitsOwn` says that a call carries the permits of the server it was let through to, also after that
  server was replaced; `StartsApart` that a server becomes ready under a number nothing was measured for, hence
  nobody calls; `OneProcess` that a process no start owns is the one `server.at` names. `SidecarTypeCorrect` (a whole
  model is a number of portions): no file grows beyond its model, with any transfers side by side.
- Alerts (`AlertsAssumption`). `LevelAnnouncedOnce`: `AlertsSpec => []AnnouncedOnce`. Looking whether a level has
  fired, recording it and announcing it are three steps: `RecordIsFirst` says that what a task is about to record is
  still unrecorded, `UnsentIsUntold` that what it recorded is not announced, `ToldIsFired` that what was announced is
  recorded for good. The last needs `MonthHasBegun`: a payment that is looked at is not of a later day, so that
  the row written today counts for its month. `AlertsTypeCorrect`: what is recorded and announced is of a limit, a level
  and a month. Levels ascend, since `enabled_threshold_levels` sorts them and drops repetitions.
- Gates (`GatesAssumption`: results have the fields of one). `OnlyMovedMoneyIsBooked`: `GatesSpec => []OnlyMovedMoney`.
  `Desked` says that a letter whose body was fetched is vouched for, `Dismissed` that one whose dismissal a
  batch or the table keeps is, and that no domain was approved unchecked. A text is judged by the first case that
  holds (`FirstCase`): a payment is the tenth of thirteen, so the seventh, a reported failure, does not hold.
  `GatesTypeCorrect`: no domain has passed more often than it was seen, also when a batch raises several counts at
  once, and only letters that have an entry for review wait for the model.

**LearningProofs** (`LearningAssumption` for rules and readings: what corrections, headers and the model's answers say
of a field is one value or none; `NamesAssumption`, no merchant is there from the start without a name, and
`CleanupAssumption`, a number of runs, for the rest):

- `OneRuleAtATime`: `Spec => []OneLiveRule`. A rule is stored under a new number in place of the one that is live for
  its field and template; a revert only takes one away.
- `LessonsAreHeeded`: `Spec => LessonWins`, from that invariant: rules of the message's own template go first, and
  only one of them is live for a field. Each layer and each check after it is shown to leave a filled field alone.
- `BookingsAreVerified`: `Spec => []LadderIsVerified`. The cross-checks of `finalize_result` come last and hold of
  any result, so the step that books establishes the property and no other step touches what is booked.
- `RulesTypeCorrect`: `Spec => []TypeOK`. No field of a result ever has two values: each layer only fills what is
  empty, the cross-checks only take away or replace, and a lesson and a sighting carry one value. The queue
  keeps within its places, and a live rule has failed twice at most.
- `NameKeepsItsMerchant`: `CleanupSpec => []SameMerchantAgain`. `NamesInv` says that every alias leads to a
  live merchant and that a name once resolved is an alias, so that neither likeness nor a merchant made later decides
  about it again.
- `EveryChangeRevertible`: `CleanupSpec => []CleanupReversible`. `TicketsApart` says that a payment is in one
  pair of hands at most and in none between runs; `TicketSound` that a candidate still carries the name the
  payment's evidence gave it and has no correction until its own is recorded; evidence merged while it is a
  candidate takes the payment out of the promise. `CleanupTypeCorrect` follows.

Each invariant was checked by TLC on the instances before it was proved.

# 7. Plan

1. Done: the modules of section 2, their runs, and the proofs of section 6.
2. The composition of `StatementStaging` with `Reconciliation` through the observations a commit ingests; what the
   pair promises is `PaymentBook` with statements as papers.
3. The concurrency of the layer-6 queue: four workers, replay racing fresh intake.
4. Retention, as a step of the ledger that makes the log forget, with the theorems restated for what is retained.
