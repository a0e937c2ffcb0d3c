----------------------- MODULE StatementStagingProofs -----------------------
(***************************************************************************)
(* Proofs about what a committed draft leaves in the ledger, that no       *)
(* document is lost on the way there, and that a draft can show its PDF,   *)
(* for any files and rows, any number of documents, parsers and places in  *)
(* the queue, and any number of failed steps and quits.  No property is    *)
(* inductive: Progress says how far each commit under way has come, Booked *)
(* what the tables hold of the drafts nobody is committing, Accounted who  *)
(* holds a document, Owned that a document on the direct way has one       *)
(* owner, Readable which PDFs are there, Confined the rest of the types.   *)
(***************************************************************************)
EXTENDS StatementStaging, FiniteSetTheorems, TLAPS

CommitSteps == {"statement", "entries", "observe", "bill", "retain", "status"}
OtherSteps == {"check", "unlock", "enqueue", "send", "parse", "block", "cycle", "draft", "staged",
               "blocked", "failed"}
OtherKinds == IntakeKinds \cup PipelineKinds

Work(kinds, steps) == [kind: kinds, id: Nat, file: Files, batch: Nat, pc: steps, at: Nat]
Entered == [draft: Ids, file: Files, entries: SUBSET RowNumbers, evidence: SUBSET (Nat \X RowNumbers)]
Batch == [left: SUBSET Files, total: {Cardinality(S) : S \in SUBSET Files}, finished: Nat]

Commits == {t \in tasks : t.kind = "commit"}

(* Tasks, jobs and dialogs are about documents that exist, and a commit    *)
(* takes the steps of a commit.                                            *)
Shape ==
  /\ source \in Seq(Files)
  /\ tasks \subseteq Work({"commit"}, CommitSteps) \cup Work(OtherKinds, OtherSteps)
  /\ \A t \in tasks : t.pc # "check" => t.id \in Drawn
  /\ queue \in Seq([id: Nat, batch: Nat])
  /\ \A n \in DOMAIN queue : queue[n].id \in Drawn
  /\ prompt \in {0} \cup Drawn /\ sweep \subseteq Drawn
  /\ batches \in Seq(Batch)

Tables ==
  /\ drafts \in [Ids -> {"none", "pending_review", "committed"}]
  /\ entered \in Seq(Entered)

(* Statement n is the last that draft i entered, and all others are from   *)
(* commits that lost a write or were cut short.                            *)
Latest(i, n) ==
  /\ n \in Entries(i)
  /\ \A m \in Entries(i) : m # n => m < n /\ m \in spoilt

AllRows(n) == n \notin spoilt => entered[n].entries = RowNumbers
Paired(n) == n \notin spoilt => entered[n].evidence = {<<e, e>> : e \in RowNumbers}

(* How far the commit t has come. *)
Advanced(t) ==
  /\ t.id \in Ids /\ drafts[t.id] = "pending_review"
  /\ t.pc = "statement" => Entries(t.id) \subseteq spoilt
  /\ t.pc # "statement" => Latest(t.id, t.at)
  /\ t.pc \in {"observe", "bill", "retain", "status"} => AllRows(t.at)
  /\ t.pc \in {"bill", "retain", "status"} => Paired(t.at)

(* No draft is committed by two commands at once. *)
Progress ==
  /\ \A t \in Commits : Advanced(t)
  /\ \A t, u \in Commits : t.id = u.id => t = u

(* What the tables hold of draft i when no command is committing it. *)
Settled(i) ==
  IF drafts[i] = "committed"
  THEN \E n \in DOMAIN entered : Latest(i, n) /\ AllRows(n) /\ Paired(n)
  ELSE Entries(i) \subseteq spoilt

Booked == \A i \in Ids : ~Committing(i) => Settled(i)

IInv == Shape /\ Tables /\ Progress /\ Booked

-----------------------------------------------------------------------------
(* Rows and the entries written for them.                                  *)

(* When every row was written, the two lists that are zipped line up.      *)
LEMMA ZippedInOrder ==
  Zipped(RowNumbers) = {<<e, e>> : e \in RowNumbers}
<1>1. ASSUME NEW e \in RowNumbers
      PROVE  Cardinality({k \in RowNumbers : k <= e}) = e
  <2>1. {k \in RowNumbers : k <= e} = 1 .. e
    BY StagingAssumption DEF RowNumbers
  <2>2. Cardinality(1 .. e) = e
    BY FS_Interval DEF RowNumbers
  <2> QED BY <2>1, <2>2
<1> QED BY <1>1 DEF Zipped

LEMMA ZippedType ==
  ASSUME NEW kept \in SUBSET RowNumbers
  PROVE  Zipped(kept) \subseteq Nat \X RowNumbers
<1>1. IsFiniteSet(RowNumbers)
  BY StagingAssumption, FS_Interval DEF RowNumbers
<1>2. ASSUME NEW e \in kept
      PROVE  Cardinality({k \in kept : k <= e}) \in Nat
  <2>1. {k \in kept : k <= e} \subseteq RowNumbers
    OBVIOUS
  <2> QED BY <1>1, <2>1, FS_Subset, FS_CardinalityType
<1>3. ASSUME NEW e \in kept
      PROVE  <<Cardinality({k \in kept : k <= e}), e>> \in Nat \X RowNumbers
  BY <1>2, <1>3
<1> QED BY <1>3 DEF Zipped

-----------------------------------------------------------------------------
(* Shapes.                                                                 *)

LEMMA InitIInv == Init => IInv
<1> SUFFICES ASSUME Init PROVE IInv
  OBVIOUS
<1>1. Shape /\ Tables
  BY DEF Init, Shape, Tables, Drawn
<1>2. Progress /\ Booked
  BY DEF Init, Progress, Booked, Settled, Commits, Entries
<1> QED BY <1>1, <1>2 DEF IInv

Tasks == Work({"commit"}, CommitSteps) \cup Work(OtherKinds, OtherSteps)

(* A task knows its kind by its step. *)
LEMMA KindByStep ==
  ASSUME Shape, NEW t \in tasks
  PROVE  /\ t \in Tasks
         /\ t.pc \in CommitSteps <=> t.kind = "commit"
         /\ t.kind # "commit" => t.kind \in OtherKinds /\ t.pc \in OtherSteps
  BY DEF Shape, Tasks, Work, CommitSteps, OtherSteps, OtherKinds, IntakeKinds, PipelineKinds

(* A task of either sort takes its next step. *)
LEMMA StepShape ==
  ASSUME Shape, NEW t \in tasks, NEW pc, Step(t, pc), t.id \in Drawn, Drawn \subseteq Drawn',
         \/ t.kind = "commit" /\ pc \in CommitSteps
         \/ t.kind # "commit" /\ pc \in OtherSteps
  PROVE  /\ tasks' \subseteq Tasks
         /\ \A u \in tasks' : u.pc # "check" => u.id \in Drawn'
<1>1. [t EXCEPT !.pc = pc] \in Tasks
  BY KindByStep DEF Tasks, Work
<1>2. [t EXCEPT !.pc = pc].id = t.id
  BY KindByStep DEF Tasks, Work
<1> QED BY <1>1, <1>2 DEF Step, Shape, Tasks

LEMMA EndShape ==
  ASSUME Shape, NEW t \in tasks, End(t), Drawn \subseteq Drawn'
  PROVE  /\ tasks' \subseteq Tasks
         /\ \A u \in tasks' : u.pc # "check" => u.id \in Drawn'
  BY DEF End, Shape, Tasks

LEMMA StartShape ==
  ASSUME Shape, source' = source,
         NEW kind, NEW id \in Nat, NEW file \in Files, NEW batch \in Nat, NEW pc,
         Start(kind, id, file, batch, pc),
         \/ kind = "commit" /\ pc \in CommitSteps
         \/ kind \in OtherKinds /\ pc \in OtherSteps,
         pc # "check" => id \in Drawn
  PROVE  /\ tasks' \subseteq Tasks
         /\ \A u \in tasks' : u.pc # "check" => u.id \in Drawn'
  BY DEF Start, Shape, Drawn, Tasks, Work

(* A document that is drawn has its file. *)
LEMMA DrawnFile ==
  ASSUME Shape, NEW i \in Drawn
  PROVE  i \in Nat /\ i # 0 /\ source[i] \in Files
  BY DEF Shape, Drawn

(* Drawing an id, for a file of its own. *)
LEMMA DrawShape ==
  ASSUME Shape, NEW f \in Files, source' = Append(source, f)
  PROVE  /\ source' \in Seq(Files) /\ NextId \in Drawn' /\ Drawn \subseteq Drawn'
  BY DEF Shape, Drawn, NextId

-----------------------------------------------------------------------------
(* Steps that concern no commit.                                           *)

(* What a step leaves alone that has nothing to do with commits. *)
LEMMA Aside ==
  ASSUME IInv, UNCHANGED <<drafts, entered, spoilt>>, Commits' = Commits
  PROVE  Tables' /\ Progress' /\ Booked'
<1>1. \A i \in Ids : Committing(i)' <=> Committing(i)
  BY DEF Commits, Committing
<1>2. \A i : Entries(i)' = Entries(i)
  BY DEF Entries
<1>3. Booked'
  BY <1>1, <1>2 DEF IInv, Booked, Settled, Latest, AllRows, Paired
<1>4. Progress'
  BY <1>2 DEF IInv, Progress, Advanced, Latest, AllRows, Paired
<1> QED BY <1>3, <1>4 DEF IInv, Tables

LEMMA StepAside ==
  ASSUME Shape, NEW t \in tasks, t.kind # "commit", NEW pc, Step(t, pc)
  PROVE  Commits' = Commits
<1>1. [t EXCEPT !.pc = pc].kind = t.kind
  BY KindByStep DEF Tasks, Work
<1> QED BY <1>1 DEF Step, Commits

LEMMA EndAside ==
  ASSUME NEW t \in tasks, t.kind # "commit", End(t)
  PROVE  Commits' = Commits
  BY DEF End, Commits

LEMMA StartAside ==
  ASSUME NEW kind, NEW id, NEW file, NEW batch, NEW pc, kind # "commit",
         Start(kind, id, file, batch, pc)
  PROVE  Commits' = Commits
  BY DEF Start, Commits

LEMMA CountedShape ==
  ASSUME Shape, NEW b \in Nat
  PROVE  Counted(b) \in Seq(Batch)
<1>1. CASE b = 0
  BY <1>1 DEF Counted, Shape
<1>2. CASE b # 0
  <2>1. [batches EXCEPT ![b].finished = @ + 1] \in Seq(Batch)
    <3>1. CASE b \in DOMAIN batches
      <4>1. batches[b] \in Batch
        BY <3>1 DEF Shape
      <4>2. [batches[b] EXCEPT !.finished = @ + 1] \in Batch
        BY <4>1 DEF Batch
      <4> QED BY <3>1, <4>2 DEF Shape
    <3>2. CASE b \notin DOMAIN batches
      <4>1. batches = [n \in DOMAIN batches |-> batches[n]]
        BY DEF Shape
      <4>2. [batches EXCEPT ![b].finished = @ + 1] = [n \in DOMAIN batches |-> batches[n]]
        BY <3>2
      <4> QED BY <4>1, <4>2 DEF Shape
    <3> QED BY <3>1, <3>2
  <2> QED BY <1>2, <2>1 DEF Counted
<1> QED BY <1>1, <1>2

LEMMA Selected ==
  ASSUME IInv, NEW S \in Selections, SelectFiles(S)
  PROVE  IInv'
<1> USE DEF SelectFiles, history, window
<1>1. [left |-> S, total |-> Cardinality(S), finished |-> 0] \in Batch
  BY StagingAssumption DEF Batch
<1>2. Shape'
  BY <1>1 DEF IInv, Shape, Drawn
<1>3. Commits' = Commits
  BY DEF Commits
<1> QED BY <1>2, <1>3, Aside DEF IInv

(* Files a user selected, and attachments, wait to be checked. *)
LEMMA Arrived ==
  ASSUME IInv,
         \/ \E b \in DOMAIN batches : \E f \in batches[b].left : NextFile(b, f)
         \/ \E f \in Mailed : Attachment(f)
  PROVE  IInv'
<1>1. ASSUME NEW kind \in {"upload", "email"}, NEW f \in Files, NEW n \in Nat,
             Start(kind, 0, f, n, "check"), batches' \in Seq(Batch),
             UNCHANGED <<source, rows, stored, queue, window, history>>
      PROVE  IInv'
  <2>1. Shape'
    BY <1>1, StartShape DEF IInv, Shape, Tasks, Drawn, window, OtherKinds, OtherSteps, IntakeKinds
  <2>2. Commits' = Commits
    BY <1>1, StartAside
  <2> QED BY <1>1, <2>1, <2>2, Aside DEF IInv, rows, history
<1>2. ASSUME NEW b \in DOMAIN batches, NEW f \in batches[b].left, NextFile(b, f)
      PROVE  IInv'
  <2>1. b \in Nat /\ batches[b] \in Batch
    BY DEF IInv, Shape
  <2>2. f \in Files
    BY <2>1 DEF Batch
  <2>3. [batches EXCEPT ![b].left = @ \ {f}] \in Seq(Batch)
    <3>1. [batches[b] EXCEPT !.left = @ \ {f}] \in Batch
      BY <2>1 DEF Batch
    <3> QED BY <3>1 DEF IInv, Shape
  <2> QED BY <1>1, <1>2, <2>1, <2>2, <2>3 DEF NextFile
<1>3. ASSUME NEW f \in Mailed, Attachment(f)
      PROVE  IInv'
  BY <1>1, <1>3, StagingAssumption DEF Attachment, IInv, Shape
<1> QED BY <1>2, <1>3

LEMMA Checked ==
  ASSUME IInv, NEW t \in tasks, CheckDuplicate(t)
  PROVE  IInv'
<1> USE DEF CheckDuplicate, history, rows, window
<1>1. t \in Work(OtherKinds, OtherSteps) /\ t.kind # "commit"
  BY KindByStep DEF IInv, Shape, CommitSteps, Work
<1>2. CASE End(t) /\ batches' = Counted(t.batch) /\ UNCHANGED source
  <2>1. Shape'
    BY <1>1, <1>2, EndShape, CountedShape DEF IInv, Shape, Tasks, Drawn, Work
  <2> QED BY <1>1, <1>2, <2>1, EndAside, Aside DEF IInv
<1>3. CASE /\ source' = Append(source, t.file)
           /\ tasks' = (tasks \ {t}) \cup {[t EXCEPT !.pc = "unlock", !.id = NextId]}
           /\ UNCHANGED batches
  <2>1. t.file \in Files
    BY <1>1 DEF Work
  <2>2. /\ source' \in Seq(Files) /\ NextId \in Drawn' /\ Drawn \subseteq Drawn'
    BY <1>3, <2>1, DrawShape DEF IInv
  <2> DEFINE next == [t EXCEPT !.pc = "unlock", !.id = NextId]
  <2>3. /\ next \in Work(OtherKinds, OtherSteps) /\ next.id = NextId /\ next.kind = t.kind
    <3>1. NextId \in Nat
      BY <2>2 DEF Drawn
    <3>2. "unlock" \in OtherSteps
      BY DEF OtherSteps
    <3>3. DOMAIN t = {"kind", "id", "file", "batch", "pc", "at"}
      BY <1>1 DEF Work
    <3> HIDE DEF OtherSteps, NextId
    <3> QED BY <1>1, <3>1, <3>2, <3>3 DEF Work
  <2>4. Shape'
    BY <1>3, <2>2, <2>3 DEF IInv, Shape
  <2>5. Commits' = Commits
    BY <1>1, <1>3, <2>3 DEF Commits
  <2> QED BY <2>4, <2>5, Aside DEF IInv
<1> QED BY <1>2, <1>3

(* The other steps on the way to a draft: the task goes on or ends, and    *)
(* at most draws an id for the document it continues as.                   *)
LEMMA WorkedOn ==
  ASSUME IInv, NEW t \in tasks, t.kind # "commit", t.pc # "check",
         \/ \E pc \in OtherSteps : Step(t, pc)
         \/ End(t),
         source' \in Seq(Files), Drawn \subseteq Drawn',
         batches' \in Seq(Batch),
         queue' \in Seq([id: Nat, batch: Nat]), \A n \in DOMAIN queue' : queue'[n].id \in Drawn',
         prompt' \in {0} \cup Drawn', sweep' = sweep
  PROVE  Shape' /\ Commits' = Commits
<1>1. t.id \in Drawn
  BY DEF IInv, Shape
<1>2. /\ tasks' \subseteq Tasks
      /\ \A u \in tasks' : u.pc # "check" => u.id \in Drawn'
  BY <1>1, StepShape, EndShape DEF IInv
<1>3. Commits' = Commits
  BY StepAside, EndAside DEF IInv
<1> QED BY <1>2, <1>3 DEF IInv, Shape, Tasks

(* Looking for a password, storing and queueing the document, parsing it,  *)
(* checking its cycle, and what its caller does in the end.                *)
LEMMA Worked ==
  ASSUME IInv, NEW t \in tasks,
         \/ ResolvePassword(t) \/ Enqueue(t) \/ Send(t) \/ Parse(t) \/ Block(t)
         \/ CheckCycle(t) \/ Settle(t)
  PROVE  IInv'
<1> USE DEF history, rows, window
<1>1. t.pc \in OtherSteps \ {"check"}
  BY DEF ResolvePassword, Enqueue, Send, Parse, Block, CheckCycle, Settle, OtherSteps
<1>2. t \in Work(OtherKinds, OtherSteps) /\ t.kind # "commit" /\ t.pc # "check" /\ t.id \in Drawn
  BY <1>1, KindByStep DEF IInv, Shape, Work, OtherSteps, CommitSteps
<1>3. UNCHANGED <<drafts, entered, spoilt, sweep>>
  BY DEF ResolvePassword, Enqueue, Send, Parse, Block, BlockedAwaitingInstrument, CheckCycle, Settle
<1>4. Counted(t.batch) \in Seq(Batch) /\ batches \in Seq(Batch)
  BY <1>2, CountedShape DEF IInv, Shape, Work
<1>5. \/ \E pc \in OtherSteps : Step(t, pc)
      \/ End(t)
  BY DEF ResolvePassword, Enqueue, Send, Parse, Block, BlockedAwaitingInstrument, CheckCycle, Settle,
         Fail, OtherSteps
<1>6. batches' \in Seq(Batch)
  BY <1>4 DEF ResolvePassword, Enqueue, Send, Parse, Block, CheckCycle, Settle
<1>7. /\ source' \in Seq(Files) /\ Drawn \subseteq Drawn'
      /\ prompt' \in {0} \cup Drawn'
  <2>1. CASE Block(t) /\ BlockedAwaitingInstrument(t)
    <3>1. t.file \in Files
      BY <1>2 DEF Work
    <3>2. source' \in Seq(Files) /\ NextId \in Drawn' /\ Drawn \subseteq Drawn'
      BY <2>1, <3>1, DrawShape DEF BlockedAwaitingInstrument, IInv
    <3> QED BY <2>1, <3>2 DEF BlockedAwaitingInstrument
  <2>2. CASE ~(Block(t) /\ BlockedAwaitingInstrument(t))
    <3>1. source' = source /\ prompt' \in {0, prompt}
      BY <2>2 DEF ResolvePassword, Enqueue, Send, Parse, Block, CheckCycle, Settle
    <3> QED BY <3>1 DEF IInv, Shape, Drawn
  <2> QED BY <2>1, <2>2
<1>8. /\ queue' \in Seq([id: Nat, batch: Nat])
      /\ \A n \in DOMAIN queue' : queue'[n].id \in Drawn'
  <2>1. CASE Send(t)
    <3>1. [id |-> t.id, batch |-> t.batch] \in [id: Nat, batch: Nat]
      BY <1>2 DEF Work
    <3> QED BY <1>2, <1>7, <2>1, <3>1 DEF Send, IInv, Shape
  <2>2. CASE ~Send(t)
    <3>1. queue' = queue
      BY <2>2 DEF ResolvePassword, Enqueue, Parse, Block, CheckCycle, Settle
    <3> QED BY <1>7, <3>1 DEF IInv, Shape
  <2> QED BY <2>1, <2>2
<1>9. Shape' /\ Commits' = Commits
  BY <1>2, <1>3, <1>5, <1>6, <1>7, <1>8, WorkedOn
<1> QED BY <1>3, <1>9, Aside DEF IInv

(* Work that starts and commits nothing: jobs, and what the user asks of a *)
(* document.                                                               *)
LEMMA Started ==
  ASSUME IInv, NEW kind \in PipelineKinds, NEW i \in Drawn, NEW n \in Nat,
         Start(kind, i, source[i], n, "parse"),
         UNCHANGED <<source, drafts, entered, prompt, batches, spoilt>>,
         queue' \in Seq([id: Nat, batch: Nat]), \A k \in DOMAIN queue' : queue'[k].id \in Drawn,
         sweep' \subseteq sweep
  PROVE  IInv'
<1>1. kind \in OtherKinds /\ kind # "commit" /\ "parse" \in OtherSteps
  BY DEF OtherKinds, PipelineKinds, OtherSteps
<1>2. i \in Nat /\ source[i] \in Files
  BY DrawnFile DEF IInv
<1>3. /\ tasks' \subseteq Tasks
      /\ \A u \in tasks' : u.pc # "check" => u.id \in Drawn'
  BY <1>1, <1>2, StartShape DEF IInv
<1>4. Shape'
  BY <1>3 DEF IInv, Shape, Tasks, Drawn
<1>5. Commits' = Commits
  BY <1>1, StartAside
<1> QED BY <1>4, <1>5, Aside DEF IInv

LEMMA HeadAndTail ==
  ASSUME NEW S, NEW s \in Seq(S), s # <<>>
  PROVE  /\ Head(s) \in S /\ Tail(s) \in Seq(S)
         /\ \E k \in DOMAIN s : Head(s) = s[k]
         /\ \A n \in DOMAIN Tail(s) : \E k \in DOMAIN s : Tail(s)[n] = s[k]
<1>1. 1 \in DOMAIN s /\ Head(s) = s[1] /\ Tail(s) \in Seq(S)
  OBVIOUS
<1>2. ASSUME NEW n \in DOMAIN Tail(s) PROVE n + 1 \in DOMAIN s /\ Tail(s)[n] = s[n + 1]
  OBVIOUS
<1> QED BY <1>1, <1>2

LEMMA Dispatched ==
  ASSUME IInv, Dispatch
  PROVE  IInv'
<1>1. /\ Head(queue) \in [id: Nat, batch: Nat] /\ Head(queue).id \in Drawn
      /\ queue' \in Seq([id: Nat, batch: Nat]) /\ \A k \in DOMAIN queue' : queue'[k].id \in Drawn
  <2>1. /\ queue \in Seq([id: Nat, batch: Nat]) /\ queue # <<>> /\ queue' = Tail(queue)
        /\ \A k \in DOMAIN queue : queue[k].id \in Drawn
    BY DEF Dispatch, IInv, Shape
  <2> QED BY <2>1, HeadAndTail
<1>2. "job" \in PipelineKinds /\ Head(queue).batch \in Nat
  BY <1>1 DEF PipelineKinds
<1> QED BY <1>1, <1>2, Started DEF Dispatch, rows, window, history

LEMMA Answered ==
  ASSUME IInv,
         \/ \E i \in Drawn : SubmitPassword(i) \/ RetryUnprocessed(i) \/ DiscardUnprocessed(i)
         \/ \E i \in sweep : ReparseNext(i)
         \/ ReparseAll \/ ConfirmInstrument \/ CloseInstrumentModal
  PROVE  IInv'
<1> USE DEF rows, window, history
<1>1. queue \in Seq([id: Nat, batch: Nat]) /\ \A k \in DOMAIN queue : queue[k].id \in Drawn
  BY DEF IInv, Shape
<1>2. ASSUME NEW i \in Drawn, SubmitPassword(i) PROVE IInv'
  BY <1>1, <1>2, Started DEF SubmitPassword, PipelineKinds
<1>3. ASSUME NEW i \in Drawn, RetryUnprocessed(i) PROVE IInv'
  BY <1>1, <1>3, Started DEF RetryUnprocessed, Retry, PipelineKinds
<1>4. ASSUME UNCHANGED <<source, drafts, entered, queue, tasks, batches, spoilt>>,
             prompt' \in {0, prompt}, sweep' \subseteq Drawn
      PROVE  IInv'
  <2>1. Shape'
    BY <1>4 DEF IInv, Shape, Drawn
  <2>2. Commits' = Commits
    BY <1>4 DEF Commits
  <2> QED BY <1>4, <2>1, <2>2, Aside DEF IInv
<1>5. sweep \subseteq Drawn
  BY DEF IInv, Shape
<1>6. ASSUME NEW i \in Drawn, DiscardUnprocessed(i) PROVE IInv'
  BY <1>4, <1>5, <1>6 DEF DiscardUnprocessed
<1>7. ASSUME NEW i \in sweep, ReparseNext(i) PROVE IInv'
  <2>1. CASE Retry(i, "reparse")
    BY <1>1, <1>5, <1>7, <2>1, Started DEF ReparseNext, Retry, PipelineKinds
  <2>2. CASE UNCHANGED tasks
    BY <1>4, <1>5, <1>7, <2>2 DEF ReparseNext
  <2> QED BY <1>7, <2>1, <2>2 DEF ReparseNext
<1>8. CASE ReparseAll
  BY <1>4, <1>8 DEF ReparseAll, Actionable
<1>9. CASE ConfirmInstrument
  BY <1>1, <1>9, Started DEF ConfirmInstrument, PipelineKinds, IInv, Shape
<1>10. CASE CloseInstrumentModal
  BY <1>4, <1>5, <1>10 DEF CloseInstrumentModal
<1> QED BY <1>2, <1>3, <1>6, <1>7, <1>8, <1>9, <1>10

-----------------------------------------------------------------------------
(* Steps that write drafts and statements.                                 *)

(* What holds of the drafts that this step does not concern.               *)
LEMMA OtherDraft ==
  ASSUME IInv, NEW j \in Ids, drafts'[j] = drafts[j], Entries(j)' = Entries(j),
         \A n \in Entries(j) : entered'[n] = entered[n], DOMAIN entered \subseteq DOMAIN entered',
         spoilt \subseteq spoilt', \A n \in Entries(j) : n \in spoilt' => n \in spoilt
  PROVE  /\ Settled(j) => Settled(j)'
         /\ \A t \in Commits : t.id = j => Advanced(t)'
<1>1. \A n : Latest(j, n) <=> Latest(j, n)'
  BY DEF Latest
<1>2. \A n \in Entries(j) : (AllRows(n) => AllRows(n)') /\ (Paired(n) => Paired(n)')
  BY DEF AllRows, Paired
<1>3. \A n : Latest(j, n) => n \in Entries(j)
  BY DEF Latest
<1>4. Settled(j) => Settled(j)'
  BY <1>1, <1>2, <1>3 DEF Settled
<1>5. ASSUME NEW t \in Commits, t.id = j PROVE Advanced(t)'
  BY <1>1, <1>2, <1>3, <1>5 DEF IInv, Progress, Advanced
<1> QED BY <1>4, <1>5

(* A draft appears or is discarded while no command commits it; until then *)
(* it entered nothing but what was cut short.                              *)
LEMMA Drafted ==
  ASSUME IInv, NEW i \in Ids, ~Committing(i), drafts[i] # "committed",
         \E d \in {"none", "pending_review"} : drafts' = [drafts EXCEPT ![i] = d],
         UNCHANGED <<entered, spoilt>>, Commits' = Commits
  PROVE  Tables' /\ Progress' /\ Booked'
<1>1. Tables'
  BY DEF IInv, Tables
<1>2. \A j : Entries(j)' = Entries(j)
  BY DEF Entries
<1>3. \A j \in Ids : Committing(j)' <=> Committing(j)
  BY DEF Commits, Committing
<1>4. \A j \in Ids \ {i} : drafts'[j] = drafts[j]
  BY DEF IInv, Tables
<1>5. Settled(i)'
  BY <1>2 DEF IInv, Booked, Settled, Tables
<1>6. Booked'
  BY <1>2, <1>3, <1>4, <1>5, OtherDraft DEF IInv, Booked
<1>7. ASSUME NEW t \in Commits PROVE Advanced(t)'
  <2>1. t.id \in Ids \ {i}
    BY DEF Commits, Committing, IInv, Progress, Advanced
  <2> QED BY <1>2, <1>4, <2>1, OtherDraft
<1> QED BY <1>1, <1>6, <1>7 DEF IInv, Progress

LEMMA Staged ==
  ASSUME IInv, NEW t \in tasks, StageDraft(t)
  PROVE  IInv'
<1> USE DEF StageDraft, rows, window, history
<1>1. t.kind # "commit" /\ t.pc # "check"
  BY KindByStep DEF IInv, CommitSteps
<1>2. Step(t, "staged") \/ Step(t, "failed")
  BY DEF Fail
<1>3. Shape' /\ Commits' = Commits
  BY <1>1, <1>2, WorkedOn DEF IInv, Shape, OtherSteps, Drawn
<1>4. spoilt' = spoilt
  BY DEF Fail
<1>5. CASE UNCHANGED drafts
  BY <1>3, <1>4, <1>5, Aside DEF IInv
<1>6. CASE InsertDraft(t.id) /\ t.id \in Ids
  <2>1. drafts[t.id] = "none" /\ drafts' = [drafts EXCEPT ![t.id] = "pending_review"]
    BY <1>6 DEF InsertDraft
  <2>2. ~Committing(t.id)
    BY <2>1 DEF IInv, Progress, Advanced, Commits, Committing
  <2> QED BY <1>3, <1>4, <1>6, <2>1, <2>2, Drafted DEF IInv
<1>7. CASE InsertDraft(t.id) /\ t.id \notin Ids
  <2>1. drafts' = drafts
    BY <1>7 DEF InsertDraft, IInv, Tables
  <2> QED BY <1>5, <2>1
<1> QED BY <1>5, <1>6, <1>7 DEF Fail

LEMMA Discarded ==
  ASSUME IInv, NEW i \in Drawn, DiscardDraft(i)
  PROVE  IInv'
<1> USE DEF DiscardDraft, rows, window, history
<1>1. i \in Ids /\ drafts[i] = "pending_review"
  BY DEF PendingReview, IInv, Tables
<1>2. Shape' /\ Commits' = Commits
  BY DEF IInv, Shape, Drawn, Commits
<1> QED BY <1>1, <1>2, Drafted DEF DeleteDraft, IInv

LEMMA CommitStarted ==
  ASSUME IInv, NEW i \in Drawn, CommitDraft(i)
  PROVE  IInv'
<1> USE DEF CommitDraft, rows, window, history
<1>1. i \in Ids /\ drafts[i] = "pending_review" /\ Entries(i) \subseteq spoilt
  BY DEF PendingReview, IInv, Tables, Booked, Settled
<1>2. i \in Nat /\ source[i] \in Files
  BY DrawnFile DEF IInv
<1> DEFINE new == [kind |-> "commit", id |-> i, file |-> source[i], batch |-> 0, pc |-> "statement", at |-> 0]
<1>3. Shape'
  <2>1. Start("commit", i, source[i], 0, "statement") /\ source' = source /\ "statement" \in CommitSteps
    BY DEF CommitSteps
  <2>2. /\ tasks' \subseteq Tasks
        /\ \A u \in tasks' : u.pc # "check" => u.id \in Drawn'
    BY <1>2, <2>1, StartShape DEF IInv
  <2> QED BY <2>2 DEF IInv, Shape, Tasks, Drawn
<1>4. Commits' = Commits \cup {new}
  BY DEF Start, Commits
<1>5. ASSUME NEW j \in Ids PROVE Committing(j)' <=> Committing(j) \/ j = i
  <2>1. Committing(j) <=> \E t \in Commits : t.id = j
    BY DEF Commits, Committing
  <2>2. Committing(j)' <=> \E t \in Commits' : t.id = j
    BY DEF Commits, Committing
  <2>3. new.id = i
    OBVIOUS
  <2> HIDE DEF new
  <2> QED BY <1>4, <2>1, <2>2, <2>3
<1>6. \A j : Entries(j)' = Entries(j)
  BY DEF Entries
<1>7. Booked'
  BY <1>5, <1>6, OtherDraft DEF IInv, Booked
<1>8. ASSUME NEW t \in Commits PROVE Advanced(t)'
  <2>1. t.id \in Ids
    BY DEF IInv, Progress, Advanced
  <2> QED BY <1>6, <2>1, OtherDraft
<1>9. Advanced(new)'
  BY <1>1, <1>6 DEF Advanced
<1>10. new.id = i /\ \A t \in Commits : t.id # i
  BY DEF Committing, Commits
<1>11. Progress'
  BY <1>4, <1>8, <1>9, <1>10 DEF Progress, IInv
<1> QED BY <1>3, <1>7, <1>11 DEF IInv, Tables

-----------------------------------------------------------------------------
(* The six steps of a commit.                                              *)

(* A step of the commit t concerns its draft alone.                        *)
LEMMA OneDraft ==
  ASSUME IInv, NEW t \in Commits, NEW U,
         Commits' = (Commits \ {t}) \cup U,
         \A u \in U : u.id = t.id /\ Advanced(u)', \A u, v \in U : u = v,
         U = {} => Settled(t.id)',
         \A j \in Ids \ {t.id} : /\ drafts'[j] = drafts[j] /\ Entries(j)' = Entries(j)
                                 /\ \A n \in Entries(j) : entered'[n] = entered[n],
         DOMAIN entered \subseteq DOMAIN entered',
         spoilt \subseteq spoilt', spoilt' \ spoilt \subseteq Entries(t.id)
  PROVE  Progress' /\ Booked'
<1>1. \A j \in Ids \ {t.id} : Entries(j) \cap Entries(t.id) = {}
  BY DEF Entries
<1>2. ASSUME NEW j \in Ids \ {t.id}
      PROVE  /\ Settled(j) => Settled(j)'
             /\ \A u \in Commits : u.id = j => Advanced(u)'
  BY <1>1, <1>2, OtherDraft
<1>3. ASSUME NEW u \in Commits \ {t} PROVE u.id \in Ids \ {t.id} /\ Advanced(u)'
  <2>2. u.id \in Ids \ {t.id}
    BY DEF IInv, Progress, Advanced
  <2> QED BY <1>2, <2>2
<1>4. Progress'
  BY <1>3 DEF Progress, IInv
<1>5. ASSUME NEW j \in Ids, ~Committing(j)' PROVE Settled(j)'
  <2>1. \A u \in Commits' : u.id # j
    BY <1>5 DEF Committing, Commits
  <2>2. CASE j = t.id
    BY <2>1, <2>2
  <2>3. CASE j # t.id
    <3>1. ~Committing(j)
      BY <2>1, <2>3 DEF Committing, Commits
    <3> QED BY <1>2, <2>3, <3>1 DEF IInv, Booked
  <2> QED BY <2>2, <2>3
<1> QED BY <1>4, <1>5 DEF Booked

(* The commit goes on to its next step, and its draft stays as it is. *)
LEMMA CommitAdvances ==
  ASSUME IInv, NEW t \in Commits, NEW next, next.id = t.id, next.kind = "commit",
         tasks' = (tasks \ {t}) \cup {next}, Advanced(next)', drafts' = drafts,
         \A j \in Ids \ {t.id} : /\ Entries(j)' = Entries(j)
                                 /\ \A n \in Entries(j) : entered'[n] = entered[n],
         DOMAIN entered \subseteq DOMAIN entered',
         spoilt \subseteq spoilt', spoilt' \ spoilt \subseteq Entries(t.id)
  PROVE  Progress' /\ Booked'
<1>1. Commits' = (Commits \ {t}) \cup {next}
  BY DEF Commits
<1> DEFINE U == {next}
<1>2. /\ Commits' = (Commits \ {t}) \cup U /\ U # {}
      /\ \A u \in U : u.id = t.id /\ Advanced(u)'
      /\ \A u, v \in U : u = v
  BY <1>1
<1>3. \A j \in Ids \ {t.id} : drafts'[j] = drafts[j]
  OBVIOUS
<1> HIDE DEF U
<1> QED BY <1>2, <1>3, OneDraft

(* The commit t is a task about a document with its file. *)
LEMMA CommitTask ==
  ASSUME IInv, NEW t \in tasks, t.pc \in CommitSteps
  PROVE  /\ t \in Commits /\ t \in Work({"commit"}, CommitSteps)
         /\ Advanced(t) /\ t.id \in Drawn /\ t.id \in Ids /\ t.file \in Files
         /\ t.pc # "statement" => t.at \in DOMAIN entered /\ entered[t.at].draft = t.id
<1>1. t \in Commits /\ t \in Work({"commit"}, CommitSteps) /\ t.id \in Drawn
  BY KindByStep DEF IInv, Shape, Commits, CommitSteps, Work, OtherKinds, IntakeKinds, PipelineKinds
<1>2. Advanced(t)
  BY <1>1 DEF IInv, Progress
<1> QED BY <1>1, <1>2 DEF Advanced, Latest, Entries, Work

(* The commit goes on, and tasks keep their shape. *)
LEMMA CommitGoesOn ==
  ASSUME IInv, NEW t \in tasks, t.pc \in CommitSteps, NEW pc \in CommitSteps, Step(t, pc),
         UNCHANGED <<source, queue, window, batches>>
  PROVE  /\ Shape'
         /\ LET next == [t EXCEPT !.pc = pc] IN
              /\ next.id = t.id /\ next.kind = "commit" /\ next.pc = pc /\ next.at = t.at
              /\ tasks' = (tasks \ {t}) \cup {next}
<1>1. t \in Work({"commit"}, CommitSteps) /\ t.id \in Drawn
  BY CommitTask
<1>2. /\ tasks' \subseteq Tasks
      /\ \A u \in tasks' : u.pc # "check" => u.id \in Drawn'
  BY <1>1, StepShape DEF IInv, Drawn, Work
<1> QED BY <1>1, <1>2 DEF IInv, Shape, Tasks, Drawn, window, Step, Work

(* One statement is written to, and stays that of its draft. *)
LEMMA StatementWritten ==
  ASSUME Tables, NEW n \in DOMAIN entered, NEW r \in Entered, r.draft = entered[n].draft,
         entered' = [entered EXCEPT ![n] = r]
  PROVE  /\ entered' \in Seq(Entered) /\ DOMAIN entered' = DOMAIN entered
         /\ \A i : Entries(i)' = Entries(i)
         /\ \A m \in DOMAIN entered : m # n => entered'[m] = entered[m]
         /\ entered'[n] = r
<1>1. /\ entered' \in Seq(Entered) /\ DOMAIN entered' = DOMAIN entered
  BY DEF Tables
<1>2. /\ \A m \in DOMAIN entered : m # n => entered'[m] = entered[m]
      /\ entered'[n] = r
  OBVIOUS
<1>3. \A i : Entries(i)' = Entries(i)
  BY <1>1, <1>2 DEF Entries
<1> QED BY <1>1, <1>2, <1>3

LEMMA StatementStarted ==
  ASSUME IInv, NEW t \in tasks, WriteStatement(t)
  PROVE  IInv'
<1> USE DEF WriteStatement, rows, window, history
<1>2. t.pc = "statement" /\ t.pc \in CommitSteps
  BY DEF CommitSteps
<1>3. /\ t \in Commits /\ t \in Work({"commit"}, CommitSteps) /\ t.id \in Drawn /\ t.id \in Ids
      /\ t.file \in Files /\ drafts[t.id] = "pending_review" /\ Entries(t.id) \subseteq spoilt
  BY <1>2, CommitTask DEF Advanced
<1>1. PICK last \in Nat : last = Len(entered) + 1
  BY DEF IInv, Tables
<1> DEFINE statement == [draft |-> t.id, file |-> t.file, entries |-> {}, evidence |-> {}]
           next == [t EXCEPT !.pc = "entries", !.at = last]
<1>4. /\ entered' \in Seq(Entered) /\ DOMAIN entered' = DOMAIN entered \cup {last}
      /\ last \in Nat /\ \A m \in DOMAIN entered : m < last /\ entered'[m] = entered[m]
      /\ entered'[last].draft = t.id
  <2>1. statement \in Entered
    BY <1>3 DEF Entered
  <2>2. entered' = Append(entered, statement) /\ entered \in Seq(Entered)
    BY DEF InsertStatement, IInv, Tables
  <2>3. statement.draft = t.id
    OBVIOUS
  <2> HIDE DEF statement
  <2> QED BY <1>1, <2>1, <2>2, <2>3
<1>5. /\ Entries(t.id)' = Entries(t.id) \cup {last}
      /\ \A j \in Ids \ {t.id} : Entries(j)' = Entries(j)
  BY <1>4 DEF Entries
<1>6. /\ next \in Work({"commit"}, CommitSteps) /\ next.id = t.id /\ next.kind = "commit"
      /\ next.pc = "entries" /\ next.at = last
  <2>1. "entries" \in CommitSteps /\ last \in Nat
    BY <1>4 DEF CommitSteps
  <2> QED BY <1>3, <2>1 DEF Work
<1>7. UNCHANGED <<drafts, spoilt>>
  OBVIOUS
<1> HIDE DEF WriteStatement
<1>8. Latest(t.id, last)'
  <2>1. \A m \in Entries(t.id) : m < last
    BY <1>4 DEF Entries
  <2>2. \A m \in Entries(t.id)' : m # last => m < last /\ m \in spoilt'
    BY <1>3, <1>5, <1>7, <2>1
  <2> QED BY <1>5, <2>2 DEF Latest
<1>9. Advanced(next)'
  BY <1>3, <1>6, <1>7, <1>8 DEF Advanced
<1>10. Shape'
  BY <1>1, <1>3, <1>6 DEF WriteStatement, IInv, Shape, Drawn
<1>11. \A j : \A n \in Entries(j) : entered'[n] = entered[n]
  BY <1>4 DEF Entries
<1>12. tasks' = (tasks \ {t}) \cup {next}
  BY <1>1 DEF WriteStatement
<1> HIDE DEF next
<1>13. DOMAIN entered \subseteq DOMAIN entered' /\ spoilt' \ spoilt = {}
  BY <1>4, <1>7
<1>14. Progress' /\ Booked'
  BY <1>3, <1>5, <1>6, <1>7, <1>9, <1>11, <1>12, <1>13, CommitAdvances
<1> QED BY <1>4, <1>7, <1>10, <1>14 DEF IInv, Tables

(* What is common to a commit that goes on with its statement. *)
LEMMA StatementAdvances ==
  ASSUME IInv, NEW t \in tasks, t.pc \in CommitSteps \ {"statement"},
         NEW pc \in CommitSteps \ {"statement"}, Step(t, pc),
         UNCHANGED <<source, queue, window, batches, drafts>>,
         spoilt' = spoilt \/ spoilt' = spoilt \cup {t.at},
         entered' \in Seq(Entered), DOMAIN entered' = DOMAIN entered,
         \A i : Entries(i)' = Entries(i),
         \A m \in DOMAIN entered : m # t.at => entered'[m] = entered[m],
         pc \in {"observe", "bill", "retain", "status"} => AllRows(t.at)',
         pc \in {"bill", "retain", "status"} => Paired(t.at)'
  PROVE  IInv'
<1> DEFINE next == [t EXCEPT !.pc = pc]
<1>1. /\ t \in Commits /\ t.id \in Ids /\ Advanced(t) /\ t.at \in Entries(t.id)
  BY CommitTask DEF Advanced, Latest
<1>2. /\ Shape' /\ next.id = t.id /\ next.kind = "commit" /\ next.pc = pc /\ next.at = t.at
      /\ tasks' = (tasks \ {t}) \cup {next}
  BY CommitGoesOn
<1> HIDE DEF next
<1>3. Latest(t.id, t.at)'
  BY <1>1 DEF Advanced, Latest
<1>4. Advanced(next)'
  BY <1>1, <1>2, <1>3 DEF Advanced
<1>5. \A j \in Ids \ {t.id} : \A n \in Entries(j) : entered'[n] = entered[n]
  BY <1>1 DEF Entries
<1>6. spoilt \subseteq spoilt' /\ spoilt' \ spoilt \subseteq Entries(t.id)
  BY <1>1
<1>7. Progress' /\ Booked'
  BY <1>1, <1>2, <1>4, <1>5, <1>6, CommitAdvances
<1> QED BY <1>2, <1>7 DEF IInv, Tables

LEMMA RowsMapped ==
  ASSUME IInv, NEW t \in tasks, MapRows(t)
  PROVE  IInv'
<1> USE DEF MapRows, window, history
<1>1. /\ t.pc \in CommitSteps \ {"statement"} /\ "observe" \in CommitSteps \ {"statement"}
      /\ t.at \in DOMAIN entered
  BY CommitTask DEF CommitSteps
<1>2. entered[t.at] \in Entered
  BY <1>1 DEF IInv, Tables
<1>3. PICK w \in SUBSET RowNumbers :
        /\ entered' = [entered EXCEPT ![t.at].entries = w]
        /\ (w = RowNumbers /\ spoilt' = spoilt) \/ spoilt' = spoilt \cup {t.at}
  BY DEF InsertEntries
<1>4. /\ entered' \in Seq(Entered) /\ DOMAIN entered' = DOMAIN entered
      /\ \A i : Entries(i)' = Entries(i)
      /\ \A m \in DOMAIN entered : m # t.at => entered'[m] = entered[m]
      /\ entered'[t.at].entries = w
  <2> DEFINE r == [entered[t.at] EXCEPT !.entries = w]
  <2>1. r \in Entered /\ r.draft = entered[t.at].draft /\ r.entries = w
    BY <1>2 DEF Entered
  <2>2. entered' = [entered EXCEPT ![t.at] = r] /\ Tables
    BY <1>3, <2>1 DEF IInv
  <2> HIDE DEF MapRows, r
  <2> QED BY <1>1, <2>1, <2>2, StatementWritten
<1>5. AllRows(t.at)'
  BY <1>3, <1>4 DEF AllRows
<1> QED BY <1>1, <1>3, <1>4, <1>5, StatementAdvances

LEMMA Observed ==
  ASSUME IInv, NEW t \in tasks, Observe(t)
  PROVE  IInv'
<1> USE DEF Observe, window, history
<1>1. /\ t.pc \in CommitSteps \ {"statement"} /\ "bill" \in CommitSteps \ {"statement"}
      /\ t.at \in DOMAIN entered /\ AllRows(t.at)
  BY CommitTask DEF CommitSteps, Advanced
<1> DEFINE kept == entered[t.at].entries
<1>2. kept \in SUBSET RowNumbers
  <2>1. entered[t.at] \in Entered
    BY <1>1 DEF IInv, Tables
  <2> QED BY <2>1 DEF Entered
<1>3. PICK x \in SUBSET Zipped(kept) :
        /\ entered' = [entered EXCEPT ![t.at].evidence = x]
        /\ (x = Zipped(kept) /\ spoilt' = spoilt) \/ spoilt' = spoilt \cup {t.at}
  OBVIOUS
<1>4. x \in SUBSET (Nat \X RowNumbers)
  BY <1>2, ZippedType
<1>5. /\ entered' \in Seq(Entered) /\ DOMAIN entered' = DOMAIN entered
      /\ \A i : Entries(i)' = Entries(i)
      /\ \A m \in DOMAIN entered : m # t.at => entered'[m] = entered[m]
      /\ entered'[t.at].entries = kept /\ entered'[t.at].evidence = x
  <2>1. entered[t.at] \in Entered
    BY <1>1 DEF IInv, Tables
  <2> DEFINE r == [entered[t.at] EXCEPT !.evidence = x]
  <2>2. r \in Entered /\ r.draft = entered[t.at].draft /\ r.entries = kept /\ r.evidence = x
    BY <1>4, <2>1 DEF Entered
  <2>3. entered' = [entered EXCEPT ![t.at] = r] /\ Tables
    BY <1>3, <2>2 DEF IInv
  <2> HIDE DEF Observe, r
  <2> QED BY <1>1, <2>2, <2>3, StatementWritten
<1>6. AllRows(t.at)'
  BY <1>1, <1>3, <1>5 DEF AllRows
<1>7. Paired(t.at)'
  BY <1>1, <1>3, <1>5, ZippedInOrder DEF Paired, AllRows
<1> QED BY <1>1, <1>3, <1>5, <1>6, <1>7, StatementAdvances

(* A commit that ends leaves its draft settled. *)
LEMMA CommitEnds ==
  ASSUME IInv, NEW t \in tasks, t.pc \in CommitSteps \ {"statement"}, End(t),
         UNCHANGED <<source, queue, window, batches, entered>>,
         \/ /\ drafts' = [drafts EXCEPT ![t.id] = "committed"] /\ spoilt' = spoilt
            /\ t.pc = "status"
         \/ drafts' = drafts /\ spoilt' = spoilt \cup {t.at}
  PROVE  IInv'
<1>1. /\ t \in Commits /\ t.id \in Ids /\ t.id \in Drawn /\ Advanced(t) /\ Latest(t.id, t.at)
  BY CommitTask DEF Advanced
<1>2. t.at \in Entries(t.id) /\ \A i : Entries(i)' = Entries(i)
  BY <1>1 DEF Latest, Entries
<1>3. Tables'
  BY DEF IInv, Tables
<1>4. Shape'
  BY EndShape DEF IInv, Shape, Tasks, Drawn, window
<1>5. Commits' = (Commits \ {t}) \cup {}
  BY DEF End, Commits
<1>6. Settled(t.id)'
  <2>1. CASE drafts' = [drafts EXCEPT ![t.id] = "committed"] /\ spoilt' = spoilt /\ t.pc = "status"
    <3>1. drafts'[t.id] = "committed"
      BY <1>1, <2>1 DEF IInv, Tables
    <3>2. Latest(t.id, t.at)' /\ AllRows(t.at)' /\ Paired(t.at)' /\ t.at \in DOMAIN entered'
      BY <1>1, <1>2, <2>1 DEF Advanced, Latest, AllRows, Paired, Entries
    <3> QED BY <3>1, <3>2 DEF Settled
  <2>2. CASE drafts' = drafts /\ spoilt' = spoilt \cup {t.at}
    <3>1. Entries(t.id)' \subseteq spoilt'
      BY <1>1, <1>2, <2>2 DEF Latest
    <3>2. drafts'[t.id] # "committed"
      BY <1>1, <2>2 DEF Advanced
    <3> QED BY <3>1, <3>2 DEF Settled
  <2> QED BY <2>1, <2>2
<1>7. \A j \in Ids \ {t.id} : drafts'[j] = drafts[j]
  BY DEF IInv, Tables
<1>8. Progress' /\ Booked'
  <2> DEFINE U == {}
  <2>1. Commits' = (Commits \ {t}) \cup U /\ \A u \in U : FALSE
    BY <1>5
  <2>2. /\ \A j : \A n \in Entries(j) : entered'[n] = entered[n]
        /\ DOMAIN entered \subseteq DOMAIN entered'
        /\ spoilt \subseteq spoilt' /\ spoilt' \ spoilt \subseteq Entries(t.id)
    BY <1>2
  <2> HIDE DEF U
  <2> QED BY <1>1, <1>2, <1>6, <1>7, <2>1, <2>2, OneDraft
<1> QED BY <1>3, <1>4, <1>8 DEF IInv

LEMMA Finished ==
  ASSUME IInv, NEW t \in tasks, ClassifyBill(t) \/ RetainPdf(t) \/ MarkCommitted(t)
  PROVE  IInv'
<1> USE DEF rows, window, history
<1>1. /\ t.pc \in CommitSteps \ {"statement"} /\ {"retain", "status"} \subseteq CommitSteps \ {"statement"}
  BY DEF CommitSteps, ClassifyBill, RetainPdf, MarkCommitted
<1>2. t.id \in Ids /\ Advanced(t) /\ entered \in Seq(Entered)
  BY <1>1, CommitTask DEF IInv, Tables
<1>3. CASE entered' = entered /\ spoilt' = spoilt
    /\ ((ClassifyBill(t) /\ Step(t, "retain")) \/ RetainPdf(t))
  <2>1. PICK pc \in {"retain", "status"} : Step(t, pc)
    BY <1>3 DEF RetainPdf
  <2>2. t.pc \in {"bill", "retain"} /\ UNCHANGED <<source, queue, window, batches, drafts>>
    BY <1>3 DEF ClassifyBill, RetainPdf
  <2>3. AllRows(t.at)' /\ Paired(t.at)' /\ \A i : Entries(i)' = Entries(i)
    BY <1>2, <1>3, <2>2 DEF Advanced, AllRows, Paired, Entries
  <2> QED BY <1>1, <1>2, <1>3, <2>1, <2>2, <2>3, StatementAdvances
<1>4. CASE ClassifyBill(t) /\ End(t) /\ spoilt' = spoilt \cup {t.at}
  BY <1>1, <1>4, CommitEnds DEF ClassifyBill
<1>5. CASE MarkCommitted(t)
  <2>1. drafts' = [drafts EXCEPT ![t.id] = "committed"]
    BY <1>2, <1>5 DEF MarkCommitted, UpdateDraft, Advanced
  <2> QED BY <1>1, <1>5, <2>1, CommitEnds DEF MarkCommitted
<1> QED BY <1>3, <1>4, <1>5 DEF ClassifyBill, RetainPdf

-----------------------------------------------------------------------------
(* Quitting cuts every commit short. *)
LEMMA QuitKeeps ==
  ASSUME IInv, Quit
  PROVE  IInv'
<1> USE DEF Quit
<1>1. Commits' = {} /\ tasks' = {}
  BY DEF Commits
<1>2. \A i : Entries(i)' = Entries(i)
  BY DEF Entries
<1>3. Shape'
  <2>1. batches' \in Seq(Batch)
    <3>1. [left |-> {}, total |-> 0, finished |-> 0] \in Batch
      <4>1. Cardinality({}) = 0 /\ {} \in SUBSET Files
        BY FS_EmptySet
      <4> QED BY <4>1 DEF Batch
    <3> HIDE DEF Batch
    <3>2. DOMAIN batches = 1 .. Len(batches) /\ Len(batches) \in Nat
      BY DEF IInv, Shape
    <3> QED BY <3>1, <3>2
  <2> QED BY <2>1 DEF IInv, Shape, Drawn
<1>4. Booked'
  <2>1. ASSUME NEW i \in Ids PROVE Settled(i)'
    <3>1. \A n \in Entries(i) : n # 0
      BY DEF IInv, Tables, Entries
    <3>2. CASE ~Committing(i) /\ drafts[i] = "committed"
      <4>1. PICK n \in DOMAIN entered : Latest(i, n) /\ AllRows(n) /\ Paired(n)
        BY <3>2 DEF IInv, Booked, Settled
      <4>2. Latest(i, n)' /\ AllRows(n)' /\ Paired(n)'
        BY <1>2, <4>1 DEF Latest, AllRows, Paired
      <4> QED BY <3>2, <4>2 DEF Settled
    <3>3. CASE ~Committing(i) /\ drafts[i] # "committed"
      BY <1>2, <3>3 DEF IInv, Booked, Settled
    <3>4. CASE Committing(i)
      <4>1. PICK t \in Commits : t.id = i
        BY <3>4 DEF Committing, Commits
      <4>2. Advanced(t) /\ t \in tasks /\ t.kind = "commit"
        BY DEF IInv, Progress, Commits
      <4>3. drafts'[i] # "committed"
        BY <4>1, <4>2 DEF Advanced
      <4>4. Entries(i)' \subseteq spoilt'
        BY <1>2, <3>1, <4>1, <4>2 DEF Advanced, Latest
      <4> QED BY <4>3, <4>4 DEF Settled
    <3> QED BY <3>2, <3>3, <3>4
  <2> QED BY <2>1 DEF Booked
<1> QED BY <1>1, <1>3, <1>4 DEF IInv, Tables, Progress

-----------------------------------------------------------------------------
(* The theorems.                                                           *)

LEMMA NextIInv == IInv /\ [Next]_vars => IInv'
<1> SUFFICES ASSUME IInv, [Next]_vars PROVE IInv'
  OBVIOUS
<1>1. ASSUME NEW t \in tasks, TaskStep(t) PROVE IInv'
  BY <1>1, Checked, Worked, Staged, StatementStarted, RowsMapped, Observed, Finished DEF TaskStep
<1>2. ASSUME NEW i \in Drawn, UserOn(i) PROVE IInv'
  BY <1>2, Answered, Discarded, CommitStarted DEF UserOn
<1>3. CASE UNCHANGED vars
  <2>1. Shape' /\ Commits' = Commits
    BY <1>3 DEF vars, window, IInv, Shape, Drawn, Commits
  <2> QED BY <1>3, <2>1, Aside DEF vars, rows, history, IInv
<1> QED BY <1>1, <1>2, <1>3, Selected, Arrived, Dispatched, Answered, QuitKeeps DEF Next

LEMMA Inductive == Spec => []IInv
  BY InitIInv, NextIInv, PTL DEF Spec

(* A committed draft is in the ledger with every row, and each observation *)
(* pairs a row with its own entry, for any number of rows and any failed   *)
(* steps of this or another commit (commit_staged_draft).                  *)
THEOREM CommittedDraftsComplete == Spec => []CommittedIsComplete
<1>1. IInv => CommittedIsComplete
  <2> SUFFICES ASSUME IInv, NEW i \in Ids, drafts[i] = "committed"
               PROVE  \E n \in Entries(i) : AllRows(n) /\ Paired(n)
    BY DEF CommittedIsComplete, AllRows, Paired
  <2>1. ~Committing(i)
    BY DEF IInv, Progress, Advanced, Committing, Commits
  <2> QED BY <2>1 DEF IInv, Booked, Settled, Latest
<1> QED BY <1>1, Inductive, PTL

(* No draft is entered twice but by a commit that was cut short, whatever  *)
(* jobs, retries and dialogs run at once (stage_parse_pipeline,            *)
(* commit_staged_draft, discard_staged_draft).                             *)
THEOREM DraftsEnteredOnce == Spec => []EnteredOnce
<1>1. IInv => EnteredOnce
  <2> SUFFICES ASSUME IInv, NEW i, NEW m \in Entries(i), NEW n \in Entries(i), m < n
               PROVE  m \in spoilt
    BY DEF EnteredOnce
  <2>1. m \in DOMAIN entered /\ n \in DOMAIN entered /\ entered[m].draft = i
    BY DEF Entries
  <2>2. entered[m] \in Entered /\ m \in Nat /\ n \in Nat
    BY <2>1 DEF IInv, Tables
  <2>3. i \in Ids
    BY <2>1, <2>2 DEF Entered
  <2>4. CASE Committing(i)
    <3>1. PICK t \in Commits : t.id = i /\ Advanced(t)
      BY <2>4 DEF IInv, Progress, Committing, Commits
    <3> QED BY <2>2, <3>1 DEF Advanced, Latest
  <2>5. CASE ~Committing(i)
    BY <2>2, <2>3, <2>5 DEF IInv, Booked, Settled, Latest
  <2> QED BY <2>4, <2>5
<1> QED BY <1>1, Inductive, PTL

-----------------------------------------------------------------------------
(***************************************************************************)
(* Whether every document is accounted for and every draft readable: what  *)
(* holds beside IInv.                                                      *)
(***************************************************************************)

Histories ==
  /\ Len(source) <= MaxIds
  /\ fate \in [Ids -> {"open", "moved", "failed", "discarded", "dropped"}]
  /\ unprocessed \in [Ids -> AwaitingStatus \cup {"none", "resolved"}]
  /\ \A i \in Ids \ Drawn : unprocessed[i] = "none"

(* Document i needs nobody to hold it any more. *)
Safe(i) == fate[i] # "open" \/ drafts[i] = "pending_review" \/ Entries(i) # {}

(* Tasks that hold their document; a retry finds it held. *)
Holds(t) == t.pc # "check" /\ t.kind \notin {"retry", "reparse", "commit"}
Queued == {queue[n].id : n \in DOMAIN queue}
Held(i) ==
  \/ Safe(i) \/ i \in Queued \/ unprocessed[i] \in AwaitingStatus
  \/ \E t \in tasks : Holds(t) /\ t.id = i

(* A task that ends has left its document safe or says how it ended. *)
Orderly(t) ==
  /\ t.pc = "staged" => Safe(t.id)
  /\ t.pc = "blocked" => fate[t.id] # "open"
  /\ t.kind \in IntakeKinds <=> t.pc \in {"check", "unlock", "enqueue", "send"}

Accounted ==
  /\ \A i \in Drawn : Held(i)
  /\ \A t \in tasks : Orderly(t)

(* Documents on the direct way into the queue and through it, and those    *)
(* that wait for the user or were waiting when a command took them up.     *)
DirectKinds == IntakeKinds \cup {"job"}
WaitingKinds == {"submit", "retry", "reparse", "confirm"}
Direct == {t \in tasks : t.kind \in DirectKinds /\ t.pc # "check"}
Asked == {i \in Ids : unprocessed[i] \in AwaitingStatus} \cup sweep \cup {prompt}
Waiting == Asked \cup {t.id : t \in {u \in tasks : u.kind \in WaitingKinds}}

(* One task or place of the queue has a document on the direct way, which  *)
(* nothing else works on and which has no draft yet.                       *)
Owned ==
  /\ \A t, u \in Direct : t.id = u.id => t = u
  /\ \A m, n \in DOMAIN queue : queue[m].id = queue[n].id => m = n
  /\ \A t \in Direct : t.id \notin Queued /\ t.id \notin Waiting
  /\ \A i \in Queued : i \notin Waiting
  /\ \A t \in Direct : t.pc # "staged" => drafts[t.id] = "none"
  /\ \A i \in Queued : drafts[i] = "none"
  /\ \A i \in Ids \ Drawn : drafts[i] = "none"

Excused(i) == fate[i] = "discarded" \/ Entries(i) \cap spoilt # {}

(* A draft of document i could be shown, or cannot be made. *)
Ready(i) == i \in stored \/ Excused(i) \/ drafts[i] # "none"

Marking(i) == \E t \in tasks : t.kind = "commit" /\ t.pc = "status" /\ t.id = i

(* Drafts, the work about to stage one, and the documents that may expire. *)
Readable ==
  /\ \A i \in Ids : drafts[i] = "pending_review" => i \in stored \/ Excused(i)
  /\ \A t \in tasks : t.pc \in {"cycle", "draft"} => Ready(t.id)
  /\ retained \subseteq Ids
  /\ \A i \in retained : drafts[i] = "committed" \/ Excused(i) \/ Marking(i)

AInv == IInv /\ Histories /\ Accounted
PInv == AInv /\ Owned /\ Readable

(* What no step takes back. *)
Onward ==
  /\ \A i \in Ids :
       /\ fate[i] # "open" => fate'[i] # "open"
       /\ fate[i] = "discarded" => fate'[i] = "discarded"
       /\ drafts[i] = "pending_review" =>
            \/ drafts'[i] = "pending_review" \/ fate'[i] = "discarded"
            \/ drafts'[i] = "committed" /\ Entries(i) # {}
       /\ drafts[i] = "committed" => drafts'[i] = "committed"
       /\ Entries(i) \subseteq Entries(i)'
  /\ spoilt \subseteq spoilt'
  /\ Drawn \subseteq Drawn'

LEMMA OnwardKeeps ==
  ASSUME Onward, NEW i \in Ids
  PROVE  (Safe(i) => Safe(i)') /\ (Excused(i) => Excused(i)')
  BY DEF Onward, Safe, Excused

LEMMA InitPInv == Init => PInv
<1> SUFFICES ASSUME Init PROVE PInv
  OBVIOUS
<1>1. IInv
  BY InitIInv
<1>2. Histories
  BY StagingAssumption DEF Init, Histories
<1>3. Accounted /\ Owned /\ Readable
  BY DEF Init, Accounted, Owned, Readable, Drawn, Direct, Queued, Waiting, Asked
<1> QED BY <1>1, <1>2, <1>3 DEF PInv, AInv

LEMMA DrawnIds ==
  ASSUME IInv, Histories
  PROVE  Drawn \subseteq Ids /\ \A t \in tasks : t.pc # "check" => t.id \in Drawn
  BY StagingAssumption DEF IInv, Shape, Histories, Drawn, Ids

(* Steps after which drafts and statements are as they were. *)
LEMMA FateOnward ==
  ASSUME Histories, UNCHANGED <<drafts, entered>>, spoilt \subseteq spoilt', Drawn \subseteq Drawn',
         \/ fate' = fate
         \/ \E i \in Ids, how \in {"moved", "failed", "discarded", "dropped"} : Ends(i, how)
  PROVE  Onward /\ fate' \in [Ids -> {"open", "moved", "failed", "discarded", "dropped"}]
<1>1. \A i : Entries(i)' = Entries(i)
  BY DEF Entries
<1>2. CASE fate' = fate
  BY <1>1, <1>2 DEF Onward, Histories
<1>3. CASE \E i \in Ids, how \in {"moved", "failed", "discarded", "dropped"} : Ends(i, how)
  <2>1. PICK i \in Ids, how \in {"moved", "failed", "discarded", "dropped"} :
          fate' = [fate EXCEPT ![i] = IF fate[i] = "open" THEN how ELSE fate[i]]
    BY <1>3 DEF Ends
  <2>2. \A j \in Ids : fate'[j] = IF j = i /\ fate[i] = "open" THEN how ELSE fate[j]
    BY <2>1 DEF Histories
  <2>3. \A j \in Ids : (fate[j] # "open" => fate'[j] # "open")
                       /\ (fate[j] = "discarded" => fate'[j] = "discarded")
    BY <2>2
  <2>4. fate' \in [Ids -> {"open", "moved", "failed", "discarded", "dropped"}]
    BY <2>1 DEF Histories
  <2> QED BY <1>1, <2>3, <2>4 DEF Onward
<1> QED BY <1>2, <1>3

(* The steps that write neither a draft nor a statement. *)
LEMMA QuietOnward ==
  ASSUME IInv, Histories,
         \/ \E S \in Selections : SelectFiles(S)
         \/ \E b \in DOMAIN batches : \E f \in batches[b].left : NextFile(b, f)
         \/ \E f \in Mailed : Attachment(f)
         \/ Dispatch
         \/ \E i \in Drawn : \/ SubmitPassword(i) \/ RetryUnprocessed(i) \/ DiscardUnprocessed(i)
                             \/ CommitDraft(i)
         \/ \E i \in sweep : ReparseNext(i)
         \/ ReparseAll \/ ConfirmInstrument \/ CloseInstrumentModal
  PROVE  Onward /\ Histories'
<1> USE DEF rows, window, history
<1>1. UNCHANGED <<drafts, entered, spoilt, source>>
  BY DEF SelectFiles, NextFile, Attachment, Dispatch, SubmitPassword, RetryUnprocessed,
         DiscardUnprocessed, CommitDraft, ReparseNext, ReparseAll, ConfirmInstrument, CloseInstrumentModal
<1>2. fate' = fate \/ \E i \in Ids : Ends(i, "discarded")
  BY DrawnIds DEF SelectFiles, NextFile, Attachment, Dispatch, SubmitPassword, RetryUnprocessed,
         DiscardUnprocessed, CommitDraft, ReparseNext, ReparseAll, ConfirmInstrument, CloseInstrumentModal
<1>3. unprocessed' = unprocessed
      \/ \E i \in Drawn, as \in {"none", "resolved"} : unprocessed' = [unprocessed EXCEPT ![i] = as]
  BY DEF SelectFiles, NextFile, Attachment, Dispatch, SubmitPassword, RetryUnprocessed,
         DiscardUnprocessed, CommitDraft, ReparseNext, ReparseAll, ConfirmInstrument, CloseInstrumentModal
<1>4. Drawn' = Drawn
  BY <1>1 DEF Drawn
<1>5. Onward /\ fate' \in [Ids -> {"open", "moved", "failed", "discarded", "dropped"}]
  BY <1>1, <1>2, <1>4, FateOnward
<1> QED BY <1>1, <1>3, <1>4, <1>5 DEF Histories

LEMMA WorkOnward ==
  ASSUME IInv, Histories, NEW t \in tasks,
         \/ CheckDuplicate(t) \/ ResolvePassword(t) \/ Enqueue(t) \/ Send(t) \/ Parse(t) \/ Block(t)
         \/ CheckCycle(t) \/ Settle(t) \/ ClassifyBill(t) \/ RetainPdf(t)
  PROVE  Onward /\ Histories'
<1> USE DEF rows, window, history
<1> DEFINE draws == \/ CheckDuplicate(t) /\ source' # source
                    \/ Block(t) /\ BlockedAwaitingInstrument(t)
<1>1. UNCHANGED <<drafts, entered>> /\ (spoilt' = spoilt \/ spoilt' = spoilt \cup {t.at})
  BY DEF CheckDuplicate, ResolvePassword, Enqueue, Send, Parse, Block, BlockedAwaitingInstrument,
         CheckCycle, Settle, ClassifyBill, RetainPdf
<1>2. t.pc # "check" => t.id \in Ids
  BY DrawnIds
<1>3. fate' = fate \/ \E how \in {"moved", "failed", "discarded", "dropped"} : t.id \in Ids /\ Ends(t.id, how)
  BY <1>2 DEF CheckDuplicate, ResolvePassword, Enqueue, Send, Parse, Block, BlockedAwaitingInstrument,
         CheckCycle, Settle, ClassifyBill, RetainPdf
<1>4. source' = source \/ (NextId <= MaxIds /\ source' = Append(source, t.file))
  BY DEF CheckDuplicate, ResolvePassword, Enqueue, Send, Parse, Block, BlockedAwaitingInstrument,
         CheckCycle, Settle, ClassifyBill, RetainPdf
<1>5. Len(source') <= MaxIds /\ Drawn \subseteq Drawn'
  <2>1. source \in Seq(Files) /\ t.file \in Files /\ Len(source) <= MaxIds
    BY KindByStep DEF IInv, Shape, Histories, Tasks, Work
  <2>2. CASE source' = source
    BY <2>1, <2>2 DEF Drawn
  <2>3. CASE NextId <= MaxIds /\ source' = Append(source, t.file)
    BY <2>1, <2>3 DEF Drawn, NextId
  <2> QED BY <1>4, <2>2, <2>3
<1>6. unprocessed' = unprocessed
      \/ \E as \in AwaitingStatus \cup {"none", "resolved"} : \E i \in Drawn' :
            unprocessed' = [unprocessed EXCEPT ![i] = as]
  <2>1. t.pc # "check" => t.id \in Drawn'
    BY <1>5, DrawnIds
  <2>2. CASE ResolvePassword(t)
    BY <2>1, <2>2 DEF ResolvePassword, AwaitingStatus
  <2>3. CASE Block(t)
    <3>1. BlockedAwaitingInstrument(t) => NextId \in Drawn'
      BY DrawShape, KindByStep DEF BlockedAwaitingInstrument, IInv, Tasks, Work
    <3> QED BY <2>3, <3>1 DEF Block, BlockedAwaitingInstrument, AwaitingStatus
  <2>4. CASE Settle(t)
    BY <2>1, <2>4 DEF Settle
  <2>5. CASE RetainPdf(t)
    BY <2>1, <2>5 DEF RetainPdf
  <2>6. CASE ~(ResolvePassword(t) \/ Block(t) \/ Settle(t) \/ RetainPdf(t))
    BY <2>6 DEF CheckDuplicate, Enqueue, Send, Parse, CheckCycle, ClassifyBill
  <2> QED BY <2>2, <2>3, <2>4, <2>5, <2>6
<1>7. /\ unprocessed' \in [Ids -> AwaitingStatus \cup {"none", "resolved"}]
      /\ \A i \in Ids \ Drawn' : unprocessed'[i] = "none"
  BY <1>5, <1>6 DEF Histories
<1>8. Onward /\ fate' \in [Ids -> {"open", "moved", "failed", "discarded", "dropped"}]
  BY <1>1, <1>3, <1>5, FateOnward
<1> QED BY <1>5, <1>7, <1>8 DEF Histories

(* A draft appears, is discarded, or is marked. *)
LEMMA DraftOnward ==
  ASSUME IInv, Histories,
         \/ \E t \in tasks : StageDraft(t) \/ MarkCommitted(t)
         \/ \E i \in Drawn : DiscardDraft(i)
  PROVE  Onward /\ Histories'
<1> USE DEF rows, window, history
<1>1. UNCHANGED <<source, entered, spoilt, unprocessed>> /\ \A i : Entries(i)' = Entries(i)
  BY DEF StageDraft, MarkCommitted, DiscardDraft, Entries, Fail
<1>2. Drawn' = Drawn /\ drafts \in [Ids -> {"none", "pending_review", "committed"}]
  BY <1>1 DEF Drawn, IInv, Tables
<1>3. ASSUME NEW t \in tasks, StageDraft(t) PROVE Onward /\ fate' = fate
  BY <1>1, <1>2, <1>3 DEF StageDraft, InsertDraft, Onward, Fail
<1>4. ASSUME NEW t \in tasks, MarkCommitted(t) PROVE Onward /\ fate' = fate
  <2>1. t.pc = "status" /\ t.pc \in CommitSteps
    BY <1>4 DEF MarkCommitted, CommitSteps
  <2>2. t.id \in Ids /\ Entries(t.id) # {} /\ drafts[t.id] = "pending_review"
    BY <2>1, CommitTask DEF Advanced, Latest
  <2>3. drafts' = [drafts EXCEPT ![t.id] = "committed"]
    BY <1>4, <2>2 DEF MarkCommitted, UpdateDraft
  <2> QED BY <1>1, <1>2, <1>4, <2>2, <2>3 DEF MarkCommitted, Onward
<1>5. ASSUME NEW i \in Drawn, DiscardDraft(i) PROVE Onward /\ fate' = [fate EXCEPT ![i] = "discarded"]
  <2>1. i \in Ids /\ fate' = [fate EXCEPT ![i] = "discarded"] /\ drafts' = [drafts EXCEPT ![i] = "none"]
    BY <1>5, DrawnIds DEF DiscardDraft, DeleteDraft
  <2>2. drafts[i] = "pending_review"
    BY <1>5 DEF DiscardDraft, PendingReview
  <2>3. fate'[i] = "discarded" /\ \A j \in Ids \ {i} : fate'[j] = fate[j] /\ drafts'[j] = drafts[j]
    BY <1>2, <2>1 DEF Histories
  <2> QED BY <1>1, <1>2, <2>1, <2>2, <2>3 DEF Onward
<1>6. Onward /\ fate' \in [Ids -> {"open", "moved", "failed", "discarded", "dropped"}]
  BY <1>3, <1>4, <1>5 DEF Histories
<1> QED BY <1>1, <1>2, <1>6 DEF Histories

(* A statement is entered, or filled in. *)
LEMMA EntryOnward ==
  ASSUME IInv, Histories, NEW t \in tasks, WriteStatement(t) \/ MapRows(t) \/ Observe(t)
  PROVE  Onward /\ Histories'
<1> USE DEF rows, window, history
<1>1. UNCHANGED <<source, drafts, fate, unprocessed>> /\ spoilt \subseteq spoilt'
  BY DEF WriteStatement, MapRows, Observe
<1>2. \A n \in DOMAIN entered : n \in DOMAIN entered' /\ entered'[n].draft = entered[n].draft
  <2>1. entered \in Seq(Entered)
    BY DEF IInv, Tables
  <2>2. CASE WriteStatement(t)
    BY <2>1, <2>2 DEF WriteStatement, InsertStatement
  <2>3. CASE MapRows(t)
    <3>1. PICK x : entered' = [entered EXCEPT ![t.at].entries = x]
      BY <2>3 DEF MapRows, InsertEntries
    <3>2. t.pc \in CommitSteps /\ t.pc # "statement"
      BY <2>3 DEF MapRows, CommitSteps
    <3>3. t.at \in DOMAIN entered /\ entered[t.at] \in Entered
      BY <2>1, <3>2, CommitTask
    <3>4. [entered[t.at] EXCEPT !.entries = x].draft = entered[t.at].draft
      BY <3>3 DEF Entered
    <3> QED BY <2>1, <3>1, <3>3, <3>4
  <2>4. CASE Observe(t)
    <3>1. PICK x : entered' = [entered EXCEPT ![t.at].evidence = x]
      BY <2>4 DEF Observe
    <3>2. t.pc \in CommitSteps /\ t.pc # "statement"
      BY <2>4 DEF Observe, CommitSteps
    <3>3. t.at \in DOMAIN entered /\ entered[t.at] \in Entered
      BY <2>1, <3>2, CommitTask
    <3>4. [entered[t.at] EXCEPT !.evidence = x].draft = entered[t.at].draft
      BY <3>3 DEF Entered
    <3> QED BY <2>1, <3>1, <3>3, <3>4
  <2> QED BY <2>2, <2>3, <2>4
<1>3. \A i : Entries(i) \subseteq Entries(i)'
  BY <1>2 DEF Entries
<1>4. Drawn' = Drawn
  BY <1>1 DEF Drawn
<1> QED BY <1>1, <1>3, <1>4 DEF Onward, Histories

LEMMA QuitOnward ==
  ASSUME IInv, Histories, Quit
  PROVE  Onward /\ Histories'
<1>1. UNCHANGED <<source, drafts, entered, unprocessed>> /\ spoilt \subseteq spoilt'
  BY DEF Quit
<1>2. Drawn' = Drawn /\ \A i : Entries(i)' = Entries(i)
  BY <1>1 DEF Drawn, Entries
<1>3. \A i \in Ids : fate'[i] \in {fate[i], "dropped"} /\ (fate[i] # "open" => fate'[i] = fate[i])
  BY DEF Quit
<1>4. fate' \in [Ids -> {"open", "moved", "failed", "discarded", "dropped"}]
  BY DEF Quit, Histories
<1> QED BY <1>1, <1>2, <1>3, <1>4 DEF Onward, Histories

-----------------------------------------------------------------------------
(* Documents stay accounted for.                                           *)

LEMMA AccountedOn ==
  ASSUME IInv, Histories, Accounted, Onward, NEW N, tasks' \subseteq tasks \cup N,
         \A u \in N : Orderly(u)',
         \A i \in Drawn' \ Drawn : Held(i)',
         \A i \in Drawn : i \in Queued \/ unprocessed[i] \in AwaitingStatus => Held(i)',
         \A u \in tasks : Holds(u) => Held(u.id)'
  PROVE  Accounted'
<1>1. ASSUME NEW i \in Drawn' PROVE Held(i)'
  <2>1. CASE i \in Drawn /\ Safe(i)
    BY <2>1, DrawnIds, OnwardKeeps DEF Held
  <2>2. CASE i \in Drawn /\ ~Safe(i)
    BY <2>2 DEF Accounted, Held
  <2> QED BY <2>1, <2>2
<1>2. ASSUME NEW u \in tasks PROVE Orderly(u)'
  <2>1. Orderly(u)
    BY DEF Accounted
  <2>2. u.pc \in {"staged", "blocked"} => u.id \in Ids
    BY DrawnIds
  <2> QED BY <2>1, <2>2, OnwardKeeps DEF Orderly, Onward
<1> QED BY <1>1, <1>2 DEF Accounted

LEMMA Remains ==
  ASSUME NEW u \in tasks, Holds(u), u \in tasks'
  PROVE  Held(u.id)'
  BY DEF Held, Holds

(* A task takes its next step. *)
LEMMA StepAccounted ==
  ASSUME IInv, Histories, Accounted, Onward, NEW t \in tasks, NEW pc, Step(t, pc),
         t.pc # "check", pc # "check", queue' = queue,
         \A i \in Ids : unprocessed[i] \in AwaitingStatus => unprocessed'[i] \in AwaitingStatus \/ Safe(i)',
         \A i \in Drawn' \ Drawn : Held(i)',
         pc = "staged" => Safe(t.id)', pc = "blocked" => fate'[t.id] # "open",
         t.kind \in IntakeKinds <=> pc \in {"unlock", "enqueue", "send"}
  PROVE  Accounted'
<1> DEFINE next == [t EXCEPT !.pc = pc]
<1>1. next.id = t.id /\ next.kind = t.kind /\ next.pc = pc /\ tasks' = (tasks \ {t}) \cup {next}
  BY KindByStep DEF Step, IInv, Tasks, Work
<1> HIDE DEF next
<1>2. \A u \in {next} : Orderly(u)'
  BY <1>1 DEF Orderly
<1>3. \A i \in Drawn : i \in Queued \/ unprocessed[i] \in AwaitingStatus => Held(i)'
  BY DrawnIds DEF Held, Queued
<1>4. ASSUME NEW u \in tasks, Holds(u) PROVE Held(u.id)'
  <2>1. CASE u = t
    <3>1. Holds(next) /\ next \in tasks' /\ next.id = u.id
      BY <1>1, <1>4, <2>1 DEF Holds
    <3> QED BY <3>1 DEF Held, Holds
  <2>2. CASE u # t
    BY <1>1, <1>4, <2>2, Remains
  <2> QED BY <2>1, <2>2
<1> DEFINE N == {next}
<1>5. tasks' \subseteq tasks \cup N /\ \A u \in N : Orderly(u)'
  BY <1>1, <1>2
<1> HIDE DEF N
<1> QED BY <1>3, <1>4, <1>5, AccountedOn

(* A task ends. *)
LEMMA EndAccounted ==
  ASSUME IInv, Histories, Accounted, Onward, NEW t \in tasks, End(t), source' = source,
         Queued \subseteq Queued',
         \A i \in Ids : unprocessed[i] \in AwaitingStatus => unprocessed'[i] \in AwaitingStatus \/ Safe(i)',
         Holds(t) => Held(t.id)'
  PROVE  Accounted'
<1>1. \A i \in Drawn : i \in Queued \/ unprocessed[i] \in AwaitingStatus => Held(i)'
  BY DrawnIds DEF Held
<1>2. \A u \in tasks : Holds(u) => Held(u.id)'
  BY Remains DEF End
<1>3. \A i \in Drawn' \ Drawn : Held(i)'
  BY DEF Drawn
<1> DEFINE N == {}
<1>4. tasks' \subseteq tasks \cup N /\ \A u \in N : Orderly(u)'
  BY DEF End
<1> HIDE DEF N
<1> QED BY <1>1, <1>2, <1>3, <1>4, AccountedOn

(* A task starts. *)
LEMMA StartAccounted ==
  ASSUME IInv, Histories, Accounted, Onward,
         NEW kind, NEW id, NEW file, NEW batch, NEW pc, Start(kind, id, file, batch, pc),
         pc \in {"check", "parse", "statement"}, kind \in IntakeKinds <=> pc = "check",
         source' = source,
         \A i \in Queued : i \in Queued' \/ Held(i)',
         \A i \in Ids : unprocessed[i] \in AwaitingStatus => unprocessed'[i] \in AwaitingStatus \/ Held(i)'
  PROVE  Accounted'
<1> DEFINE new == [kind |-> kind, id |-> id, file |-> file, batch |-> batch, pc |-> pc, at |-> 0]
<1>1. tasks' = tasks \cup {new} /\ new.kind = kind /\ new.pc = pc
  BY DEF Start
<1> HIDE DEF new
<1>2. \A i \in Drawn : i \in Queued \/ unprocessed[i] \in AwaitingStatus => Held(i)'
  BY DrawnIds DEF Held
<1>3. \A u \in tasks : Holds(u) => Held(u.id)'
  BY <1>1, Remains
<1>4. \A i \in Drawn' \ Drawn : Held(i)'
  BY DEF Drawn
<1> DEFINE N == {new}
<1>5. tasks' \subseteq tasks \cup N /\ \A u \in N : Orderly(u)'
  BY <1>1 DEF Orderly
<1> HIDE DEF N
<1> QED BY <1>2, <1>3, <1>4, <1>5, AccountedOn

(* Nothing that is held is touched. *)
LEMMA AsideAccounted ==
  ASSUME IInv, Histories, Accounted, Onward, UNCHANGED <<source, queue, tasks>>,
         \A i \in Ids : unprocessed[i] \in AwaitingStatus => unprocessed'[i] \in AwaitingStatus \/ Safe(i)'
  PROVE  Accounted'
<1>1. \A i \in Drawn : i \in Queued \/ unprocessed[i] \in AwaitingStatus => Held(i)'
  BY DrawnIds DEF Held, Queued
<1>2. \A u \in tasks : Holds(u) => Held(u.id)'
  BY Remains
<1>3. \A i \in Drawn' \ Drawn : Held(i)'
  BY DEF Drawn
<1> DEFINE N == {}
<1>4. tasks' \subseteq tasks \cup N /\ \A u \in N : Orderly(u)'
  OBVIOUS
<1> HIDE DEF N
<1> QED BY <1>1, <1>2, <1>3, <1>4, AccountedOn

LEMMA IntakeAccounted ==
  ASSUME IInv, Histories, Accounted, Onward, NEW t \in tasks,
         CheckDuplicate(t) \/ ResolvePassword(t) \/ Enqueue(t) \/ Send(t)
  PROVE  Accounted'
<1> USE DEF rows, window, history
<1>1. t.pc # "check" => t.id \in Drawn /\ t.id \in Ids
  BY DrawnIds
<1>2. CASE CheckDuplicate(t) /\ End(t) /\ source' = source
  <2>1. UNCHANGED <<queue, unprocessed>> /\ ~Holds(t)
    BY <1>2 DEF CheckDuplicate, Holds
  <2> QED BY <1>2, <2>1, EndAccounted DEF Queued
<1>3. CASE CheckDuplicate(t) /\ ~(End(t) /\ source' = source)
  <2> DEFINE next == [t EXCEPT !.pc = "unlock", !.id = NextId]
  <2>1. /\ source' = Append(source, t.file) /\ tasks' = (tasks \ {t}) \cup {next} /\ t.pc = "check"
        /\ UNCHANGED <<queue, unprocessed>>
    BY <1>3 DEF CheckDuplicate
  <2>2. t.kind \in IntakeKinds /\ t \in Tasks
    BY <2>1, KindByStep DEF Accounted, Orderly, IInv
  <2>3. next.id = NextId /\ next.kind = t.kind /\ next.pc = "unlock"
    BY <2>2 DEF Tasks, Work
  <2> HIDE DEF next
  <2>4. Drawn' = Drawn \cup {NextId}
    BY <2>1, <2>2 DEF IInv, Shape, Drawn, NextId, Tasks, Work
  <2>5. \A i \in Drawn' \ Drawn : Held(i)'
    BY <2>1, <2>2, <2>3, <2>4 DEF Held, Holds, IntakeKinds
  <2>6. \A i \in Drawn : i \in Queued \/ unprocessed[i] \in AwaitingStatus => Held(i)'
    BY <2>1 DEF Held, Queued
  <2>7. \A u \in tasks : Holds(u) => Held(u.id)'
    BY <2>1, Remains DEF Holds
  <2> DEFINE N == {next}
  <2>8. tasks' \subseteq tasks \cup N /\ \A u \in N : Orderly(u)'
    BY <2>1, <2>2, <2>3 DEF Orderly
  <2> HIDE DEF N
  <2> QED BY <2>5, <2>6, <2>7, <2>8, AccountedOn
<1>4. CASE ResolvePassword(t)
  <2>1. CASE Step(t, "enqueue")
    <3>1. t.pc = "unlock" /\ UNCHANGED <<source, queue>>
      BY <1>4 DEF ResolvePassword
    <3>2. \A i \in Ids : unprocessed[i] \in AwaitingStatus => unprocessed'[i] \in AwaitingStatus
      BY <1>4 DEF ResolvePassword, AwaitingStatus, Histories
    <3>3. t.kind \in IntakeKinds
      BY <3>1 DEF Accounted, Orderly
    <3> QED BY <2>1, <3>1, <3>2, <3>3, StepAccounted DEF Drawn
  <2>2. CASE End(t) /\ unprocessed' = [unprocessed EXCEPT ![t.id] = "awaiting_password"]
    <3>1. Held(t.id)'
      BY <1>1, <1>4, <2>2 DEF ResolvePassword, Held, AwaitingStatus, Histories
    <3>2. \A i \in Ids : unprocessed[i] \in AwaitingStatus => unprocessed'[i] \in AwaitingStatus
      BY <2>2 DEF AwaitingStatus, Histories
    <3> QED BY <1>4, <2>2, <3>1, <3>2, EndAccounted DEF ResolvePassword, Queued
  <2> QED BY <1>4, <2>1, <2>2 DEF ResolvePassword
<1>5. CASE Enqueue(t)
  <2>1. CASE Step(t, "send")
    <3>1. t.kind \in IntakeKinds
      BY <1>5 DEF Enqueue, Accounted, Orderly
    <3> QED BY <1>5, <2>1, <3>1, StepAccounted DEF Enqueue, Drawn
  <2>2. CASE End(t) /\ Ends(t.id, IF t.kind = "upload" THEN "failed" ELSE "dropped")
    <3>1. fate'[t.id] # "open"
      BY <1>1, <1>5, <2>2 DEF Enqueue, Ends, Histories
    <3> QED BY <1>5, <2>2, <3>1, EndAccounted DEF Enqueue, Queued, Held, Safe
  <2> QED BY <1>5, <2>1, <2>2 DEF Enqueue
<1>6. CASE Send(t)
  <2>1. queue \in Seq([id: Nat, batch: Nat]) /\ [id |-> t.id, batch |-> t.batch] \in [id: Nat, batch: Nat]
    BY KindByStep DEF IInv, Shape, Tasks, Work
  <2>2. Queued' = Queued \cup {t.id}
    <3>1. queue' = Append(queue, [id |-> t.id, batch |-> t.batch])
      BY <1>6 DEF Send
    <3>2. DOMAIN queue' = DOMAIN queue \cup {Len(queue) + 1} /\ queue'[Len(queue) + 1].id = t.id
          /\ \A n \in DOMAIN queue : queue'[n] = queue[n]
      BY <2>1, <3>1
    <3> QED BY <3>2 DEF Queued
  <2> QED BY <1>6, <2>2, EndAccounted DEF Send, Held
<1> QED BY <1>2, <1>3, <1>4, <1>5, <1>6

LEMMA PipelineAccounted ==
  ASSUME IInv, Histories, Accounted, Onward, NEW t \in tasks,
         Parse(t) \/ Block(t) \/ CheckCycle(t) \/ StageDraft(t)
  PROVE  Accounted'
<1> USE DEF rows, window, history
<1>1. t.id \in Drawn /\ t.id \in Ids /\ t.kind \notin IntakeKinds /\ t.pc # "check"
  <2>1. t.pc \in {"parse", "block", "cycle", "draft"}
    BY DEF Parse, Block, CheckCycle, StageDraft
  <2> QED BY <2>1, DrawnIds DEF Accounted, Orderly
<1>2. CASE Block(t) /\ BlockedAwaitingInstrument(t)
  <2>1. source' = Append(source, t.file) /\ NextId <= MaxIds
        /\ unprocessed' = [unprocessed EXCEPT ![NextId] = "awaiting_instrument_confirmation"]
    BY <1>2 DEF BlockedAwaitingInstrument
  <2>2. t.file \in Files
    BY KindByStep DEF IInv, Tasks, Work
  <2>3. Drawn' = Drawn \cup {NextId} /\ NextId \in Ids
    BY <2>1, <2>2 DEF IInv, Shape, Drawn, NextId, Ids
  <2>4. \A i \in Drawn' \ Drawn : Held(i)'
    BY <2>1, <2>3 DEF Held, AwaitingStatus, Histories
  <2>5. fate'[t.id] # "open"
    BY <1>1, <1>2 DEF BlockedAwaitingInstrument, Ends, Histories
  <2>6. \A i \in Ids : unprocessed[i] \in AwaitingStatus => unprocessed'[i] \in AwaitingStatus
    BY <2>1 DEF AwaitingStatus, Histories
  <2> QED BY <1>1, <1>2, <2>4, <2>5, <2>6, StepAccounted DEF Block, BlockedAwaitingInstrument
<1>3. CASE ~(Block(t) /\ BlockedAwaitingInstrument(t))
  <2>1. UNCHANGED <<source, queue, unprocessed>>
    BY <1>3 DEF Parse, Block, CheckCycle, StageDraft
  <2>2. PICK pc : /\ Step(t, pc) /\ pc \in {"cycle", "block", "draft", "staged", "failed"}
                  /\ pc = "staged" => StageDraft(t) /\ InsertDraft(t.id)
    BY <1>3 DEF Parse, Block, CheckCycle, StageDraft, Fail
  <2>3. pc = "staged" => Safe(t.id)'
    BY <1>1, <2>2 DEF InsertDraft, Safe, IInv, Tables
  <2> QED BY <1>1, <2>1, <2>2, <2>3, StepAccounted DEF Drawn
<1> QED BY <1>2, <1>3

LEMMA SettleAccounted ==
  ASSUME IInv, Histories, Accounted, Onward, NEW t \in tasks, Settle(t)
  PROVE  Accounted'
<1>1. /\ t.pc \in {"staged", "blocked", "failed"} /\ End(t) /\ t.id \in Ids /\ UNCHANGED <<source, queue>>
      /\ t.kind # "commit" /\ Orderly(t)
  BY DrawnIds, KindByStep DEF Settle, Accounted, IInv, CommitSteps
<1>2. t.pc \in {"staged", "blocked"} => Safe(t.id)'
  BY <1>1, OnwardKeeps DEF Orderly, Safe
<1>3. Holds(t) => Held(t.id)'
  <2>1. CASE t.pc = "failed" /\ Holds(t)
    <3>1. t.kind \in {"job", "submit", "confirm"}
      BY <1>1, <2>1, KindByStep DEF Holds, Orderly, IInv, OtherKinds, PipelineKinds
    <3>2. fate'[t.id] # "open"
      BY <1>1, <2>1, <3>1 DEF Settle, Ends, Histories
    <3> QED BY <3>2 DEF Held, Safe
  <2> QED BY <1>1, <1>2, <2>1 DEF Held
<1>4. \A i \in Ids : unprocessed[i] \in AwaitingStatus => unprocessed'[i] \in AwaitingStatus \/ Safe(i)'
  BY <1>1, <1>2 DEF Settle, Histories
<1> QED BY <1>1, <1>3, <1>4, EndAccounted DEF Queued

LEMMA CommitAccounted ==
  ASSUME IInv, Histories, Accounted, Onward, NEW t \in tasks,
         \/ WriteStatement(t) \/ MapRows(t) \/ Observe(t) \/ ClassifyBill(t) \/ RetainPdf(t)
         \/ MarkCommitted(t)
  PROVE  Accounted'
<1> USE DEF rows, window, history
<1>1. t.pc \in CommitSteps
  BY DEF WriteStatement, MapRows, Observe, ClassifyBill, RetainPdf, MarkCommitted, CommitSteps
<1>2. t.kind = "commit" /\ t.id \in Ids /\ drafts[t.id] = "pending_review" /\ t \in Work({"commit"}, CommitSteps)
  BY <1>1, CommitTask DEF Commits, Advanced
<1>3. UNCHANGED <<source, queue>>
  BY DEF WriteStatement, MapRows, Observe, ClassifyBill, RetainPdf, MarkCommitted
<1>4. PICK N : /\ tasks \ {t} \subseteq tasks' /\ tasks' \subseteq tasks \cup N
               /\ \A u \in N : u.kind = "commit" /\ u.pc \in CommitSteps
  <2>1. CASE End(t)
    <3> DEFINE N == {}
    <3>1. tasks \ {t} \subseteq tasks' /\ tasks' \subseteq tasks \cup N /\ \A u \in N : FALSE
      BY <2>1 DEF End
    <3> HIDE DEF N
    <3> QED BY <3>1
  <2>2. CASE ~End(t)
    <3>1. PICK n \in Nat, pc \in CommitSteps : tasks' = (tasks \ {t}) \cup {[t EXCEPT !.pc = pc, !.at = n]}
      <4>1. CASE WriteStatement(t)
        <5>1. Len(entered) + 1 \in Nat /\ "entries" \in CommitSteps
          BY DEF IInv, Tables, CommitSteps
        <5>2. tasks' = (tasks \ {t}) \cup {[t EXCEPT !.pc = "entries", !.at = Len(entered) + 1]}
          BY <4>1 DEF WriteStatement
        <5> QED BY <5>1, <5>2
      <4>2. CASE ~WriteStatement(t)
        <5>1. PICK pc \in CommitSteps : Step(t, pc)
          BY <2>2, <4>2 DEF MapRows, Observe, ClassifyBill, RetainPdf, MarkCommitted, CommitSteps
        <5>2. [t EXCEPT !.pc = pc] = [t EXCEPT !.pc = pc, !.at = t.at] /\ t.at \in Nat
          BY <1>2 DEF Work
        <5> QED BY <5>1, <5>2 DEF Step
      <4> QED BY <4>1, <4>2
    <3>2. [t EXCEPT !.pc = pc, !.at = n].kind = "commit" /\ [t EXCEPT !.pc = pc, !.at = n].pc = pc
      BY <1>2 DEF Work
    <3> DEFINE N == {[t EXCEPT !.pc = pc, !.at = n]}
    <3>3. /\ tasks \ {t} \subseteq tasks' /\ tasks' \subseteq tasks \cup N
          /\ \A u \in N : u.kind = "commit" /\ u.pc = pc
      BY <3>1, <3>2
    <3> HIDE DEF N
    <3> QED BY <3>3 DEF CommitSteps
  <2> QED BY <2>1, <2>2
<1>5. \A u \in N : Orderly(u)'
  BY <1>4 DEF Orderly, IntakeKinds, CommitSteps
<1>6. \A u \in tasks : Holds(u) => Held(u.id)'
  BY <1>2, <1>4, Remains DEF Holds
<1>7. Safe(t.id)'
  BY <1>2, OnwardKeeps DEF Safe
<1>8. unprocessed' = unprocessed \/ unprocessed' = [unprocessed EXCEPT ![t.id] = "resolved"]
  BY DEF WriteStatement, MapRows, Observe, ClassifyBill, RetainPdf, MarkCommitted
<1>9. \A i \in Drawn : i \in Queued \/ unprocessed[i] \in AwaitingStatus => Held(i)'
  BY <1>3, <1>7, <1>8, DrawnIds DEF Held, Queued, Histories
<1>10. \A i \in Drawn' \ Drawn : Held(i)'
  BY <1>3 DEF Drawn
<1> QED BY <1>4, <1>5, <1>6, <1>9, <1>10, AccountedOn

LEMMA StartHolds ==
  ASSUME NEW kind \in {"job", "submit"}, NEW id, NEW file, NEW batch, Start(kind, id, file, batch, "parse")
  PROVE  Held(id)'
<1> DEFINE new == [kind |-> kind, id |-> id, file |-> file, batch |-> batch, pc |-> "parse", at |-> 0]
<1>1. new \in tasks' /\ new.id = id /\ new.pc = "parse" /\ new.kind = kind
  BY DEF Start
<1> HIDE DEF new
<1> QED BY <1>1 DEF Held, Holds

(* What arrives, what the user asks for, and what the dispatcher starts. *)
LEMMA RequestsAccounted ==
  ASSUME IInv, Histories, Accounted, Onward,
         \/ \E S \in Selections : SelectFiles(S)
         \/ \E b \in DOMAIN batches : \E f \in batches[b].left : NextFile(b, f)
         \/ \E f \in Mailed : Attachment(f)
         \/ \E i \in Drawn : UserOn(i)
         \/ \E i \in sweep : ReparseNext(i)
         \/ ReparseAll \/ ConfirmInstrument \/ CloseInstrumentModal
  PROVE  Accounted'
<1> USE DEF rows, window, history
<1>1. ASSUME UNCHANGED <<source, queue, unprocessed>>,
             \/ tasks' = tasks
             \/ \E kind, id, file, batch, pc :
                  /\ Start(kind, id, file, batch, pc) /\ pc \in {"check", "parse", "statement"}
                  /\ kind \in IntakeKinds <=> pc = "check"
      PROVE  Accounted'
  BY <1>1, StartAccounted, AsideAccounted DEF Queued
<1>2. CASE \/ \E S \in Selections : SelectFiles(S)
           \/ \E i \in Drawn : DiscardDraft(i)
           \/ ReparseAll \/ CloseInstrumentModal
  BY <1>1, <1>2 DEF SelectFiles, DiscardDraft, ReparseAll, CloseInstrumentModal
<1>3. CASE \E b \in DOMAIN batches : \E f \in batches[b].left : NextFile(b, f)
  BY <1>1, <1>3 DEF NextFile, IntakeKinds
<1>4. CASE \E f \in Mailed : Attachment(f)
  BY <1>1, <1>4 DEF Attachment, IntakeKinds
<1>5. CASE \E i \in Drawn : RetryUnprocessed(i)
  BY <1>1, <1>5 DEF RetryUnprocessed, Retry, IntakeKinds
<1>6. CASE \E i \in sweep : ReparseNext(i)
  BY <1>1, <1>6 DEF ReparseNext, Retry, IntakeKinds
<1>7. CASE ConfirmInstrument
  BY <1>1, <1>7 DEF ConfirmInstrument, IntakeKinds
<1>8. CASE \E i \in Drawn : CommitDraft(i)
  BY <1>1, <1>8 DEF CommitDraft, IntakeKinds
<1>9. ASSUME NEW i \in Drawn, DiscardUnprocessed(i) PROVE Accounted'
  <2>1. i \in Ids /\ Ends(i, "discarded") /\ UNCHANGED <<source, queue, tasks>>
        /\ unprocessed' = [unprocessed EXCEPT ![i] = "none"]
    BY <1>9, DrawnIds DEF DiscardUnprocessed
  <2>2. Safe(i)'
    BY <2>1 DEF Ends, Safe, Histories
  <2> QED BY <2>1, <2>2, AsideAccounted DEF Histories
<1>10. ASSUME NEW i \in Drawn, SubmitPassword(i) PROVE Accounted'
  <2>1. /\ i \in Ids /\ UNCHANGED <<source, queue>> /\ Start("submit", i, source[i], 0, "parse")
        /\ unprocessed' = [unprocessed EXCEPT ![i] = "resolved"]
    BY <1>10, DrawnIds DEF SubmitPassword
  <2>2. Held(i)'
    BY <2>1, StartHolds
  <2>3. \A j \in Ids : unprocessed[j] \in AwaitingStatus => unprocessed'[j] \in AwaitingStatus \/ Held(j)'
    BY <2>1, <2>2 DEF Histories
  <2> QED BY <2>1, <2>3, StartAccounted DEF Queued, IntakeKinds
<1> QED BY <1>2, <1>3, <1>4, <1>5, <1>6, <1>7, <1>8, <1>9, <1>10 DEF UserOn

LEMMA DispatchAccounted ==
  ASSUME IInv, Histories, Accounted, Onward, Dispatch
  PROVE  Accounted'
<1>1. PICK i, f, n : Start("job", i, f, n, "parse") /\ i = Head(queue).id
  BY DEF Dispatch
<1>2. queue' = Tail(queue) /\ queue # <<>> /\ UNCHANGED <<source, unprocessed>>
  BY DEF Dispatch, rows
<1>3. Held(i)'
  BY <1>1, StartHolds
<1>4. queue \in Seq([id: Nat, batch: Nat])
  BY DEF IInv, Shape
<1>5. \A j \in Queued : j \in Queued' \/ Held(j)'
  <2>1. ASSUME NEW k \in DOMAIN queue
        PROVE  k = 1 \/ (k - 1 \in DOMAIN Tail(queue) /\ Tail(queue)[k - 1] = queue[k])
    BY <1>4
  <2>2. Head(queue) = queue[1]
    BY <1>2, <1>4
  <2> QED BY <1>1, <1>2, <1>3, <2>1, <2>2 DEF Queued
<1> QED BY <1>1, <1>2, <1>5, StartAccounted DEF IntakeKinds

LEMMA QuitAccounted ==
  ASSUME IInv, Histories, Accounted, Onward, Quit
  PROVE  Accounted'
<1>1. tasks' = {} /\ queue' = <<>> /\ UNCHANGED <<source, unprocessed, drafts, entered>> /\ Drawn' = Drawn
  BY DEF Quit, Drawn
<1>2. ASSUME NEW i \in Drawn PROVE Held(i)'
  <2>1. i \in Ids /\ Held(i)
    BY DrawnIds DEF Accounted
  <2>2. CASE Safe(i)
    BY <2>1, <2>2, OnwardKeeps DEF Held
  <2>3. CASE unprocessed[i] \in AwaitingStatus
    BY <1>1, <2>3 DEF Held
  <2>4. CASE i \in InMemory /\ ~Safe(i) /\ unprocessed[i] \notin AwaitingStatus
    <3>1. ~Committing(i)
      BY <2>4 DEF IInv, Progress, Advanced, Committing, Commits, Safe
    <3>2. fate'[i] = "dropped"
      BY <2>1, <2>4, <3>1 DEF Quit, Safe
    <3> QED BY <3>2 DEF Held, Safe
  <2> QED BY <2>1, <2>2, <2>3, <2>4 DEF Held, InMemory, Queued
<1>3. \A u \in tasks' : FALSE
  BY <1>1
<1> QED BY <1>1, <1>2, <1>3 DEF Accounted

LEMMA Onwards ==
  ASSUME IInv, Histories, Next
  PROVE  Onward /\ Histories'
<1>1. ASSUME NEW t \in tasks, TaskStep(t) PROVE Onward /\ Histories'
  BY <1>1, WorkOnward, DraftOnward, EntryOnward DEF TaskStep
<1>2. ASSUME NEW i \in Drawn, UserOn(i) PROVE Onward /\ Histories'
  BY <1>2, QuietOnward, DraftOnward DEF UserOn
<1> QED BY <1>1, <1>2, QuietOnward, QuitOnward DEF Next

LEMMA NextAInv == AInv /\ [Next]_vars => AInv'
<1> SUFFICES ASSUME AInv, [Next]_vars PROVE Histories' /\ Accounted'
  BY NextIInv DEF AInv
<1>1. CASE Next
  <2>1. Onward /\ Histories'
    BY <1>1, Onwards DEF AInv
  <2>2. ASSUME NEW t \in tasks, TaskStep(t) PROVE Accounted'
    BY <2>1, <2>2, IntakeAccounted, PipelineAccounted, SettleAccounted, CommitAccounted DEF TaskStep, AInv
  <2> QED BY <1>1, <2>1, <2>2, RequestsAccounted, DispatchAccounted, QuitAccounted DEF Next, AInv
<1>2. CASE UNCHANGED vars
  BY <1>2 DEF vars, rows, history, AInv, Histories, Accounted, Drawn, Held, Holds, Safe, Orderly, Entries, Queued
<1> QED BY <1>1, <1>2

(* Whatever jobs, retries, dialogs, failures and quits come together, each *)
(* document drawn is with a task, in the queue, waiting for the user, a    *)
(* draft or in the ledger until it is refused, fails, is discarded or the  *)
(* program ends on it (ingest, the queue, stage_parse_pipeline and its     *)
(* callers, commit_staged_draft).                                          *)
THEOREM DocumentsAccountedFor == Spec => []StatementAccountedFor
<1>1. AInv => StatementAccountedFor
  BY DEF AInv, Accounted, Held, Safe, Queued, InMemory, StatementAccountedFor
<1>2. Init => AInv
  BY InitPInv DEF PInv
<1> QED BY <1>1, <1>2, NextAInv, PTL DEF Spec

-----------------------------------------------------------------------------
(* A document on the direct way has one owner and no draft.                *)

LEMMA OwnersDrawn ==
  ASSUME IInv, Histories
  PROVE  /\ \A t \in Direct : t.id \in Drawn /\ t.id \in Ids
         /\ Queued \subseteq Drawn
  BY DrawnIds DEF Direct, Queued, IInv, Shape

(* Owners only go, and nobody is asked about what is owned. *)
LEMMA FewerOwners ==
  ASSUME IInv, Histories, Owned, Direct' \subseteq Direct, queue' = queue \/ queue' = <<>>,
         \A i \in Waiting' : i \in Waiting \/ (i \notin Queued' /\ \A u \in Direct' : u.id # i),
         \A i \in Ids : drafts[i] = "none" => drafts'[i] = "none",
         Drawn \subseteq Drawn'
  PROVE  Owned'
<1>1. Queued' \subseteq Queued
  BY DEF Queued
<1>2. \A m, n \in DOMAIN queue' : queue'[m].id = queue'[n].id => m = n
  BY DEF Owned
<1>3. \A i \in Queued' : i \in Ids
  BY <1>1, OwnersDrawn, DrawnIds
<1> QED BY <1>1, <1>2, <1>3, OwnersDrawn DEF Owned

(* A task on its way takes its next step. *)
LEMMA OwnerSteps ==
  ASSUME IInv, Histories, Owned, NEW t \in tasks, t.kind # "commit", t.pc \notin {"check", "staged"},
         NEW pc, pc # "check", Step(t, pc), queue' = queue, Drawn \subseteq Drawn',
         \A i \in Asked' : i \in Asked \/ i \notin Drawn,
         \A i \in Ids : drafts[i] = "none" /\ drafts'[i] # "none" => i = t.id /\ pc = "staged"
  PROVE  Owned'
<1> DEFINE next == [t EXCEPT !.pc = pc]
<1>1. /\ next.id = t.id /\ next.kind = t.kind /\ next.pc = pc
      /\ tasks' = (tasks \ {t}) \cup {next} /\ t.id \in Drawn /\ t.id \in Ids
  BY KindByStep, DrawnIds DEF Step, IInv, Tasks, Work
<1> HIDE DEF next
<1>2. t.kind \in DirectKinds \/ t.kind \in WaitingKinds
  BY KindByStep DEF IInv, OtherKinds, PipelineKinds, DirectKinds, WaitingKinds
<1>3. Queued' = Queued
  BY DEF Queued
<1>4. \A i \in Waiting' : i \in Waiting \/ i \notin Drawn
  BY <1>1 DEF Waiting
<1>5. \A u \in Direct' : u \in Direct \ {t} \/ (u = next /\ t \in Direct)
  BY <1>1 DEF Direct
<1>6. \A u \in Direct' : u.id \in Drawn /\ u.id \in Ids /\ u.id \notin Queued /\ u.id \notin Waiting
  BY <1>1, <1>5, OwnersDrawn DEF Owned
<1>7. \A u, v \in Direct' : u.id = v.id => u = v
  BY <1>1, <1>5 DEF Owned
<1>8. \A u \in Direct' : u.id \notin Queued' /\ u.id \notin Waiting'
  BY <1>3, <1>4, <1>6
<1>9. t.id \notin Queued /\ \A u \in Direct \ {t} : u.id # t.id
  <2>1. CASE t \in Direct
    BY <2>1 DEF Owned
  <2>2. CASE t.kind \in WaitingKinds
    BY <2>2 DEF Owned, Waiting
  <2> QED BY <1>2, <2>1, <2>2 DEF Direct
<1>10. \A u \in Direct' : u.pc # "staged" => drafts'[u.id] = "none"
  BY <1>1, <1>5, <1>6, <1>9, OwnersDrawn DEF Owned
<1>11. \A i \in Queued' : drafts'[i] = "none" /\ i \notin Waiting'
  BY <1>3, <1>4, <1>9, OwnersDrawn, DrawnIds DEF Owned
<1>12. \A i \in Ids \ Drawn' : drafts'[i] = "none"
  BY <1>1 DEF Owned
<1>13. \A m, n \in DOMAIN queue' : queue'[m].id = queue'[n].id => m = n
  BY DEF Owned
<1> QED BY <1>7, <1>8, <1>10, <1>11, <1>12, <1>13 DEF Owned

(* A command starts about a document the user was asked about, a commit,   *)
(* or a check of a file that is no document yet.                           *)
LEMMA StartOwned ==
  ASSUME IInv, Histories, Owned, NEW kind, NEW id, NEW file, NEW batch, NEW pc,
         Start(kind, id, file, batch, pc),
         pc = "check" \/ kind = "commit" \/ (kind \in WaitingKinds /\ id \in Asked),
         kind \in WaitingKinds => id \in Asked,
         UNCHANGED <<source, queue, drafts>>, Asked' \subseteq Asked
  PROVE  Owned'
<1> DEFINE new == [kind |-> kind, id |-> id, file |-> file, batch |-> batch, pc |-> pc, at |-> 0]
<1>1. tasks' = tasks \cup {new} /\ new.kind = kind /\ new.pc = pc /\ new.id = id
  BY DEF Start
<1> HIDE DEF new
<1>2. Direct' \subseteq Direct
  BY <1>1 DEF Direct, DirectKinds, WaitingKinds, IntakeKinds
<1>3. Waiting' \subseteq Waiting
  BY <1>1 DEF Waiting
<1> QED BY <1>2, <1>3, FewerOwners DEF Drawn

LEMMA EndOwned ==
  ASSUME IInv, Histories, Owned, NEW t \in tasks, End(t), UNCHANGED <<source, queue>>,
         Asked' \subseteq Asked \cup (IF t \in Direct THEN {t.id} ELSE {}),
         \A i \in Ids : drafts[i] = "none" => drafts'[i] = "none"
  PROVE  Owned'
<1>1. Direct' = Direct \ {t} /\ Queued' = Queued
  BY DEF Direct, End, Queued
<1>2. \A i \in Waiting' : i \in Waiting \/ (t \in Direct /\ i = t.id)
  BY DEF Waiting, End
<1>3. t \in Direct => t.id \notin Queued' /\ \A u \in Direct' : u.id # t.id
  BY <1>1 DEF Owned
<1> QED BY <1>1, <1>2, <1>3, FewerOwners DEF Drawn

LEMMA IntakeOwned ==
  ASSUME IInv, Histories, Accounted, Owned, NEW t \in tasks,
         CheckDuplicate(t) \/ ResolvePassword(t) \/ Enqueue(t) \/ Send(t)
  PROVE  Owned'
<1> USE DEF rows, window, history
<1>1. t.pc # "check" => t.id \in Drawn /\ t.id \in Ids
  BY DrawnIds
<1>2. t.kind # "commit" /\ t \in Tasks
  BY KindByStep DEF CheckDuplicate, ResolvePassword, Enqueue, Send, IInv, CommitSteps
<1>3. UNCHANGED <<drafts, sweep, prompt>>
  BY DEF CheckDuplicate, ResolvePassword, Enqueue, Send
<1>4. CASE CheckDuplicate(t) /\ End(t) /\ source' = source
  BY <1>3, <1>4, EndOwned DEF CheckDuplicate, Asked
<1>5. CASE CheckDuplicate(t) /\ ~(End(t) /\ source' = source)
  <2> DEFINE next == [t EXCEPT !.pc = "unlock", !.id = NextId]
  <2>1. /\ source' = Append(source, t.file) /\ tasks' = (tasks \ {t}) \cup {next} /\ t.pc = "check"
        /\ UNCHANGED <<queue, unprocessed>> /\ NextId <= MaxIds
    BY <1>5 DEF CheckDuplicate
  <2>2. t.kind \in IntakeKinds
    BY <2>1 DEF Accounted, Orderly
  <2>3. next.id = NextId /\ next.kind = t.kind /\ next.pc = "unlock"
    BY <1>2 DEF Tasks, Work
  <2> HIDE DEF next
  <2>4. Drawn' = Drawn \cup {NextId} /\ NextId \notin Drawn /\ NextId \in Ids /\ NextId # 0
    BY <1>2, <2>1 DEF IInv, Shape, Drawn, NextId, Tasks, Work, Ids
  <2>5. Direct' = Direct \cup {next} /\ Queued' = Queued
    BY <2>1, <2>2, <2>3 DEF Direct, DirectKinds, Queued
  <2>6. Waiting' \subseteq Waiting
    BY <1>3, <2>1, <2>2, <2>3 DEF Waiting, Asked, WaitingKinds, IntakeKinds
  <2>7. \A u \in Direct : u.id # NextId
    BY <2>4, OwnersDrawn
  <2>8. NextId \notin Waiting' /\ NextId \notin Queued
    <3>1. NextId \notin Asked'
      <4>1. unprocessed[NextId] \notin AwaitingStatus
        BY <2>4 DEF Histories, AwaitingStatus
      <4> QED BY <1>3, <2>1, <2>4, <4>1 DEF Asked, IInv, Shape
    <3>2. \A u \in tasks' : u.kind \in WaitingKinds => u.id # NextId
      <4>1. \A u \in tasks : u.kind \in WaitingKinds => u.id \in Drawn
        BY DrawnIds DEF Accounted, Orderly, IntakeKinds, WaitingKinds
      <4> QED BY <2>1, <2>2, <2>3, <2>4, <4>1 DEF IntakeKinds, WaitingKinds
    <3> QED BY <2>4, <3>1, <3>2, OwnersDrawn DEF Waiting
  <2> QED BY <1>3, <2>1, <2>3, <2>4, <2>5, <2>6, <2>7, <2>8 DEF Owned
<1>6. CASE ResolvePassword(t)
  <2>1. t.pc = "unlock" /\ UNCHANGED <<source, queue>> /\ Drawn' = Drawn
    BY <1>6 DEF ResolvePassword, Drawn
  <2>2. CASE Step(t, "enqueue") /\ unprocessed' = unprocessed
    <3>1. Asked' = Asked
      BY <1>3, <2>2 DEF Asked
    <3> QED BY <1>2, <1>3, <2>1, <2>2, <3>1, OwnerSteps
  <2>3. CASE End(t) /\ unprocessed' = [unprocessed EXCEPT ![t.id] = "awaiting_password"]
    <3>1. t \in Direct
      BY <2>1 DEF Accounted, Orderly, Direct, DirectKinds
    <3>2. Asked' \subseteq Asked \cup {t.id}
      BY <1>3, <2>3 DEF Asked, Histories
    <3> QED BY <1>3, <2>1, <2>3, <3>1, <3>2, EndOwned
  <2> QED BY <1>6, <2>2, <2>3 DEF ResolvePassword
<1>7. CASE Enqueue(t)
  <2>1. t.pc = "enqueue" /\ UNCHANGED <<source, queue, unprocessed>> /\ (Step(t, "send") \/ End(t))
    BY <1>7 DEF Enqueue
  <2>2. Asked' = Asked /\ Drawn' = Drawn
    BY <1>3, <2>1 DEF Asked, Drawn
  <2> QED BY <1>2, <1>3, <2>1, <2>2, OwnerSteps, EndOwned
<1>8. CASE Send(t)
  <2>1. /\ t.pc = "send" /\ UNCHANGED <<source, unprocessed>> /\ End(t)
        /\ queue' = Append(queue, [id |-> t.id, batch |-> t.batch])
    BY <1>8 DEF Send
  <2>2. queue \in Seq([id: Nat, batch: Nat]) /\ [id |-> t.id, batch |-> t.batch] \in [id: Nat, batch: Nat]
    BY <1>2 DEF IInv, Shape, Tasks, Work
  <2> DEFINE last == Len(queue) + 1
  <2>3. /\ DOMAIN queue' = DOMAIN queue \cup {last} /\ queue'[last].id = t.id
        /\ \A n \in DOMAIN queue : queue'[n] = queue[n]
    BY <2>1, <2>2
  <2> HIDE DEF last
  <2>4. t \in Direct
    BY <2>1 DEF Accounted, Orderly, Direct, DirectKinds
  <2>5. Queued' = Queued \cup {t.id} /\ Direct' = Direct \ {t} /\ Drawn' = Drawn
    BY <2>1, <2>3 DEF Queued, Direct, End, Drawn
  <2>6. Waiting' \subseteq Waiting
    BY <1>3, <2>1 DEF Waiting, Asked, End
  <2>7. \A m, n \in DOMAIN queue' : queue'[m].id = queue'[n].id => m = n
    BY <2>3, <2>4 DEF Owned, Queued
  <2> QED BY <1>3, <2>1, <2>4, <2>5, <2>6, <2>7 DEF Owned
<1> QED BY <1>4, <1>5, <1>6, <1>7, <1>8

LEMMA PipelineOwned ==
  ASSUME IInv, Histories, Owned, NEW t \in tasks,
         Parse(t) \/ Block(t) \/ CheckCycle(t) \/ StageDraft(t)
  PROVE  Owned'
<1> USE DEF rows, window, history
<1>1. t.kind # "commit" /\ t.pc \notin {"check", "staged"} /\ t \in Tasks /\ queue' = queue /\ sweep' = sweep
  BY KindByStep DEF Parse, Block, BlockedAwaitingInstrument, CheckCycle, StageDraft, IInv, CommitSteps
<1>2. CASE Block(t) /\ BlockedAwaitingInstrument(t)
  <2>1. /\ source' = Append(source, t.file) /\ NextId <= MaxIds /\ prompt' = NextId
        /\ unprocessed' = [unprocessed EXCEPT ![NextId] = "awaiting_instrument_confirmation"]
        /\ Step(t, "blocked") /\ drafts' = drafts
    BY <1>2 DEF BlockedAwaitingInstrument, Block
  <2>2. Drawn' = Drawn \cup {NextId} /\ NextId \notin Drawn
    BY <1>1, <2>1 DEF IInv, Shape, Drawn, NextId, Tasks, Work
  <2>3. \A i \in Asked' : i \in Asked \/ i \notin Drawn
    BY <1>1, <2>1, <2>2 DEF Asked, Histories
  <2> QED BY <1>1, <2>1, <2>2, <2>3, OwnerSteps
<1>3. CASE ~(Block(t) /\ BlockedAwaitingInstrument(t))
  <2>1. UNCHANGED <<source, unprocessed, prompt>>
    BY <1>3 DEF Parse, Block, CheckCycle, StageDraft
  <2>2. PICK pc : /\ Step(t, pc) /\ pc \in {"cycle", "block", "draft", "staged", "failed"}
                  /\ drafts' = drafts \/ (pc = "staged" /\ InsertDraft(t.id))
    BY <1>3 DEF Parse, Block, CheckCycle, StageDraft, Fail
  <2>3. \A i \in Ids : drafts[i] = "none" /\ drafts'[i] # "none" => i = t.id /\ pc = "staged"
    BY <2>2 DEF InsertDraft, IInv, Tables
  <2>4. Asked' = Asked /\ Drawn' = Drawn
    BY <1>1, <2>1 DEF Asked, Drawn
  <2> QED BY <1>1, <2>2, <2>3, <2>4, OwnerSteps
<1> QED BY <1>2, <1>3

LEMMA SettleOwned ==
  ASSUME IInv, Histories, Owned, NEW t \in tasks, Settle(t)
  PROVE  Owned'
<1>1. /\ End(t) /\ UNCHANGED <<source, queue, drafts, sweep>> /\ prompt' \in {0, prompt}
      /\ unprocessed' = unprocessed \/ unprocessed' = [unprocessed EXCEPT ![t.id] = "none"]
  BY DEF Settle
<1>2. Asked' \subseteq Asked \cup {0}
  BY <1>1 DEF Asked, Histories, AwaitingStatus
<1>3. Direct' \subseteq Direct /\ Waiting' \subseteq Waiting \cup {0} /\ Drawn' = Drawn /\ Queued' = Queued
  BY <1>1, <1>2 DEF End, Direct, Waiting, Drawn, Queued
<1>4. 0 \notin Queued' /\ \A u \in Direct' : u.id # 0
  BY <1>3, OwnersDrawn DEF Drawn
<1> QED BY <1>1, <1>3, <1>4, FewerOwners

LEMMA CommitOwned ==
  ASSUME IInv, Histories, Owned, NEW t \in tasks,
         \/ WriteStatement(t) \/ MapRows(t) \/ Observe(t) \/ ClassifyBill(t) \/ RetainPdf(t)
         \/ MarkCommitted(t)
  PROVE  Owned'
<1> USE DEF rows, window, history
<1>1. t.pc \in CommitSteps
  BY DEF WriteStatement, MapRows, Observe, ClassifyBill, RetainPdf, MarkCommitted, CommitSteps
<1>2. t.kind = "commit" /\ t.id \in Ids /\ drafts[t.id] = "pending_review"
  BY <1>1, CommitTask DEF Commits, Advanced
<1>3. UNCHANGED <<source, queue, sweep, prompt>> /\ Drawn' = Drawn
  BY DEF WriteStatement, MapRows, Observe, ClassifyBill, RetainPdf, MarkCommitted, Drawn
<1>4. \A u \in tasks' : u \in tasks \/ u.kind = "commit"
  <2>1. t \in Work({"commit"}, CommitSteps)
    BY <1>1, CommitTask
  <2>2. \A pc : [t EXCEPT !.pc = pc].kind = "commit"
    BY <2>1 DEF Work
  <2>3. \A pc, n : [t EXCEPT !.pc = pc, !.at = n].kind = "commit"
    BY <2>1 DEF Work
  <2>4. CASE WriteStatement(t)
    BY <2>3, <2>4 DEF WriteStatement
  <2>5. CASE End(t) \/ \E pc : Step(t, pc)
    BY <2>2, <2>5 DEF End, Step
  <2> QED BY <2>4, <2>5 DEF MapRows, Observe, ClassifyBill, RetainPdf, MarkCommitted
<1>5. Direct' \subseteq Direct
  BY <1>4 DEF Direct, DirectKinds, IntakeKinds
<1>6. unprocessed' = unprocessed \/ unprocessed' = [unprocessed EXCEPT ![t.id] = "resolved"]
  BY DEF WriteStatement, MapRows, Observe, ClassifyBill, RetainPdf, MarkCommitted
<1>7. Asked' \subseteq Asked
  BY <1>3, <1>6 DEF Asked, Histories, AwaitingStatus
<1>8. Waiting' \subseteq Waiting
  BY <1>4, <1>7 DEF Waiting, WaitingKinds
<1>9. \A i \in Ids : drafts[i] = "none" => drafts'[i] = "none"
  BY <1>2 DEF WriteStatement, MapRows, Observe, ClassifyBill, RetainPdf, MarkCommitted, UpdateDraft,
              IInv, Tables
<1> QED BY <1>3, <1>5, <1>8, <1>9, FewerOwners

LEMMA RequestsOwned ==
  ASSUME IInv, Histories, Owned,
         \/ \E S \in Selections : SelectFiles(S)
         \/ \E b \in DOMAIN batches : \E f \in batches[b].left : NextFile(b, f)
         \/ \E f \in Mailed : Attachment(f)
         \/ \E i \in Drawn : UserOn(i)
         \/ \E i \in sweep : ReparseNext(i)
         \/ ReparseAll \/ ConfirmInstrument \/ CloseInstrumentModal
  PROVE  Owned'
<1> USE DEF rows, window, history
<1>1. ASSUME UNCHANGED <<source, queue, drafts>>, Asked' \subseteq Asked,
             \/ tasks' = tasks
             \/ \E kind, id, file, batch, pc :
                  /\ Start(kind, id, file, batch, pc)
                  /\ pc = "check" \/ kind = "commit" \/ (kind \in WaitingKinds /\ id \in Asked)
                  /\ kind \in WaitingKinds => id \in Asked
      PROVE  Owned'
  <2>1. CASE tasks' = tasks
    <3>1. Direct' = Direct /\ Waiting' \subseteq Waiting /\ Drawn' = Drawn
      BY <1>1, <2>1 DEF Direct, Waiting, Drawn
    <3> QED BY <1>1, <3>1, FewerOwners
  <2>2. CASE tasks' # tasks
    BY <1>1, <2>2, StartOwned
  <2> QED BY <2>1, <2>2
<1>2. CASE \/ \E S \in Selections : SelectFiles(S)
           \/ \E b \in DOMAIN batches : \E f \in batches[b].left : NextFile(b, f)
           \/ \E f \in Mailed : Attachment(f)
           \/ \E i \in Drawn : CommitDraft(i)
  <2>1. Asked' = Asked
    BY <1>2 DEF Asked, SelectFiles, NextFile, Attachment, CommitDraft
  <2>2. UNCHANGED <<source, queue, drafts>>
    BY <1>2 DEF SelectFiles, NextFile, Attachment, CommitDraft
  <2>3. \/ tasks' = tasks
        \/ \E kind, id, file, batch, pc :
             /\ Start(kind, id, file, batch, pc) /\ kind \notin WaitingKinds
             /\ pc = "check" \/ kind = "commit"
    <3>1. CASE \E S \in Selections : SelectFiles(S)
      BY <3>1 DEF SelectFiles
    <3>2. CASE \E b \in DOMAIN batches : \E f \in batches[b].left : NextFile(b, f)
      BY <3>2 DEF NextFile, WaitingKinds
    <3>3. CASE \E f \in Mailed : Attachment(f)
      BY <3>3 DEF Attachment, WaitingKinds
    <3>4. CASE \E i \in Drawn : CommitDraft(i)
      BY <3>4 DEF CommitDraft, WaitingKinds
    <3> QED BY <1>2, <3>1, <3>2, <3>3, <3>4
  <2> QED BY <1>1, <2>1, <2>2, <2>3
<1>3. ASSUME NEW i \in Drawn, SubmitPassword(i) \/ RetryUnprocessed(i) PROVE Owned'
  <2>1. Asked' \subseteq Asked /\ i \in Asked
    BY <1>3, DrawnIds DEF Asked, SubmitPassword, RetryUnprocessed, Actionable, Histories, AwaitingStatus
  <2> QED BY <1>1, <1>3, <2>1 DEF SubmitPassword, RetryUnprocessed, Retry, WaitingKinds
<1>4. CASE ReparseAll \/ CloseInstrumentModal \/ \E i \in Drawn : DiscardUnprocessed(i)
  <2>1. UNCHANGED <<source, queue, drafts, tasks>>
    BY <1>4 DEF ReparseAll, CloseInstrumentModal, DiscardUnprocessed
  <2>2. Asked' \subseteq Asked \cup {0}
    BY <1>4, DrawnIds DEF Asked, ReparseAll, CloseInstrumentModal, DiscardUnprocessed, Actionable, Histories,
                AwaitingStatus
  <2>3. Direct' = Direct /\ Waiting' \subseteq Waiting \cup {0} /\ Drawn' = Drawn /\ Queued' = Queued
    BY <2>1, <2>2 DEF Direct, Waiting, Drawn, Queued
  <2>4. 0 \notin Queued' /\ \A u \in Direct' : u.id # 0
    BY <2>3, OwnersDrawn DEF Drawn
  <2> QED BY <2>1, <2>3, <2>4, FewerOwners
<1>5. ASSUME NEW i \in sweep, ReparseNext(i) PROVE Owned'
  <2>1. Asked' \subseteq Asked /\ i \in Asked
    BY <1>5 DEF Asked, ReparseNext
  <2> QED BY <1>1, <1>5, <2>1 DEF ReparseNext, Retry, WaitingKinds
<1>6. CASE ConfirmInstrument
  <2>1. Asked' = Asked /\ prompt \in Asked
    BY <1>6 DEF Asked, ConfirmInstrument
  <2> QED BY <1>1, <1>6, <2>1 DEF ConfirmInstrument, WaitingKinds
<1>7. ASSUME NEW i \in Drawn, DiscardDraft(i) PROVE Owned'
  <2>1. UNCHANGED <<source, queue, tasks>> /\ Drawn' = Drawn /\ Asked' = Asked
        /\ drafts' = [drafts EXCEPT ![i] = "none"]
    BY <1>7 DEF DiscardDraft, DeleteDraft, Drawn, Asked
  <2>2. Direct' = Direct /\ Waiting' = Waiting
    BY <2>1 DEF Direct, Waiting
  <2>3. \A j \in Ids : drafts[j] = "none" => drafts'[j] = "none"
    BY <2>1
  <2> QED BY <2>1, <2>2, <2>3, FewerOwners
<1> QED BY <1>2, <1>3, <1>4, <1>5, <1>6, <1>7 DEF UserOn

LEMMA DispatchOwned ==
  ASSUME IInv, Histories, Owned, Dispatch
  PROVE  Owned'
<1>1. PICK new : /\ new = [kind |-> "job", id |-> Head(queue).id, file |-> source[Head(queue).id],
                           batch |-> Head(queue).batch, pc |-> "parse", at |-> 0]
                 /\ tasks' = tasks \cup {new}
  BY DEF Dispatch, Start
<1>2. new.kind = "job" /\ new.pc = "parse" /\ new.id = Head(queue).id
  BY <1>1
<1>3. queue' = Tail(queue) /\ queue # <<>> /\ UNCHANGED <<source, unprocessed, drafts, sweep, prompt>>
  BY DEF Dispatch, rows, window
<1>4. queue \in Seq([id: Nat, batch: Nat])
  BY DEF IInv, Shape
<1>5. /\ Head(queue) = queue[1] /\ 1 \in DOMAIN queue
      /\ \A k \in DOMAIN queue' : k + 1 \in DOMAIN queue /\ queue'[k] = queue[k + 1] /\ k \in Nat \ {0}
  BY <1>3, <1>4
<1>6. new.id \in Queued /\ Queued' \subseteq Queued /\ new.id \notin Queued'
  BY <1>2, <1>5 DEF Queued, Owned
<1>7. Direct' = Direct \cup {new} /\ Waiting' = Waiting /\ Drawn' = Drawn
  <2>1. new \in Direct'
    BY <1>1, <1>2 DEF Direct, DirectKinds
  <2>2. Direct' = Direct \cup {new}
    BY <1>1, <2>1 DEF Direct
  <2>3. Asked' = Asked /\ {u \in tasks' : u.kind \in WaitingKinds} = {u \in tasks : u.kind \in WaitingKinds}
    BY <1>1, <1>2, <1>3 DEF Asked, WaitingKinds
  <2> QED BY <1>3, <2>2, <2>3 DEF Waiting, Drawn
<1>8. \A m, n \in DOMAIN queue' : queue'[m].id = queue'[n].id => m = n
  <2>1. ASSUME NEW m \in DOMAIN queue', NEW n \in DOMAIN queue', queue'[m].id = queue'[n].id PROVE m + 1 = n + 1
    BY <1>5, <2>1 DEF Owned
  <2> QED BY <1>5, <2>1
<1>9. \A u, v \in Direct' : u.id = v.id => u = v
  BY <1>6, <1>7 DEF Owned
<1>10. \A u \in Direct' : u.id \notin Queued' /\ u.id \notin Waiting'
  BY <1>6, <1>7 DEF Owned
<1>11. \A u \in Direct' : u.pc # "staged" => drafts'[u.id] = "none"
  BY <1>3, <1>6, <1>7 DEF Owned
<1> QED BY <1>3, <1>6, <1>7, <1>8, <1>9, <1>10, <1>11 DEF Owned

LEMMA QuitOwned ==
  ASSUME IInv, Histories, Owned, Quit
  PROVE  Owned'
<1>1. tasks' = {} /\ queue' = <<>> /\ UNCHANGED <<drafts, source>> /\ Drawn' = Drawn
  BY DEF Quit, Drawn
<1>2. Direct' \subseteq Direct /\ Queued' = {} /\ \A u \in Direct' : FALSE
  BY <1>1 DEF Direct, Queued
<1> QED BY <1>1, <1>2, FewerOwners

-----------------------------------------------------------------------------
(* A pending draft can be shown.                                           *)

LEMMA ReadableOn ==
  ASSUME IInv, Histories, Onward, Readable, NEW N, tasks' \subseteq tasks \cup N,
         \A u \in N : u.pc \in {"cycle", "draft"} => u.id \in Ids /\ Ready(u.id)',
         retained' \subseteq Ids, \A i \in retained' \ retained : Marking(i)',
         \A i \in retained : Marking(i) => Marking(i)' \/ drafts'[i] = "committed" \/ Excused(i)',
         \A i \in Ids : i \in stored \ stored' =>
           \/ Excused(i)'
           \/ /\ drafts'[i] # "pending_review"
              /\ \A u \in tasks' : u.pc \in {"cycle", "draft"} /\ u.id = i => Ready(i)',
         \A i \in Ids : drafts[i] # "pending_review" /\ drafts'[i] = "pending_review" =>
           i \in stored' \/ Excused(i)'
  PROVE  Readable'
<1>1. ASSUME NEW i \in Ids, drafts'[i] = "pending_review" PROVE i \in stored' \/ Excused(i)'
  BY <1>1, OnwardKeeps DEF Readable
<1>2. ASSUME NEW u \in tasks', u.pc \in {"cycle", "draft"} PROVE Ready(u.id)'
  <2>1. CASE u \in N
    BY <1>2, <2>1
  <2>2. CASE u \in tasks
    <3>1. u.id \in Ids /\ Ready(u.id)
      BY <1>2, <2>2, DrawnIds DEF Readable
    <3>2. CASE u.id \in stored
      BY <1>2, <3>1, <3>2 DEF Ready
    <3>3. CASE Excused(u.id)
      BY <3>1, <3>3, OnwardKeeps DEF Ready
    <3>4. CASE drafts[u.id] # "none"
      <4>1. drafts[u.id] \in {"pending_review", "committed"}
        BY <3>1, <3>4 DEF IInv, Tables
      <4> QED BY <3>1, <4>1 DEF Onward, Ready, Excused
    <3> QED BY <3>1, <3>2, <3>3, <3>4 DEF Ready
  <2> QED BY <2>1, <2>2
<1>3. ASSUME NEW i \in retained' PROVE drafts'[i] = "committed" \/ Excused(i)' \/ Marking(i)'
  <2>1. CASE i \in retained
    BY <2>1, OnwardKeeps DEF Readable, Onward
  <2> QED BY <2>1
<1> QED BY <1>1, <1>2, <1>3 DEF Readable

(* Steps that store at most, and neither retain nor stage. *)
LEMMA StoredStays ==
  ASSUME IInv, Histories, Onward, Readable, NEW N, tasks' \subseteq tasks \cup N,
         \A u \in N : u.pc \in {"cycle", "draft"} => u.id \in Ids /\ Ready(u.id)',
         \A u \in tasks : u.kind = "commit" /\ u.pc = "status" => u \in tasks',
         stored \subseteq stored', UNCHANGED <<retained, drafts>>
  PROVE  Readable'
<1>1. \A i : Marking(i) => Marking(i)'
  BY DEF Marking
<1>2. retained' \subseteq Ids
  BY DEF Readable
<1> QED BY <1>1, <1>2, ReadableOn

(* The task t goes on, ends, or gives way to another about its document. *)
LEMMA TaskReadable ==
  ASSUME IInv, Histories, Onward, Readable, NEW t \in tasks, t.pc # "status",
         stored \subseteq stored', UNCHANGED <<retained, drafts>>,
         \/ End(t)
         \/ \E pc : Step(t, pc) /\ (pc \in {"cycle", "draft"} => t.id \in Ids /\ Ready(t.id)')
  PROVE  Readable'
<1>1. CASE End(t)
  <2> DEFINE N == {}
  <2>1. tasks' \subseteq tasks \cup N /\ \A u \in N : FALSE
    BY <1>1 DEF End
  <2>2. \A u \in tasks : u.kind = "commit" /\ u.pc = "status" => u \in tasks'
    BY <1>1 DEF End
  <2> HIDE DEF N
  <2> QED BY <2>1, <2>2, StoredStays
<1>2. ASSUME NEW pc, Step(t, pc), pc \in {"cycle", "draft"} => t.id \in Ids /\ Ready(t.id)'
      PROVE  Readable'
  <2> DEFINE next == [t EXCEPT !.pc = pc]
             N == {next}
  <2>1. next.id = t.id /\ next.pc = pc
    BY KindByStep DEF IInv, Tasks, Work
  <2>2. tasks' = (tasks \ {t}) \cup {next}
    BY <1>2 DEF Step
  <2> HIDE DEF next
  <2>3. tasks' \subseteq tasks \cup N /\ \A u \in N : u.pc \in {"cycle", "draft"} => u.id \in Ids /\ Ready(u.id)'
    BY <1>2, <2>1, <2>2
  <2>4. \A u \in tasks : u.kind = "commit" /\ u.pc = "status" => u \in tasks'
    BY <2>2
  <2> HIDE DEF N
  <2> QED BY <2>3, <2>4, StoredStays
<1> QED BY <1>1, <1>2

LEMMA IntakeReadable ==
  ASSUME IInv, Histories, Onward, Readable, NEW t \in tasks,
         CheckDuplicate(t) \/ ResolvePassword(t) \/ Enqueue(t) \/ Send(t)
  PROVE  Readable'
<1> USE DEF rows, window, history
<1>1. UNCHANGED <<retained, drafts>> /\ stored \subseteq stored' /\ t.pc # "status"
  BY DEF CheckDuplicate, ResolvePassword, Enqueue, Send
<1>2. CASE End(t) \/ Step(t, "enqueue") \/ Step(t, "send")
  BY <1>1, <1>2, TaskReadable
<1>3. CASE CheckDuplicate(t) /\ ~End(t)
  <2> DEFINE next == [t EXCEPT !.pc = "unlock", !.id = NextId]
             N == {next}
  <2>1. tasks' = (tasks \ {t}) \cup {next}
    BY <1>3 DEF CheckDuplicate
  <2>2. next.pc = "unlock"
    BY KindByStep DEF IInv, Tasks, Work
  <2> HIDE DEF next
  <2>3. tasks' \subseteq tasks \cup N /\ \A u \in N : u.pc \notin {"cycle", "draft"}
    BY <2>1, <2>2
  <2>4. \A u \in tasks : u.kind = "commit" /\ u.pc = "status" => u \in tasks'
    BY <1>1, <2>1
  <2> HIDE DEF N
  <2> QED BY <1>1, <2>3, <2>4, StoredStays
<1> QED BY <1>2, <1>3 DEF ResolvePassword, Enqueue, Send

LEMMA PipelineReadable ==
  ASSUME IInv, Histories, Onward, Readable, NEW t \in tasks, Parse(t) \/ Block(t) \/ CheckCycle(t)
  PROVE  Readable'
<1>1. UNCHANGED <<retained, drafts>> /\ stored \subseteq stored' /\ t.pc \in {"parse", "block", "cycle"}
  BY DEF Parse, Block, BlockedAwaitingInstrument, CheckCycle
<1>2. t.id \in Ids
  BY <1>1, DrawnIds
<1>3. PICK pc : Step(t, pc) /\ (pc = "cycle" => Parse(t)) /\ (pc = "draft" => CheckCycle(t))
  BY DEF Parse, Block, BlockedAwaitingInstrument, CheckCycle, Fail
<1>4. Parse(t) => Ready(t.id)'
  BY DEF Parse, Ready
<1>5. CheckCycle(t) => Ready(t.id)'
  <2>1. CheckCycle(t) => Ready(t.id) /\ stored' = stored
    BY DEF CheckCycle, Readable
  <2> QED BY <1>1, <1>2, <2>1, OnwardKeeps DEF Ready
<1> QED BY <1>1, <1>2, <1>3, <1>4, <1>5, TaskReadable

LEMMA StageReadable ==
  ASSUME IInv, Histories, Onward, Readable, NEW t \in tasks, StageDraft(t)
  PROVE  Readable'
<1> USE DEF rows, window, history
<1>1. t.pc = "draft" /\ t.id \in Ids /\ Ready(t.id) /\ UNCHANGED <<stored, retained>>
  BY DrawnIds DEF StageDraft, Readable
<1>2. CASE drafts' = drafts
  <2>1. Step(t, "staged") \/ Step(t, "failed")
    BY DEF StageDraft, Fail
  <2> QED BY <1>1, <1>2, <2>1, TaskReadable
<1>3. CASE InsertDraft(t.id) /\ Step(t, "staged")
  <2> DEFINE next == [t EXCEPT !.pc = "staged"]
             N == {next}
  <2>1. next.pc = "staged"
    BY KindByStep DEF IInv, Tasks, Work
  <2>2. tasks' = (tasks \ {t}) \cup {next}
    BY <1>3 DEF Step
  <2> HIDE DEF next
  <2>3. tasks' \subseteq tasks \cup N /\ \A u \in N : u.pc \notin {"cycle", "draft"}
    BY <2>1, <2>2
  <2> HIDE DEF N
  <2>4. \A i : Marking(i) => Marking(i)'
    BY <1>1, <2>2 DEF Marking
  <2>5. drafts[t.id] = "none" /\ \A i \in Ids \ {t.id} : drafts'[i] = drafts[i]
    BY <1>3 DEF InsertDraft, IInv, Tables
  <2>6. t.id \in stored' \/ Excused(t.id)'
    BY <1>1, <2>5, OnwardKeeps DEF Ready
  <2>7. \A i \in Ids : drafts[i] # "pending_review" /\ drafts'[i] = "pending_review" =>
          i \in stored' \/ Excused(i)'
    BY <2>5, <2>6
  <2>8. retained' \subseteq Ids
    BY <1>1 DEF Readable
  <2> QED BY <1>1, <2>3, <2>4, <2>7, <2>8, ReadableOn
<1> QED BY <1>2, <1>3 DEF StageDraft, Fail

LEMMA SettleReadable ==
  ASSUME IInv, Histories, Accounted, Owned, Onward, Readable, NEW t \in tasks, Settle(t)
  PROVE  Readable'
<1>1. /\ t.pc \in {"staged", "blocked", "failed"} /\ End(t) /\ UNCHANGED <<retained, drafts>>
      /\ stored' = IF t.kind = "job" /\ t.pc # "staged" THEN stored \ {t.id} ELSE stored
  BY DEF Settle
<1>2. CASE stored' = stored
  BY <1>1, <1>2, TaskReadable
<1>3. CASE t.kind = "job" /\ t.pc # "staged" /\ stored' = stored \ {t.id}
  <2>1. t \in Direct /\ drafts[t.id] = "none"
    BY <1>1, <1>3 DEF Direct, DirectKinds, Owned
  <2>2. ASSUME NEW u \in tasks', u.pc \in {"cycle", "draft"}, u.id = t.id PROVE FALSE
    <3>1. u \in tasks /\ u # t /\ u.kind # "commit" /\ u.kind \in OtherKinds
      BY <1>1, <2>2, KindByStep DEF End, IInv, CommitSteps
    <3>2. u \in Direct \/ u.kind \in WaitingKinds
      BY <2>2, <3>1 DEF Direct, DirectKinds, WaitingKinds, OtherKinds, PipelineKinds
    <3> QED BY <2>1, <2>2, <3>1, <3>2 DEF Owned, Waiting
  <2> DEFINE N == {}
  <2>3. tasks' \subseteq tasks \cup N /\ \A u \in N : FALSE
    BY <1>1 DEF End
  <2>4. \A i : Marking(i) => Marking(i)'
    BY <1>1 DEF End, Marking
  <2>5. retained' \subseteq Ids
    BY <1>1 DEF Readable
  <2>6. \A i \in Ids : i \in stored \ stored' => i = t.id
    BY <1>3
  <2> HIDE DEF N
  <2> QED BY <1>1, <2>1, <2>2, <2>3, <2>4, <2>5, <2>6, ReadableOn
<1> QED BY <1>1, <1>2, <1>3

LEMMA CommitReadable ==
  ASSUME IInv, Histories, Onward, Readable, NEW t \in tasks,
         \/ WriteStatement(t) \/ MapRows(t) \/ Observe(t) \/ ClassifyBill(t) \/ RetainPdf(t)
         \/ MarkCommitted(t)
  PROVE  Readable'
<1> USE DEF rows, window, history
<1>1. t.pc \in CommitSteps /\ stored' = stored
  BY DEF WriteStatement, MapRows, Observe, ClassifyBill, RetainPdf, MarkCommitted, CommitSteps
<1>2. t.kind = "commit" /\ t.id \in Ids /\ drafts[t.id] = "pending_review" /\ t \in Work({"commit"}, CommitSteps)
  BY <1>1, CommitTask DEF Commits, Advanced
<1>3. CASE WriteStatement(t)
  <2> DEFINE next == [t EXCEPT !.pc = "entries", !.at = Len(entered) + 1]
             N == {next}
  <2>1. tasks' = (tasks \ {t}) \cup {next} /\ t.pc = "statement" /\ UNCHANGED <<retained, drafts>>
    BY <1>3 DEF WriteStatement
  <2>2. next.pc = "entries"
    BY <1>2 DEF Work
  <2> HIDE DEF next
  <2>3. tasks' \subseteq tasks \cup N /\ \A u \in N : u.pc \notin {"cycle", "draft"}
    BY <2>1, <2>2
  <2>4. \A u \in tasks : u.kind = "commit" /\ u.pc = "status" => u \in tasks'
    BY <2>1
  <2> HIDE DEF N
  <2> QED BY <1>1, <2>1, <2>3, <2>4, StoredStays
<1>4. CASE MapRows(t) \/ Observe(t) \/ ClassifyBill(t)
  <2>1. /\ UNCHANGED <<retained, drafts>> /\ t.pc # "status"
        /\ End(t) \/ Step(t, "observe") \/ Step(t, "bill") \/ Step(t, "retain")
    BY <1>4 DEF MapRows, Observe, ClassifyBill
  <2> QED BY <1>1, <2>1, TaskReadable
<1>5. CASE RetainPdf(t)
  <2> DEFINE next == [t EXCEPT !.pc = "status"]
             N == {next}
  <2>1. /\ tasks' = (tasks \ {t}) \cup {next} /\ t.pc = "retain" /\ retained' = retained \cup {t.id}
        /\ drafts' = drafts
    BY <1>5 DEF RetainPdf, Step
  <2>2. next.pc = "status" /\ next.kind = "commit" /\ next.id = t.id
    BY <1>2 DEF Work
  <2> HIDE DEF next
  <2>3. tasks' \subseteq tasks \cup N /\ \A u \in N : u.pc \notin {"cycle", "draft"}
    BY <2>1, <2>2
  <2>4. Marking(t.id)' /\ \A i : Marking(i) => Marking(i)'
    BY <2>1, <2>2 DEF Marking
  <2>5. retained' \subseteq Ids /\ \A i \in retained' \ retained : i = t.id
    BY <1>2, <2>1 DEF Readable
  <2> HIDE DEF N
  <2> QED BY <1>1, <2>1, <2>3, <2>4, <2>5, ReadableOn
<1>6. CASE MarkCommitted(t)
  <2> DEFINE N == {}
  <2>1. tasks' = tasks \ {t} /\ retained' = retained /\ drafts' = [drafts EXCEPT ![t.id] = "committed"]
    BY <1>2, <1>6 DEF MarkCommitted, End, UpdateDraft
  <2>2. drafts'[t.id] = "committed" /\ \A i \in Ids \ {t.id} : drafts'[i] = drafts[i]
    BY <1>2, <2>1 DEF IInv, Tables
  <2>3. tasks' \subseteq tasks \cup N /\ \A u \in N : FALSE
    BY <2>1
  <2>4. \A i : Marking(i) => Marking(i)' \/ i = t.id
    BY <2>1 DEF Marking
  <2>5. \A i \in Ids : drafts'[i] = "pending_review" => drafts[i] = "pending_review"
    BY <2>2
  <2>6. retained' \subseteq Ids
    BY <2>1 DEF Readable
  <2> HIDE DEF N
  <2> QED BY <1>1, <2>1, <2>2, <2>3, <2>4, <2>5, <2>6, ReadableOn
<1> QED BY <1>3, <1>4, <1>5, <1>6

(* Only what is committed, or may be missing, expires. *)
LEMMA ExpiryReadable ==
  ASSUME IInv, Histories, Onward, Readable, CleanupExpiredPdfs, drafts' = drafts,
         \/ tasks' = tasks
         \/ tasks' = {} /\ \A i \in Ids : Marking(i) => Excused(i)'
  PROVE  Readable'
<1>1. PICK expired \in SUBSET {i \in retained : ~Committing(i)} :
        stored' = stored \ expired /\ retained' = retained \ expired
  BY DEF CleanupExpiredPdfs
<1>2. ASSUME NEW i \in Ids, i \in stored \ stored' PROVE drafts[i] = "committed" \/ Excused(i)'
  <2>1. i \in retained /\ ~Committing(i)
    BY <1>1, <1>2
  <2>2. ~Marking(i)
    BY <2>1 DEF Marking, Committing
  <2> QED BY <2>1, <2>2, OnwardKeeps DEF Readable
<1>3. \A i \in Ids : i \in stored \ stored' => Excused(i)' \/ (drafts'[i] # "pending_review" /\ Ready(i)')
  BY <1>2 DEF Ready
<1>4. retained' \subseteq retained /\ retained' \subseteq Ids
  BY <1>1 DEF Readable
<1>5. \A i \in retained : Marking(i) => Marking(i)' \/ Excused(i)'
  BY DEF Marking, Readable
<1> DEFINE N == {}
<1>6. tasks' \subseteq tasks \cup N /\ \A u \in N : FALSE
  OBVIOUS
<1> HIDE DEF N
<1> QED BY <1>3, <1>4, <1>5, <1>6, ReadableOn

LEMMA QuitReadable ==
  ASSUME IInv, Histories, Onward, Readable, Quit
  PROVE  Readable'
<1>1. tasks' = {} /\ drafts' = drafts /\ CleanupExpiredPdfs
  BY DEF Quit
<1>2. ASSUME NEW i \in Ids, Marking(i) PROVE Excused(i)'
  <2>1. PICK t \in tasks : t.kind = "commit" /\ t.pc = "status" /\ t.id = i
    BY <1>2 DEF Marking
  <2>2. Latest(i, t.at)
    BY <2>1 DEF IInv, Progress, Advanced, Commits
  <2>3. t.at \in Entries(i) /\ t.at # 0
    BY <2>2 DEF Latest, Entries, IInv, Tables
  <2>4. t.at \in spoilt'
    BY <2>1, <2>3 DEF Quit
  <2>5. Entries(i) \subseteq Entries(i)'
    BY DEF Onward
  <2> QED BY <2>3, <2>4, <2>5 DEF Excused
<1> QED BY <1>1, <1>2, ExpiryReadable

LEMMA RequestsReadable ==
  ASSUME IInv, Histories, Onward, Readable,
         \/ \E S \in Selections : SelectFiles(S)
         \/ \E b \in DOMAIN batches : \E f \in batches[b].left : NextFile(b, f)
         \/ \E f \in Mailed : Attachment(f)
         \/ Dispatch
         \/ \E i \in Drawn : UserOn(i)
         \/ \E i \in sweep : ReparseNext(i)
         \/ ReparseAll \/ ConfirmInstrument \/ CloseInstrumentModal
  PROVE  Readable'
<1> USE DEF rows, window, history
<1>1. ASSUME UNCHANGED <<stored, retained, drafts>>,
             \/ tasks' = tasks
             \/ \E kind, id, file, batch, pc :
                  Start(kind, id, file, batch, pc) /\ pc \in {"check", "parse", "statement"}
      PROVE  Readable'
  <2>1. CASE tasks' = tasks
    <3> DEFINE N == {}
    <3>1. tasks' \subseteq tasks \cup N /\ \A u \in N : FALSE
      BY <2>1
    <3> HIDE DEF N
    <3> QED BY <1>1, <2>1, <3>1, StoredStays
  <2>2. ASSUME NEW kind, NEW id, NEW file, NEW batch, NEW pc,
               Start(kind, id, file, batch, pc), pc \in {"check", "parse", "statement"}
        PROVE  Readable'
    <3> DEFINE new == [kind |-> kind, id |-> id, file |-> file, batch |-> batch, pc |-> pc, at |-> 0]
               N == {new}
    <3>1. tasks' \subseteq tasks \cup N /\ tasks \subseteq tasks' /\ \A u \in N : u.pc \notin {"cycle", "draft"}
      BY <2>2 DEF Start
    <3> HIDE DEF N
    <3> QED BY <1>1, <3>1, StoredStays
  <2> QED BY <1>1, <2>1, <2>2
<1>2. CASE \E S \in Selections : SelectFiles(S)
  BY <1>2, ExpiryReadable DEF SelectFiles
<1>3. CASE \/ ReparseAll \/ CloseInstrumentModal
           \/ \E i \in Drawn : DiscardUnprocessed(i)
  BY <1>1, <1>3 DEF ReparseAll, CloseInstrumentModal, DiscardUnprocessed
<1>4. CASE \E b \in DOMAIN batches : \E f \in batches[b].left : NextFile(b, f)
  BY <1>1, <1>4 DEF NextFile
<1>5. CASE \E f \in Mailed : Attachment(f)
  BY <1>1, <1>5 DEF Attachment
<1>6. CASE \E i \in Drawn : SubmitPassword(i)
  BY <1>1, <1>6 DEF SubmitPassword
<1>7. CASE \E i \in Drawn : RetryUnprocessed(i)
  BY <1>1, <1>7 DEF RetryUnprocessed, Retry
<1>8. CASE \E i \in sweep : ReparseNext(i)
  BY <1>1, <1>8 DEF ReparseNext, Retry
<1>9. CASE ConfirmInstrument
  BY <1>1, <1>9 DEF ConfirmInstrument
<1>10. CASE \E i \in Drawn : CommitDraft(i)
  BY <1>1, <1>10 DEF CommitDraft
<1>11. CASE Dispatch
  BY <1>1, <1>11 DEF Dispatch
<1>12. ASSUME NEW i \in Drawn, DiscardDraft(i) PROVE Readable'
  <2>1. /\ i \in Ids /\ stored' = stored \ {i} /\ UNCHANGED <<retained, tasks>>
        /\ drafts' = [drafts EXCEPT ![i] = "none"] /\ fate' = [fate EXCEPT ![i] = "discarded"]
    BY <1>12, DrawnIds DEF DiscardDraft, DeleteDraft
  <2>2. Excused(i)'
    BY <2>1 DEF Excused, Histories
  <2>3. \A j \in Ids : drafts'[j] = "pending_review" => drafts[j] = "pending_review"
    BY <2>1 DEF IInv, Tables
  <2>4. \A j : Marking(j) => Marking(j)'
    BY <2>1 DEF Marking
  <2> DEFINE N == {}
  <2>5. tasks' \subseteq tasks \cup N /\ \A u \in N : FALSE
    BY <2>1
  <2>6. retained' \subseteq Ids
    BY <2>1 DEF Readable
  <2>7. \A j \in Ids : j \in stored \ stored' => Excused(j)'
    BY <2>1, <2>2
  <2> HIDE DEF N
  <2> QED BY <2>1, <2>3, <2>4, <2>5, <2>6, <2>7, ReadableOn
<1> QED BY <1>2, <1>3, <1>4, <1>5, <1>6, <1>7, <1>8, <1>9, <1>10, <1>11, <1>12 DEF UserOn

LEMMA NextPInv == PInv /\ [Next]_vars => PInv'
<1> SUFFICES ASSUME PInv, [Next]_vars PROVE Owned' /\ Readable'
  BY NextAInv DEF PInv
<1>1. IInv /\ Histories /\ Accounted /\ Owned /\ Readable
  BY DEF PInv, AInv
<1>2. CASE Next
  <2>1. Onward
    BY <1>1, <1>2, Onwards
  <2>2. ASSUME NEW t \in tasks, TaskStep(t) PROVE Owned' /\ Readable'
    <3>1. Owned'
      BY <1>1, <2>2, IntakeOwned, PipelineOwned, SettleOwned, CommitOwned DEF TaskStep
    <3>2. Readable'
      BY <1>1, <2>1, <2>2, IntakeReadable, PipelineReadable, StageReadable, SettleReadable, CommitReadable
         DEF TaskStep
    <3> QED BY <3>1, <3>2
  <2>3. CASE ~ \E t \in tasks : TaskStep(t)
    <3>1. Owned'
      BY <1>1, <1>2, <2>3, RequestsOwned, DispatchOwned, QuitOwned DEF Next
    <3>2. Readable'
      BY <1>1, <1>2, <2>1, <2>3, RequestsReadable, QuitReadable DEF Next
    <3> QED BY <3>1, <3>2
  <2> QED BY <2>2, <2>3
<1>3. CASE UNCHANGED vars
  <2> USE DEF vars, rows, window, history
  <2>1. Owned'
    BY <1>1, <1>3 DEF Owned, Direct, Queued, Waiting, Asked, Drawn
  <2>2. Readable'
    BY <1>1, <1>3 DEF Readable, Ready, Excused, Marking, Entries
  <2> QED BY <2>1, <2>2
<1> QED BY <1>2, <1>3

(* A draft that waits for review can show its PDF unless its discarding    *)
(* was overtaken by a retry, or a commit of it was cut short: no job       *)
(* deletes the PDF of another's draft, and none expires before its draft   *)
(* is marked (Settle, CleanupExpiredPdfs: the queue's worker,              *)
(* discard_staged_draft, commit_staged_draft).                             *)
THEOREM DraftsKeepTheirPdf == Spec => []PendingDraftKeepsPdf
<1>1. PInv => PendingDraftKeepsPdf
  BY DrawnIds DEF PInv, AInv, Readable, Excused, PendingDraftKeepsPdf
<1> QED BY <1>1, InitPInv, NextPInv, PTL DEF Spec

-----------------------------------------------------------------------------
(***************************************************************************)
(* Types as TypeOK states them: what Shape, Tables and Histories leave     *)
(* open.  A task has no document before its file is checked, and a commit  *)
(* no statement before it enters one.                                      *)
(***************************************************************************)

Tabled ==
  /\ queuedRow \in [Ids -> {"none", "hashed", "plain"}]
  /\ noted \subseteq Ids /\ stored \subseteq Ids /\ retained \subseteq Ids
  /\ passwords \subseteq {Key[f] : f \in Files}
  /\ mishaps \in 0 .. MaxMishaps

Fresh ==
  /\ \A t \in tasks : t.pc = "check" => t.id = 0
  /\ \A t \in tasks : t.pc = "statement" => t.at = 0

Marked ==
  /\ spoilt \subseteq DOMAIN entered
  /\ \A n \in DOMAIN entered : entered[n].evidence \subseteq RowNumbers \X RowNumbers

Confined == Tabled /\ Fresh /\ Marked /\ Len(queue) <= QueueCapacity

LEMMA InitConfined == Init => Confined
  BY StagingAssumption DEF Init, Confined, Tabled, Fresh, Marked

(* A task and its document. *)
LEMMA Document ==
  ASSUME AInv, NEW t \in tasks, t.pc # "check"
  PROVE  t \in Tasks /\ t.id \in Ids /\ t.file \in Files
  BY KindByStep, DrawnIds DEF AInv, IInv, Tasks, Work

LEMMA TabledByTask ==
  ASSUME AInv, Confined, NEW t \in tasks, TaskStep(t)
  PROVE  Tabled'
<1> USE DEF rows, window, history
<1>1. CASE CheckDuplicate(t)
  BY <1>1 DEF CheckDuplicate, Confined, Tabled
<1>2. CASE ~CheckDuplicate(t)
  <2>1. t.pc # "check" /\ t.id \in Ids /\ t.file \in Files
    BY <1>2, Document
       DEF TaskStep, ResolvePassword, Enqueue, Send, Parse, Block, CheckCycle, StageDraft, Settle,
           WriteStatement, MapRows, Observe, ClassifyBill, RetainPdf, MarkCommitted
  <2>2. mishaps' = mishaps \/ Fault
    BY <1>2 DEF TaskStep, ResolvePassword, Enqueue, Send, Parse, Block, CheckCycle, StageDraft, Settle, Fail,
           WriteStatement, MapRows, Observe, ClassifyBill, RetainPdf, MarkCommitted, BlockedAwaitingInstrument
  <2>3. mishaps' \in 0 .. MaxMishaps
    BY <2>2, StagingAssumption DEF Fault, Confined, Tabled
  <2>4. \/ queuedRow' = queuedRow
        \/ \E as \in {"none", "hashed", "plain"} : queuedRow' = [queuedRow EXCEPT ![t.id] = as]
    BY <1>2 DEF TaskStep, ResolvePassword, Enqueue, Send, Parse, Block, CheckCycle, StageDraft, Settle, Fail,
           WriteStatement, MapRows, Observe, ClassifyBill, RetainPdf, MarkCommitted, InsertQueued, DeleteQueued
  <2>5. retained' \subseteq Ids /\ passwords' \subseteq {Key[f] : f \in Files}
    BY <1>2, <2>1 DEF TaskStep, ResolvePassword, Enqueue, Send, Parse, Block, CheckCycle, StageDraft, Settle,
           WriteStatement, MapRows, Observe, ClassifyBill, RetainPdf, MarkCommitted, Confined, Tabled
  <2>6. noted' \subseteq Ids /\ stored' \subseteq Ids
    <3>1. CASE Block(t) /\ BlockedAwaitingInstrument(t)
      <4>1. NextId \in Ids
        BY <3>1, StagingAssumption DEF BlockedAwaitingInstrument, NextId, Ids, AInv, IInv, Shape
      <4> QED BY <3>1, <4>1 DEF BlockedAwaitingInstrument, Confined, Tabled
    <3>2. CASE ~(Block(t) /\ BlockedAwaitingInstrument(t))
      BY <1>2, <2>1, <3>2 DEF TaskStep, ResolvePassword, Enqueue, Send, Parse, Block, CheckCycle, StageDraft,
           Settle, WriteStatement, MapRows, Observe, ClassifyBill, RetainPdf, MarkCommitted, Confined, Tabled
    <3> QED BY <3>1, <3>2
  <2>7. queuedRow' \in [Ids -> {"none", "hashed", "plain"}]
    BY <2>4 DEF Confined, Tabled
  <2> QED BY <2>3, <2>5, <2>6, <2>7 DEF Tabled
<1> QED BY <1>1, <1>2

LEMMA TabledElsewhere ==
  ASSUME AInv, Confined, Next, ~ \E t \in tasks : TaskStep(t)
  PROVE  Tabled'
<1> USE DEF rows, window, history
<1>1. UNCHANGED <<queuedRow, noted, passwords>> /\ stored' \subseteq stored /\ retained' \subseteq retained
  BY DEF Next, SelectFiles, NextFile, Attachment, Dispatch, UserOn, SubmitPassword, RetryUnprocessed,
         DiscardUnprocessed, DiscardDraft, CommitDraft, ReparseNext, ReparseAll, ConfirmInstrument,
         CloseInstrumentModal, Quit, CleanupExpiredPdfs
<1>2. mishaps' = mishaps \/ Fault
  BY DEF Next, SelectFiles, NextFile, Attachment, Dispatch, UserOn, SubmitPassword, RetryUnprocessed,
         DiscardUnprocessed, DiscardDraft, CommitDraft, ReparseNext, ReparseAll, ConfirmInstrument,
         CloseInstrumentModal, Quit
<1>3. mishaps' \in 0 .. MaxMishaps
  BY <1>2, StagingAssumption DEF Fault, Confined, Tabled
<1> QED BY <1>1, <1>3 DEF Confined, Tabled

(* Tasks that start, and tasks that go on. *)
LEMMA FreshSteps ==
  ASSUME AInv, Confined, Next
  PROVE  Fresh'
<1> USE DEF rows, window, history
<1>1. ASSUME NEW kind, NEW id, NEW file, NEW batch, NEW pc,
             Start(kind, id, file, batch, pc), pc = "check" => id = 0
      PROVE  Fresh'
  BY <1>1 DEF Start, Confined, Fresh
<1>2. ASSUME NEW t \in tasks, End(t) PROVE Fresh'
  BY <1>2 DEF End, Confined, Fresh
<1>3. ASSUME NEW t \in tasks, NEW pc \in (OtherSteps \cup CommitSteps) \ {"check", "statement"}, Step(t, pc)
      PROVE  Fresh'
  <2>1. [t EXCEPT !.pc = pc].pc = pc
    BY KindByStep DEF AInv, IInv, Tasks, Work
  <2> QED BY <1>3, <2>1 DEF Step, Confined, Fresh, OtherSteps, CommitSteps
<1>4. ASSUME NEW t \in tasks, TaskStep(t) PROVE Fresh'
  <2>1. CASE CheckDuplicate(t)
    <3>1. CASE tasks' = (tasks \ {t}) \cup {[t EXCEPT !.pc = "unlock", !.id = NextId]}
      <4>1. [t EXCEPT !.pc = "unlock", !.id = NextId].pc = "unlock"
        BY KindByStep DEF AInv, IInv, Tasks, Work
      <4> QED BY <3>1, <4>1 DEF Confined, Fresh
    <3> QED BY <1>2, <2>1, <3>1 DEF CheckDuplicate
  <2>2. CASE WriteStatement(t)
    <3>1. [t EXCEPT !.pc = "entries", !.at = Len(entered) + 1].pc = "entries"
      BY KindByStep DEF AInv, IInv, Tasks, Work
    <3> QED BY <2>2, <3>1 DEF WriteStatement, Confined, Fresh
  <2>3. CASE ~CheckDuplicate(t) /\ ~WriteStatement(t)
    <3>1. \/ End(t)
          \/ \E pc \in (OtherSteps \cup CommitSteps) \ {"check", "statement"} : Step(t, pc)
      BY <1>4, <2>3 DEF TaskStep, ResolvePassword, Enqueue, Send, Parse, Block, BlockedAwaitingInstrument,
         CheckCycle, StageDraft, Settle, Fail, MapRows, Observe, ClassifyBill, RetainPdf, MarkCommitted,
         OtherSteps, CommitSteps
    <3> QED BY <1>2, <1>3, <3>1
  <2> QED BY <2>1, <2>2, <2>3
<1>5. CASE \/ \E S \in Selections : SelectFiles(S)
           \/ \E i \in Drawn : DiscardUnprocessed(i) \/ DiscardDraft(i)
           \/ ReparseAll \/ CloseInstrumentModal \/ Quit
  <2>1. tasks' \subseteq tasks
    BY <1>5 DEF SelectFiles, DiscardUnprocessed, DiscardDraft, ReparseAll, CloseInstrumentModal, Quit
  <2> QED BY <2>1 DEF Confined, Fresh
<1>6. CASE \/ \E b \in DOMAIN batches : \E f \in batches[b].left : NextFile(b, f)
           \/ \E f \in Mailed : Attachment(f)
  BY <1>1, <1>6 DEF NextFile, Attachment
<1>7. CASE \/ Dispatch \/ ConfirmInstrument
           \/ \E i \in Drawn : SubmitPassword(i) \/ RetryUnprocessed(i) \/ CommitDraft(i)
  BY <1>1, <1>7 DEF Dispatch, ConfirmInstrument, SubmitPassword, RetryUnprocessed, Retry, CommitDraft
<1>8. CASE \E i \in sweep : ReparseNext(i)
  <2>1. CASE tasks' = tasks
    BY <2>1 DEF Confined, Fresh
  <2> QED BY <1>1, <1>8, <2>1 DEF ReparseNext, Retry
<1> QED BY <1>4, <1>5, <1>6, <1>7, <1>8 DEF Next, UserOn

(* Rows and entries are paired by their numbers. *)
LEMMA ZippedWithin ==
  ASSUME NEW kept \in SUBSET RowNumbers
  PROVE  Zipped(kept) \subseteq RowNumbers \X RowNumbers
<1>1. ASSUME NEW e \in kept
      PROVE  Cardinality({k \in kept : k <= e}) \in RowNumbers
  <2> DEFINE below == {k \in kept : k <= e}
  <2>1. below \subseteq 1 .. Rows /\ e \in below /\ IsFiniteSet(1 .. Rows) /\ Cardinality(1 .. Rows) = Rows
    <3>1. e \in kept /\ kept \subseteq 1 .. Rows
      BY <1>1 DEF RowNumbers
    <3>2. 1 \in Int /\ Rows \in Int /\ Rows >= 1
      BY StagingAssumption
    <3>3. IsFiniteSet(1 .. Rows) /\ Cardinality(1 .. Rows) = IF 1 > Rows THEN 0 ELSE Rows - 1 + 1
      BY <3>2, FS_Interval, Zenon
    <3>4. e \in below /\ below \subseteq 1 .. Rows
      <4>1. e \in 1 .. Rows
        BY <3>1
      <4>2. e \in Int /\ e <= e
        BY <3>2, <4>1
      <4>3. below \subseteq kept
        OBVIOUS
      <4>4. e \in below
        BY <3>1, <4>2
      <4> QED BY <3>1, <4>3, <4>4
    <3>5. Cardinality(1 .. Rows) = Rows
      BY <3>2, <3>3
    <3> QED BY <3>3, <3>4, <3>5
  <2>2. IsFiniteSet(below) /\ Cardinality(below) \in Nat /\ Cardinality(below) <= Rows
    BY <2>1, FS_Subset, FS_CardinalityType
  <2>3. Cardinality(below) # 0
    BY <2>1, <2>2, FS_EmptySet
  <2> HIDE DEF below
  <2>4. Cardinality(below) \in 1 .. Rows
    BY <2>2, <2>3, StagingAssumption
  <2> QED BY <2>4 DEF below, RowNumbers
<1>2. ASSUME NEW e \in kept
      PROVE  <<Cardinality({k \in kept : k <= e}), e>> \in RowNumbers \X RowNumbers
  BY <1>1, <1>2
<1> QED BY <1>2 DEF Zipped

(* One statement gets other entries or other evidence. *)
LEMMA MarkedWrite ==
  ASSUME AInv, Confined, NEW at \in DOMAIN entered, spoilt' \subseteq spoilt \cup {at},
         \/ \E x : entered' = [entered EXCEPT ![at].entries = x]
         \/ \E x \in SUBSET (RowNumbers \X RowNumbers) : entered' = [entered EXCEPT ![at].evidence = x]
  PROVE  Marked'
<1>1. entered \in Seq(Entered) /\ entered[at] \in Entered
  BY DEF AInv, IInv, Tables
<1>2. PICK r : /\ entered' = [entered EXCEPT ![at] = r]
               /\ r.evidence = entered[at].evidence \/ r.evidence \subseteq RowNumbers \X RowNumbers
  <2>1. CASE \E x : entered' = [entered EXCEPT ![at].entries = x]
    <3>1. PICK x : entered' = [entered EXCEPT ![at].entries = x]
      BY <2>1
    <3> DEFINE r == [entered[at] EXCEPT !.entries = x]
    <3>2. r.evidence = entered[at].evidence
      BY <1>1 DEF Entered
    <3>3. entered' = [entered EXCEPT ![at] = r]
      BY <3>1
    <3> QED BY <3>2, <3>3
  <2>2. CASE \E x \in SUBSET (RowNumbers \X RowNumbers) : entered' = [entered EXCEPT ![at].evidence = x]
    <3>1. PICK x \in SUBSET (RowNumbers \X RowNumbers) : entered' = [entered EXCEPT ![at].evidence = x]
      BY <2>2
    <3> DEFINE r == [entered[at] EXCEPT !.evidence = x]
    <3>2. r.evidence = x
      BY <1>1 DEF Entered
    <3>3. entered' = [entered EXCEPT ![at] = r]
      BY <3>1
    <3> QED BY <3>1, <3>2, <3>3
  <2> QED BY <2>1, <2>2
<1>3. DOMAIN entered' = DOMAIN entered /\ entered'[at] = r
      /\ \A n \in DOMAIN entered : n # at => entered'[n] = entered[n]
  BY <1>1, <1>2
<1> QED BY <1>2, <1>3 DEF Confined, Marked

LEMMA MarkedSteps ==
  ASSUME AInv, Confined, Next
  PROVE  Marked'
<1> USE DEF rows, window, history
<1>1. CASE UNCHANGED <<entered, spoilt>>
  BY <1>1 DEF Confined, Marked
<1>2. ASSUME NEW t \in tasks, WriteStatement(t) PROVE Marked'
  <2>1. t.id \in Ids /\ t.file \in Files
    BY <1>2, Document DEF WriteStatement
  <2> DEFINE r == [draft |-> t.id, file |-> t.file, entries |-> {}, evidence |-> {}]
  <2>2. entered \in Seq(Entered) /\ r \in Entered /\ r.evidence = {}
    BY <2>1 DEF AInv, IInv, Tables, Entered
  <2>3. entered' = Append(entered, r) /\ spoilt' = spoilt
    BY <1>2 DEF WriteStatement, InsertStatement
  <2> HIDE DEF r
  <2> QED BY <2>2, <2>3 DEF Confined, Marked
<1>3. ASSUME NEW t \in tasks, t.pc \in CommitSteps \ {"statement"} PROVE t.at \in DOMAIN entered
  BY <1>3, CommitTask DEF AInv
<1>4. ASSUME NEW t \in tasks, MapRows(t) PROVE Marked'
  <2>1. t.at \in DOMAIN entered
    BY <1>3, <1>4 DEF MapRows, CommitSteps
  <2>2. spoilt' \subseteq spoilt \cup {t.at} /\ \E x : entered' = [entered EXCEPT ![t.at].entries = x]
    BY <1>4 DEF MapRows, InsertEntries
  <2> QED BY <2>1, <2>2, MarkedWrite
<1>5. ASSUME NEW t \in tasks, Observe(t) PROVE Marked'
  <2>1. t.at \in DOMAIN entered
    BY <1>3, <1>5 DEF Observe, CommitSteps
  <2>2. entered[t.at].entries \in SUBSET RowNumbers
    <3>1. entered[t.at] \in Entered
      BY <2>1 DEF AInv, IInv, Tables
    <3> QED BY <3>1 DEF Entered
  <2>3. spoilt' \subseteq spoilt \cup {t.at}
        /\ \E x \in SUBSET Zipped(entered[t.at].entries) : entered' = [entered EXCEPT ![t.at].evidence = x]
    BY <1>5 DEF Observe
  <2>4. \E x \in SUBSET (RowNumbers \X RowNumbers) : entered' = [entered EXCEPT ![t.at].evidence = x]
    BY <2>2, <2>3, ZippedWithin
  <2> QED BY <2>1, <2>3, <2>4, MarkedWrite
<1>6. ASSUME NEW t \in tasks, ClassifyBill(t), spoilt' = spoilt \cup {t.at} PROVE Marked'
  <2>1. t.at \in DOMAIN entered
    BY <1>3, <1>6 DEF ClassifyBill, CommitSteps
  <2>2. entered' = entered
    BY <1>6 DEF ClassifyBill
  <2> QED BY <1>6, <2>1, <2>2 DEF Confined, Marked
<1>7. ASSUME Quit PROVE Marked'
  <2>1. \A t \in tasks : t.kind = "commit" => t.at \in DOMAIN entered \cup {0}
    BY <1>3, KindByStep DEF AInv, IInv, Confined, Fresh
  <2> QED BY <1>7, <2>1 DEF Quit, Confined, Marked
<1>8. ASSUME NEW t \in tasks, TaskStep(t) PROVE Marked'
  BY <1>1, <1>2, <1>4, <1>5, <1>6, <1>8
     DEF TaskStep, CheckDuplicate, ResolvePassword, Enqueue, Send, Parse, Block, BlockedAwaitingInstrument,
         CheckCycle, StageDraft, Settle, ClassifyBill, RetainPdf, MarkCommitted
<1>9. CASE ~Quit /\ ~ \E t \in tasks : TaskStep(t)
  <2>1. UNCHANGED <<entered, spoilt>>
    BY <1>9 DEF Next, SelectFiles, NextFile, Attachment, Dispatch, UserOn, SubmitPassword, RetryUnprocessed,
         DiscardUnprocessed, DiscardDraft, CommitDraft, ReparseNext, ReparseAll, ConfirmInstrument,
         CloseInstrumentModal
  <2> QED BY <1>1, <2>1
<1> QED BY <1>7, <1>8, <1>9

LEMMA QueueBounded ==
  ASSUME AInv, Confined, Next
  PROVE  Len(queue') <= QueueCapacity
<1> USE DEF rows, window, history
<1>1. queue \in Seq([id: Nat, batch: Nat]) /\ Len(queue) \in Nat /\ Len(queue) <= QueueCapacity
  BY DEF AInv, IInv, Shape, Confined
<1>2. ASSUME NEW t \in tasks, Send(t) PROVE Len(queue') <= QueueCapacity
  <2>1. queue' = Append(queue, [id |-> t.id, batch |-> t.batch]) /\ Len(queue) < QueueCapacity
    BY <1>2 DEF Send
  <2> QED BY <1>1, <2>1, StagingAssumption
<1>3. CASE Dispatch
  <2>1. queue # <<>> /\ queue' = Tail(queue)
    BY <1>3 DEF Dispatch
  <2> QED BY <1>1, <2>1, StagingAssumption
<1>4. CASE Quit
  BY <1>4, StagingAssumption DEF Quit
<1>5. CASE ~Dispatch /\ ~Quit /\ ~ \E t \in tasks : Send(t)
  <2>1. queue' = queue
    BY <1>5 DEF Next, TaskStep, CheckDuplicate, ResolvePassword, Enqueue, Parse, Block, CheckCycle, StageDraft,
         Settle, WriteStatement, MapRows, Observe, ClassifyBill, RetainPdf, MarkCommitted,
         SelectFiles, NextFile, Attachment, UserOn, SubmitPassword, RetryUnprocessed,
         DiscardUnprocessed, DiscardDraft, CommitDraft, ReparseNext, ReparseAll, ConfirmInstrument,
         CloseInstrumentModal
  <2> QED BY <1>1, <2>1
<1> QED BY <1>2, <1>3, <1>4, <1>5

LEMMA NextConfined == AInv /\ Confined /\ [Next]_vars => Confined'
<1>1. ASSUME AInv, Confined, Next PROVE Confined'
  BY <1>1, TabledByTask, TabledElsewhere, FreshSteps, MarkedSteps, QueueBounded DEF Confined
<1>2. ASSUME Confined, UNCHANGED vars PROVE Confined'
  BY <1>2 DEF vars, rows, window, history, Confined, Tabled, Fresh, Marked
<1> QED BY <1>1, <1>2

LEMMA ConfinedTypes ==
  ASSUME AInv, Confined
  PROVE  TypeOK
<1>1. Drawn \subseteq Ids /\ \A t \in tasks : t.pc # "check" => t.id \in Ids
  BY DrawnIds DEF AInv
<1>2. entered \in Seq(Statement)
  <2>1. entered \in Seq(Entered) /\ \A n \in DOMAIN entered : entered[n] \in Entered
    BY DEF AInv, IInv, Tables
  <2>2. \A n \in DOMAIN entered : entered[n] \in Statement
    BY <2>1 DEF Entered, Statement, Confined, Marked
  <2> QED BY <2>1, <2>2
<1>3. queue \in Seq([id: Ids, batch: Nat]) /\ Len(queue) <= QueueCapacity
  <2> DEFINE Place == [id: Nat, batch: Nat]
  <2>1. queue \in Seq(Place) /\ \A n \in DOMAIN queue : queue[n].id \in Ids
    BY <1>1 DEF AInv, IInv, Shape
  <2>2. \A n \in DOMAIN queue : queue[n] \in Place
    <3> HIDE DEF Place
    <3> QED BY <2>1
  <2>3. \A n \in DOMAIN queue : queue[n] \in [id: Ids, batch: Nat]
    BY <2>1, <2>2
  <2> DEFINE Kept == [id: Ids, batch: Nat]
  <2>4. \A n \in DOMAIN queue : queue[n] \in Kept
    BY <2>3
  <2> HIDE DEF Place, Kept
  <2>5. queue \in Seq(Kept)
    BY <2>1, <2>4
  <2> QED BY <2>5 DEF Kept, Confined
<1>4. tasks \subseteq Task
  <2>1. ASSUME NEW t \in tasks PROVE t \in Task
    <3>1. t.id \in 0 .. MaxIds
      BY <1>1, StagingAssumption DEF Confined, Fresh, Ids
    <3> QED BY <3>1, KindByStep
        DEF AInv, IInv, Task, Tasks, Work, OtherKinds, OtherSteps, CommitSteps
  <2> QED BY <2>1
<1>5. prompt \in 0 .. MaxIds /\ sweep \subseteq Ids
  BY <1>1, StagingAssumption DEF AInv, IInv, Shape, Ids
<1>6. \A b \in DOMAIN batches : batches[b].left \subseteq Files
  <2>1. \A b \in DOMAIN batches : batches[b] \in Batch
    BY DEF AInv, IInv, Shape
  <2> QED BY <2>1 DEF Batch
<1> QED BY <1>2, <1>3, <1>4, <1>5, <1>6
    DEF AInv, IInv, Shape, Tables, Histories, Confined, Tabled, Marked, TypeOK

(* Every row, job and task is about a document that was drawn, the queue   *)
(* keeps within its places, and evidence pairs a row with an entry of the  *)
(* same statement (the statement queue, commit_staged_draft).              *)
THEOREM TypeCorrect == Spec => []TypeOK
<1>1. Init => AInv
  BY InitPInv DEF PInv
<1> QED BY <1>1, InitConfined, NextAInv, NextConfined, ConfinedTypes, PTL DEF Spec
=============================================================================
