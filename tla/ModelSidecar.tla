---------------------------- MODULE ModelSidecar ----------------------------
(***************************************************************************)
(* The local language model (src/src-tauri/src/llama_sidecar.rs,           *)
(* llm_manager.rs, commands/llm.rs): model files that are downloaded,      *)
(* chosen and deleted, the one server process that serves the chosen model *)
(* and the calls made of it, which are never to overload it.               *)
(*                                                                         *)
(* A file's size counts portions.  A start of the server is a number, of   *)
(* which its process, its port and its semaphore carry the name.  An       *)
(* optional value is a set of at most one.                                 *)
(***************************************************************************)
EXTENDS Integers, FiniteSets

CONSTANTS Models,        \* the catalogue
          Tier,          \* of a model, the smaller the lighter
          DefaultModel,
          Whole,         \* portions of a model's file
          SafeSlots,     \* per model: how many slots memory has room for
          Calls,         \* tasks that ask the model
          Transfers,     \* downloads under way at once
          MaxStarts      \* bound: starts of the server

ASSUME SidecarAssumption == IsFiniteSet(Calls) /\ MaxStarts \in Nat /\ Whole \in Nat

VARIABLES files,      \* per model: portions on disk, whether they are those of the model, marker
          transfers,  \* per transfer: the model it downloads
          token,      \* per model: the transfer that a cancellation reaches, an option
          preferred,  \* the model stored as the user's choice, an option
          wantedSlots,
          server,     \* what the process knows of the server
          starts,     \* start tasks under way
          started,    \* how many there were
          alive,      \* server processes
          measured,   \* per start: the concurrency it was measured to sustain
          calls       \* per caller: where its call stands

files_ == <<files, transfers, token, preferred>>
server_ == <<server, starts, started, alive, measured>>
sidecarVars == <<files, transfers, token, preferred, wantedSlots, server, starts, started, alive, measured, calls>>

NoFile == [size |-> 0, sound |-> TRUE, marked |-> FALSE]
Downloaded == [size |-> Whole, sound |-> TRUE, marked |-> TRUE]
Idle   == [on |-> "nothing", model |-> {}]
Quiet  == [phase |-> "quiet", at |-> 0, permit |-> 0]

SidecarInit ==
  /\ files \in [Models -> {NoFile, Downloaded}] /\ transfers = [t \in Transfers |-> Idle]
  /\ token = [m \in Models |-> {}] /\ preferred = {} /\ wantedSlots = 1
  /\ server = [state |-> "not_started", model |-> {}, slots |-> 0, at |-> 0, permits |-> 0]
  /\ starts = {} /\ started = 0 /\ alive = {} /\ measured = <<>>
  /\ calls = [c \in Calls |-> Quiet]

-----------------------------------------------------------------------------
(* Model files.                                                            *)

(* A marked file, or one of at least half the size to be expected.         *)
Present(fs, m) == fs[m].size > 0 /\ (fs[m].marked \/ 2 * fs[m].size >= Whole)

(* The choice if it is there, else the default, else the lightest.         *)
ResolveActive(fs, choice) ==
  LET there == {m \in Models : Present(fs, m)}
  IN CASE choice \cap there # {}  -> choice \cap there
       [] DefaultModel \in there  -> {DefaultModel}
       [] OTHER -> {m \in there : \A n \in there : Tier[m] <= Tier[n]}

Writing(m) == {t \in Transfers : transfers[t].on = "file" /\ transfers[t].model = {m}}

(* What is there of the file is resumed, if the service allows it, or else *)
(* overwritten; the marker of an earlier file stays.                       *)
StartDownload(t, m) ==
  /\ transfers[t] = Idle /\ ~Present(files, m)
  /\ \E resumed \in BOOLEAN :
       files' = [files EXCEPT ![m] =
         [size |-> IF resumed THEN files[m].size ELSE 0, marked |-> files[m].marked,
          sound |-> Writing(m) = {} /\ (files[m].sound \/ ~resumed)]]
  /\ transfers' = [transfers EXCEPT ![t] = [on |-> "file", model |-> {m}]]
  /\ token' = [token EXCEPT ![m] = {t}]
  /\ UNCHANGED <<preferred, wantedSlots, server_, calls>>

(* Two writers of one file spoil it.                                       *)
Receive(t) ==
  /\ transfers[t].on = "file"
  /\ \E m \in transfers[t].model :
       /\ files[m].size < Whole
       /\ files' = [files EXCEPT ![m].size = files[m].size + 1,
                                 ![m].sound = files[m].sound /\ Writing(m) = {t}]
  /\ UNCHANGED <<transfers, token, preferred, wantedSlots, server_, calls>>

(* Whoever still writes a file that is removed goes on writing it.         *)
Removed(m) ==
  [t \in Transfers |-> IF t \in Writing(m) THEN [transfers[t] EXCEPT !.on = "removed"] ELSE transfers[t]]

(* The hash of what was received decides; a spoilt file may hash well, for *)
(* the hash is taken of the stream, and a file removed meanwhile is marked.*)
FinishDownload(t) ==
  /\ transfers[t] # Idle
  /\ \E m \in transfers[t].model :
       /\ files[m].size = Whole \/ transfers[t].on = "removed"
       /\ \E hashed \in {h \in BOOLEAN : transfers[t].on = "file" /\ files[m].sound => h} :
            IF hashed
            THEN /\ files' = [files EXCEPT ![m].marked = TRUE]
                 /\ transfers' = [transfers EXCEPT ![t] = Idle]
            ELSE /\ files' = [files EXCEPT ![m] = [NoFile EXCEPT !.marked = files[m].marked]]
                 /\ transfers' = [Removed(m) EXCEPT ![t] = Idle]
       /\ token' = [token EXCEPT ![m] = {}]
  /\ UNCHANGED <<preferred, wantedSlots, server_, calls>>

(* A connection that breaks leaves what was received, to be resumed.       *)
BreakDownload(t) ==
  /\ transfers[t] # Idle
  /\ transfers' = [transfers EXCEPT ![t] = Idle]
  /\ token' = [m \in Models |-> IF {m} = transfers[t].model THEN {} ELSE token[m]]
  /\ UNCHANGED <<files, preferred, wantedSlots, server_, calls>>

CancelDownload(m) ==
  /\ token[m] # {} /\ token' = [token EXCEPT ![m] = {}]
  /\ files' = [files EXCEPT ![m] = NoFile]
  /\ transfers' = [t \in Transfers |-> IF t \in token[m] THEN Idle ELSE Removed(m)[t]]
  /\ UNCHANGED <<preferred, wantedSlots, server_, calls>>

DeleteModel(m) ==
  /\ Present(files, m)
  /\ files' = [files EXCEPT ![m] = NoFile]
  /\ transfers' = Removed(m)
  /\ preferred' = ResolveActive(files', preferred)
  /\ UNCHANGED <<token, wantedSlots, server_, calls>>

SetActive(m) ==
  /\ Present(files, m) /\ preferred' = {m}
  /\ UNCHANGED <<files, transfers, token, wantedSlots, server_, calls>>

SetSlots(n) ==
  /\ \A m \in ResolveActive(files, preferred) : n <= SafeSlots[m]
  /\ n # wantedSlots /\ wantedSlots' = n
  /\ UNCHANGED <<files_, server_, calls>>

-----------------------------------------------------------------------------
(* The server.                                                             *)

StartTask(m) == [at |-> started + 1, model |-> m, slots |-> wantedSlots]

(* ensure_server_ready, under the lock: a call is let through to a server  *)
(* of the chosen model and slots; any other is stopped, and one is started *)
(* unless a start is under way or failed a moment ago.                     *)
LetThrough(c) ==
  /\ calls[c] = Quiet /\ server.state = "ready"
  /\ \E m \in ResolveActive(files, preferred) : server.model = {m}
  /\ server.slots = wantedSlots
  /\ calls' = [calls EXCEPT ![c] = [phase |-> "queued", at |-> server.at, permit |-> server.permits]]
  /\ UNCHANGED <<files_, wantedSlots, server_>>

Launch(c) ==
  /\ calls[c] = Quiet /\ started < MaxStarts
  /\ \E m \in ResolveActive(files, preferred) :
       /\ \/ server.state \in {"not_started", "failed"}
          \/ server.state = "ready" /\ (server.model # {m} \/ server.slots # wantedSlots)
       /\ starts' = starts \cup {StartTask(m)}
  /\ alive' = alive \ (IF server.state = "ready" THEN {server.at} ELSE {})
  /\ server' = [server EXCEPT !.state = "starting",
                               !.at = IF server.state = "ready" THEN 0 ELSE server.at]
  /\ started' = started + 1
  /\ UNCHANGED <<files_, wantedSlots, measured, calls>>

(* The process runs as soon as its model is found.                         *)
Spawn(s) ==
  /\ s.at \notin alive /\ Present(files, s.model)
  /\ alive' = alive \cup {s.at}
  /\ UNCHANGED <<files_, wantedSlots, server, starts, started, measured, calls>>

(* Regression: the calls of a new server share the permits of the old one. *)
BecomeReadyShared(s) ==
  /\ s.at \in alive
  /\ \E n \in 1 .. s.slots :
       /\ measured' = [g \in DOMAIN measured \cup {s.at} |-> IF g = s.at THEN n ELSE measured[g]]
       /\ server' = [state |-> "ready", model |-> {s.model}, slots |-> s.slots, at |-> s.at,
                     permits |-> IF server.permits = 0 THEN s.at ELSE server.permits]
  /\ alive' = alive \ (IF server.at = 0 THEN {} ELSE {server.at})
  /\ starts' = starts \ {s}
  /\ UNCHANGED <<files_, wantedSlots, started, calls>>

(* Healthy and measured, alone and under a burst: as many permits as the   *)
(* slowdown allows.  A process it displaces is killed.                     *)
BecomeReady(s) ==
  /\ s.at \in alive
  /\ \E n \in 1 .. s.slots :
       measured' = [g \in DOMAIN measured \cup {s.at} |-> IF g = s.at THEN n ELSE measured[g]]
  /\ server' = [state |-> "ready", model |-> {s.model}, slots |-> s.slots, at |-> s.at, permits |-> s.at]
  /\ alive' = alive \ (IF server.at = 0 THEN {} ELSE {server.at})
  /\ starts' = starts \ {s}
  /\ UNCHANGED <<files_, wantedSlots, started, calls>>

(* No binary, no model, an exit or no health within two minutes.           *)
FailStart(s) ==
  /\ alive' = alive \ {s.at} /\ starts' = starts \ {s}
  /\ server' = [server EXCEPT !.state = "cooling"]
  /\ UNCHANGED <<files_, wantedSlots, started, measured, calls>>

CoolDown ==
  /\ server.state = "cooling" /\ server' = [server EXCEPT !.state = "failed"]
  /\ UNCHANGED <<files_, wantedSlots, starts, started, alive, measured, calls>>

(* A process that dies is not noticed.                                     *)
Die(g) ==
  /\ alive' = alive \ {g}
  /\ UNCHANGED <<files_, wantedSlots, server, starts, started, measured, calls>>

(* The data were erased.                                                   *)
Shutdown ==
  /\ server.state # "not_started"
  /\ alive' = alive \ {server.at}
  /\ server' = [server EXCEPT !.state = "not_started", !.at = 0]
  /\ UNCHANGED <<files_, wantedSlots, starts, started, measured, calls>>

-----------------------------------------------------------------------------
(* Calls.                                                                  *)

Holding(permit) == {c \in Calls : calls[c].phase = "asked" /\ calls[c].permit = permit}

Acquire(c) ==
  /\ calls[c].phase = "queued"
  /\ Cardinality(Holding(calls[c].permit)) < measured[calls[c].permit]
  /\ calls' = [calls EXCEPT ![c].phase = "asked"]
  /\ UNCHANGED <<files_, wantedSlots, server_>>

(* An answer, an error or the measured timeout.                            *)
Answer(c) ==
  /\ calls[c].phase = "asked" /\ calls' = [calls EXCEPT ![c] = Quiet]
  /\ UNCHANGED <<files_, wantedSlots, server_>>

SidecarNext ==
  \/ \E t \in Transfers : Receive(t) \/ FinishDownload(t) \/ BreakDownload(t)
  \/ \E m \in Models : \/ DeleteModel(m) \/ SetActive(m) \/ CancelDownload(m)
                      \/ \E t \in Transfers : StartDownload(t, m)
  \/ \E n \in 1 .. 10 : SetSlots(n)
  \/ \E c \in Calls : LetThrough(c) \/ Launch(c) \/ Acquire(c) \/ Answer(c)
  \/ \E s \in starts : Spawn(s) \/ BecomeReady(s) \/ FailStart(s)
  \/ \E g \in alive : Die(g)
  \/ CoolDown \/ Shutdown

SidecarSpec == SidecarInit /\ [][SidecarNext]_sidecarVars

-----------------------------------------------------------------------------
SidecarTypeOK ==
  /\ \A m \in Models : files[m].size \in 0 .. Whole
  /\ \A t \in Transfers : transfers[t].on \in {"nothing", "file", "removed"}
  /\ server.state \in {"not_started", "starting", "ready", "cooling", "failed"}
  /\ alive \cup DOMAIN measured \subseteq 1 .. started

(* Whatever is reconfigured, restarted, shut down or dies while calls are  *)
(* waiting or being served, no server is asked more at once than it was    *)
(* measured to sustain, and one process at most runs that no start task    *)
(* still owns (ensure_server_ready, start_server_task).                    *)
ServerWithinMeasure ==
  /\ \A g \in DOMAIN measured :
       Cardinality({c \in Calls : calls[c].phase = "asked" /\ calls[c].at = g}) <= measured[g]
  /\ Cardinality(alive \ {s.at : s \in starts}) <= 1
=============================================================================
