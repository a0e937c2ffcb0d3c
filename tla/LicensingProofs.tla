---------------------------- MODULE LicensingProofs ----------------------------
(***************************************************************************)
(* Proofs about Licensing, for any lengths of token, grace and trial and   *)
(* any settings of the clock: the right to write is the lease of           *)
(* LicenceLease, and only a command of the user brings back a licence that *)
(* was released or locked.  Both rest on what the service's answers can    *)
(* say (Honest): never a status the client would take for another one.     *)
(***************************************************************************)
EXTENDS Licensing, TLAPS

Types ==
  /\ time \in Nat /\ offset \in Int /\ settings \in Nat
  /\ expiry \in Int

Honest ==
  /\ check.phase = "answered" => check.says = "validated" /\ check.token \in Int
  /\ user.phase = "answered" => /\ user.says \in {"validated", "activated", "deactivated"}
                                /\ user.token \in Int

IInv == Types /\ Honest

-----------------------------------------------------------------------------
(* A call that is answered or refused. *)
LEMMA Answered ==
  ASSUME NEW call, NEW says
  PROVE  /\ Along(call, Reply(says)).phase = "answered"
         /\ Along(call, Reply(says)).says = says
         /\ Along(call, Reply(says)).token = time + TokenLife
  BY DEF Along, Reply

LEMMA Refused ==
  ASSUME NEW call
  PROVE  Along(call, Refusal).phase = "failed"
  BY DEF Along, Refusal

LEMMA IdlePhase == NoCall.phase = "idle"
  BY DEF NoCall

LEMMA InitIInv == LicenceInit => IInv
  BY IdlePhase DEF LicenceInit, IInv, Types, Honest

-----------------------------------------------------------------------------
LEMMA WorkerPreserves ==
  ASSUME IInv, WorkerStep
  PROVE  IInv'
<1>1. UNCHANGED <<time, offset, settings, user>>
  BY DEF WorkerStep, Poll, StoreAnswer, DistrustAnswer, Tolerate, calendar
<1>2. expiry' \in Int
  BY DEF WorkerStep, Poll, StoreAnswer, DistrustAnswer, Tolerate, row, IInv, Types, Honest
<1>3. check'.phase # "answered" \/ check' = check
  BY IdlePhase DEF WorkerStep, Poll, StoreAnswer, DistrustAnswer, Tolerate
<1> QED BY <1>1, <1>2, <1>3 DEF IInv, Types, Honest

LEMMA UserPreserves ==
  ASSUME IInv, UserStep
  PROVE  IInv'
<1>1. UNCHANGED <<time, offset, settings, check>>
  BY DEF UserStep, Ask, FinishActivation, FinishRefresh, FinishDeactivation, ShowError, calendar
<1>2. expiry' \in Int
  BY DEF UserStep, Ask, FinishActivation, FinishRefresh, FinishDeactivation, ShowError, row,
         IInv, Types, Honest
<1>3. user'.phase # "answered"
  BY IdlePhase DEF UserStep, Ask, FinishActivation, FinishRefresh, FinishDeactivation, ShowError
<1> QED BY <1>1, <1>2, <1>3 DEF IInv, Types, Honest

LEMMA ServicePreserves ==
  ASSUME IInv, ServiceStep
  PROVE  IInv'
<1>1. UNCHANGED <<time, offset, settings, expiry, cached>>
  BY DEF ServiceStep, ServeWorker, ServeRefresh, ServeDeactivation, CheckActivation,
         ServeActivation, OtherMachine, BillingEvent, LoseWorkerCall, LoseUserCall, calendar, row
<1>2. time + TokenLife \in Int
  BY LicensingAssumption DEF IInv, Types
<1>3. Validation = Reply("validated") \/ Validation = Refusal
  BY DEF Validation
<1>4. \/ check' = check
      \/ check'.phase = "answered" /\ check'.says = "validated" /\ check'.token \in Int
      \/ check'.phase = "failed"
  BY <1>2, <1>3, Answered, Refused
     DEF ServiceStep, ServeWorker, ServeRefresh, ServeDeactivation, CheckActivation,
         ServeActivation, OtherMachine, BillingEvent, LoseWorkerCall, LoseUserCall
<1>5. \/ user' = user
      \/ /\ user'.phase = "answered" /\ user'.token \in Int
         /\ user'.says \in {"validated", "activated", "deactivated"}
      \/ user'.phase \in {"failed", "checked"}
  BY <1>2, <1>3, Answered, Refused
     DEF ServiceStep, ServeWorker, ServeRefresh, ServeDeactivation, CheckActivation,
         ServeActivation, OtherMachine, BillingEvent, LoseWorkerCall, LoseUserCall
<1> QED BY <1>1, <1>4, <1>5 DEF IInv, Types, Honest

LEMMA MachinePreserves ==
  ASSUME IInv, Tick \/ SetClock \/ EndSession \/ UNCHANGED licenceVars
  PROVE  IInv'
<1>1. CASE Tick
  BY <1>1 DEF Tick, service, row, IInv, Types, Honest
<1>2. CASE SetClock
  BY <1>2, LicensingAssumption DEF SetClock, service, row, IInv, Types, Honest
<1>3. CASE EndSession
  BY <1>3, IdlePhase DEF EndSession, calendar, service, row, IInv, Types, Honest
<1>4. CASE UNCHANGED licenceVars
  BY <1>4 DEF licenceVars, service, row, calendar, IInv, Types, Honest
<1> QED BY <1>1, <1>2, <1>3, <1>4

LEMMA NextPreserves == IInv /\ [LicenceNext]_licenceVars => IInv'
  BY WorkerPreserves, UserPreserves, ServicePreserves, MachinePreserves DEF LicenceNext
-----------------------------------------------------------------------------
(* The lease.  What a step leaves of the right to write. *)

LEMMA RightKept ==
  ASSUME UNCHANGED <<time, offset, cached, expiry>>
  PROVE  RightToWrite' = RightToWrite
  BY DEF RightToWrite, Released, WriteAllowed, InTrial, Verifies, Clock

LEMMA RightLost ==
  ASSUME cached' \in {"locked", "anonymous"}
  PROVE  RightToWrite' = "withdrawn"
  BY DEF RightToWrite, Released

(* Grace allows what an active licence allows. *)
LEMMA RightInGrace ==
  ASSUME Transition("grace"), UNCHANGED <<time, offset, expiry>>
  PROVE  RightToWrite' = RightToWrite
<1>1. cached' = cached \/ (cached = "active" /\ cached' = "grace")
  BY DEF Transition, Legal
<1> QED BY <1>1 DEF RightToWrite, Released, WriteAllowed, InTrial, Verifies, Clock

(* What an answer of the service says counts as active. *)
LEMMA RightGranted ==
  ASSUME NEW says \in {"validated", "activated", "deactivated"}, cached' = ParsedStatus(says)
  PROVE  cached' = "active" /\ RightToWrite' \in {"licensed", "lapsed"}
<1>1. cached' = "active"
  BY DEF ParsedStatus, Statuses
<1> QED BY <1>1 DEF RightToWrite, Released, WriteAllowed

LEMMA TransitionLocks ==
  ASSUME Transition("locked")
  PROVE  cached' \in {cached, "locked"}
  BY DEF Transition

LEMMA WorkerLapses ==
  ASSUME IInv, WorkerStep
  PROVE  UNCHANGED <<user, settings>> /\ RightToWrite' \in {RightToWrite, "withdrawn"}
<1>1. UNCHANGED <<user, time, offset, settings>>
  BY DEF WorkerStep, Poll, StoreAnswer, DistrustAnswer, Tolerate, calendar
<1>2. CASE Poll \/ DistrustAnswer
  <2>1. cached' \in {cached, "locked"} /\ expiry' = expiry
    BY <1>2, TransitionLocks DEF Poll, DistrustAnswer
  <2> QED BY <1>1, <2>1, RightKept, RightLost
<1>3. CASE StoreAnswer
  <2>1. check.says \notin Statuses
    BY <1>3 DEF StoreAnswer, IInv, Honest, Statuses
  <2>2. UNCHANGED <<cached, expiry>>
    BY <1>3, <2>1 DEF StoreAnswer
  <2> QED BY <1>1, <2>2, RightKept
<1>4. CASE Tolerate
  <2>1. expiry' = expiry /\ (Transition("grace") \/ cached' \in {cached, "locked"})
    BY <1>4, TransitionLocks DEF Tolerate
  <2> QED BY <1>1, <2>1, RightKept, RightLost, RightInGrace
<1> QED BY <1>1, <1>2, <1>3, <1>4 DEF WorkerStep

LEMMA UserIsTold ==
  ASSUME IInv, UserStep
  PROVE  /\ settings' = settings
         /\ \/ ~Busy(user) /\ Busy(user') /\ RightToWrite' = RightToWrite
            \/ /\ Busy(user) /\ ~Busy(user')
               /\ RightToWrite' \in {RightToWrite, "licensed", "lapsed", "withdrawn"}
<1>1. UNCHANGED <<time, offset, settings>>
  BY DEF UserStep, Ask, FinishActivation, FinishRefresh, FinishDeactivation, ShowError, calendar
<1>2. ASSUME NEW op \in Operations, Ask(op)
      PROVE  ~Busy(user) /\ Busy(user') /\ RightToWrite' = RightToWrite
  BY <1>2, <1>1, RightKept DEF Ask, Busy, row
<1>3. CASE FinishActivation \/ FinishRefresh
  <2>1. Busy(user) /\ ~Busy(user')
    BY <1>3, IdlePhase DEF FinishActivation, FinishRefresh, Busy
  <2>2. user.says \in {"validated", "activated", "deactivated"}
    BY <1>3 DEF FinishActivation, FinishRefresh, IInv, Honest
  <2>3. cached' = ParsedStatus(user.says) \/ UNCHANGED <<cached, expiry>>
    BY <1>3 DEF FinishActivation, FinishRefresh
  <2> QED BY <1>1, <2>1, <2>2, <2>3, RightKept, RightGranted
<1>4. CASE FinishDeactivation
  <2>1. Busy(user) /\ ~Busy(user')
    BY <1>4, IdlePhase DEF FinishDeactivation, Busy
  <2>2. cached' \in {cached, "anonymous"} /\ expiry' = expiry
    BY <1>4 DEF FinishDeactivation
  <2> QED BY <1>1, <2>1, <2>2, RightKept, RightLost
<1>5. CASE ShowError
  <2>1. Busy(user) /\ ~Busy(user')
    BY <1>5, IdlePhase DEF ShowError, Busy
  <2> QED BY <1>1, <1>5, <2>1, RightKept DEF ShowError, row
<1> QED BY <1>1, <1>2, <1>3, <1>4, <1>5 DEF UserStep

LEMMA ServiceKeepsRight ==
  ASSUME IInv, ServiceStep
  PROVE  settings' = settings /\ Busy(user') = Busy(user) /\ RightToWrite' = RightToWrite
<1>1. UNCHANGED <<time, offset, settings, expiry, cached>>
  BY DEF ServiceStep, ServeWorker, ServeRefresh, ServeDeactivation, CheckActivation,
         ServeActivation, OtherMachine, BillingEvent, LoseWorkerCall, LoseUserCall, calendar, row
<1>2. Validation = Reply("validated") \/ Validation = Refusal
  BY DEF Validation
<1>3. user' = user \/ (user.phase # "idle" /\ user'.phase # "idle")
  BY <1>2, Answered, Refused
     DEF ServiceStep, ServeWorker, ServeRefresh, ServeDeactivation, CheckActivation,
         ServeActivation, OtherMachine, BillingEvent, LoseWorkerCall, LoseUserCall
<1> QED BY <1>1, <1>3, RightKept DEF Busy

(* Time takes a right away and gives none back. *)
LEMMA TimeLapses ==
  ASSUME IInv, Tick
  PROVE  UNCHANGED <<user, settings>> /\ RightToWrite' \in {RightToWrite, "lapsed"}
         /\ (RightToWrite = "withdrawn" => RightToWrite' = "withdrawn")
<1>1. UNCHANGED <<user, settings, cached, expiry, offset>> /\ time' = time + 1
  BY DEF Tick, row
<1>2. InTrial' => InTrial
  BY <1>1, LicensingAssumption DEF InTrial, Clock, IInv, Types
<1>3. Verifies(expiry)' => Verifies(expiry)
  BY <1>1 DEF Verifies, Clock, IInv, Types
<1>4. WriteAllowed' => WriteAllowed
  BY <1>1, <1>2, <1>3 DEF WriteAllowed
<1> QED BY <1>1, <1>4 DEF RightToWrite, Released

-----------------------------------------------------------------------------
(* KeepsLease, for every instance: licensing implements the lease - trial, *)
(* grace, lost calls and quits only end the right to write or leave it, a  *)
(* trial that ended begins anew only on a clock that was set, and what the *)
(* user gave up or a lock took comes back neither from the worker's call   *)
(* nor with the clock (state_machine::transition, gate.rs, worker.rs).     *)
THEOREM ImplementsLease == LicenceSpec => KeepsLease
<1>1. LicenceInit => Lease!Init
  BY IdlePhase, LicensingAssumption
     DEF LicenceInit, Lease!Init, RightToWrite, Released, WriteAllowed, InTrial, Clock, Busy
<1>2. IInv /\ [LicenceNext]_licenceVars => [Lease!Next]_(Lease!vars)
  <2> SUFFICES ASSUME IInv, [LicenceNext]_licenceVars PROVE [Lease!Next]_(Lease!vars)
    OBVIOUS
  <2>1. CASE WorkerStep
    BY <2>1, WorkerLapses DEF Lease!Next, Lease!Lapse, Lease!Stands, Lease!vars
  <2>2. CASE UserStep
    BY <2>2, UserIsTold DEF Lease!Next, Lease!Ask, Lease!Told, Lease!vars
  <2>3. CASE ServiceStep
    BY <2>3, ServiceKeepsRight DEF Lease!vars
  <2>4. CASE Tick
    BY <2>4, TimeLapses DEF Lease!Next, Lease!Lapse, Lease!Stands, Lease!vars
  <2>5. CASE SetClock
    <3>1. settings' > 0 /\ user' = user
      BY <2>5 DEF SetClock, IInv, Types
    <3>2. cached' = cached
      BY <2>5 DEF SetClock, row
    <3>3. IF RightToWrite # "withdrawn" THEN RightToWrite' \in {"trial", "licensed", "lapsed"}
          ELSE RightToWrite' = RightToWrite
      BY <3>2 DEF RightToWrite, Released
    <3> QED BY <3>1, <3>3 DEF Lease!Next, Lease!Turn, Lease!Stands
  <2>6. CASE EndSession
    <3>1. ~Busy(user') /\ settings' = settings /\ RightToWrite' = RightToWrite
      BY <2>6, IdlePhase, RightKept DEF EndSession, Busy, calendar, row
    <3>2. (user'.phase # "idle") = FALSE
      BY <3>1 DEF Busy
    <3>3. CASE user.phase # "idle"
      BY <3>1, <3>2, <3>3 DEF Lease!Next, Lease!Told, Busy
    <3>4. CASE user.phase = "idle"
      BY <3>1, <3>2, <3>4 DEF Lease!vars, Busy
    <3> QED BY <3>3, <3>4
  <2>7. CASE UNCHANGED licenceVars
    BY <2>7, RightKept DEF licenceVars, calendar, row, Lease!vars
  <2> QED BY <2>1, <2>2, <2>3, <2>4, <2>5, <2>6, <2>7 DEF LicenceNext
<1> QED BY InitIInv, NextPreserves, <1>1, <1>2, PTL DEF LicenceSpec, KeepsLease, Lease!Spec

(* OnlyUserReactivates, for every instance: once released or locked, the   *)
(* licence comes back only when a call of the user returns, never from the *)
(* worker (start_background_validation, state_machine::transition).        *)
THEOREM ReactivationIsAsked == LicenceSpec => OnlyUserReactivates
<1>1. IInv /\ [LicenceNext]_licenceVars => [Released /\ ~Released' => Busy(user) /\ ~Busy(user')]_licenceVars
  <2> SUFFICES ASSUME IInv, LicenceNext, Released, ~Released'
               PROVE  Busy(user) /\ ~Busy(user')
    OBVIOUS
  <2>1. ~ (UNCHANGED cached)
    BY DEF Released
  <2>2. CASE WorkerStep
    <3>1. check.phase = "answered" => check.says \notin Statuses
      BY DEF IInv, Honest, Statuses
    <3>2. cached' \in {cached, "locked"} \/ Transition("grace")
      BY <2>2, <3>1, TransitionLocks DEF WorkerStep, Poll, StoreAnswer, DistrustAnswer, Tolerate
    <3> QED BY <3>2 DEF Released, Transition, Legal
  <2>3. CASE UserStep
    BY <2>1, <2>3, UserIsTold, IdlePhase
       DEF UserStep, Ask, FinishActivation, FinishRefresh, FinishDeactivation, ShowError, Busy, row
  <2>4. CASE ServiceStep
    BY <2>1, <2>4
       DEF ServiceStep, ServeWorker, ServeRefresh, ServeDeactivation, CheckActivation,
           ServeActivation, OtherMachine, BillingEvent, LoseWorkerCall, LoseUserCall, row
  <2>5. CASE Tick \/ SetClock \/ EndSession
    BY <2>1, <2>5 DEF Tick, SetClock, EndSession, row
  <2> QED BY <2>2, <2>3, <2>4, <2>5 DEF LicenceNext
<1> QED BY InitIInv, NextPreserves, <1>1, PTL DEF LicenceSpec, OnlyUserReactivates

-----------------------------------------------------------------------------
(* Types as LicenceTypeOK states them. *)
LEMMA RowTypes ==
  ASSUME IInv, LicenceTypeOK, WorkerStep \/ UserStep
  PROVE  /\ cached' \in Statuses \cup {"unset"}
         /\ expiry' \in Int /\ validated' \in Int /\ known' \in Int
<1>1. Clock \in Int
  BY DEF Clock, IInv, Types
<1>2. ASSUME NEW to \in Statuses, Transition(to) PROVE cached' \in Statuses \cup {"unset"}
  BY <1>2 DEF Transition, LicenceTypeOK
<1>3. {"locked", "grace", "active", "anonymous"} \subseteq Statuses
  BY DEF Statuses
<1>4. \A answer : ParsedStatus(answer) \in Statuses
  BY <1>3 DEF ParsedStatus
<1>5. CASE WorkerStep
  BY <1>1, <1>2, <1>3, <1>5 DEF WorkerStep, Poll, StoreAnswer, DistrustAnswer, Tolerate, row, IInv, Honest, LicenceTypeOK
<1>6. CASE UserStep
  BY <1>1, <1>3, <1>4, <1>6 DEF UserStep, Ask, FinishActivation, FinishRefresh, FinishDeactivation, ShowError,
     row, IInv, Honest, LicenceTypeOK
<1> QED BY <1>5, <1>6

LEMMA WorkerTypes ==
  ASSUME IInv, LicenceTypeOK, WorkerStep
  PROVE  LicenceTypeOK'
<1>1. /\ check'.phase \in {"idle", "asked", "answered", "failed"}
      /\ UNCHANGED <<time, offset, settings, subscription, bound, user, requests>>
  BY IdlePhase DEF WorkerStep, Poll, StoreAnswer, DistrustAnswer, Tolerate, calendar, service, LicenceTypeOK
<1> QED BY <1>1, RowTypes DEF LicenceTypeOK

LEMMA UserTypes ==
  ASSUME IInv, LicenceTypeOK, UserStep
  PROVE  LicenceTypeOK'
<1>1. /\ user'.phase \in {"idle", "asked"} /\ requests' \in 0 .. MaxRequests
      /\ UNCHANGED <<time, offset, settings, subscription, bound, check>>
  BY IdlePhase, LicensingAssumption
     DEF UserStep, Ask, FinishActivation, FinishRefresh, FinishDeactivation, ShowError, calendar, service, LicenceTypeOK
<1> QED BY <1>1, RowTypes DEF LicenceTypeOK

LEMMA ServiceTypes ==
  ASSUME IInv, LicenceTypeOK, ServiceStep
  PROVE  LicenceTypeOK'
<1>1. UNCHANGED <<time, offset, settings, cached, expiry, validated, known, requests>>
  BY DEF ServiceStep, ServeWorker, ServeRefresh, ServeDeactivation, CheckActivation,
         ServeActivation, OtherMachine, BillingEvent, LoseWorkerCall, LoseUserCall, calendar, row
<1>2. Validation = Reply("validated") \/ Validation = Refusal
  BY DEF Validation
<1>3. \/ check' = check
      \/ check'.phase \in {"answered", "failed"}
  BY <1>2, Answered, Refused
     DEF ServiceStep, ServeWorker, ServeRefresh, ServeDeactivation, CheckActivation,
         ServeActivation, OtherMachine, BillingEvent, LoseWorkerCall, LoseUserCall
<1>4. \/ user' = user
      \/ user'.phase \in {"answered", "failed", "checked"}
  BY <1>2, Answered, Refused
     DEF ServiceStep, ServeWorker, ServeRefresh, ServeDeactivation, CheckActivation,
         ServeActivation, OtherMachine, BillingEvent, LoseWorkerCall, LoseUserCall
<1>5. subscription' \in {"none", "active", "past_due", "canceled"} /\ bound' \subseteq {"this", "other"}
  BY DEF ServiceStep, ServeWorker, ServeRefresh, ServeDeactivation, CheckActivation,
         ServeActivation, OtherMachine, BillingEvent, LoseWorkerCall, LoseUserCall, service, LicenceTypeOK
<1> QED BY <1>1, <1>3, <1>4, <1>5 DEF LicenceTypeOK

LEMMA MachineTypes ==
  ASSUME IInv, LicenceTypeOK, Tick \/ SetClock \/ EndSession \/ UNCHANGED licenceVars
  PROVE  LicenceTypeOK'
<1>1. CASE Tick
  BY <1>1, LicensingAssumption DEF Tick, service, row, LicenceTypeOK
<1>2. CASE SetClock
  BY <1>2, LicensingAssumption DEF SetClock, service, row, LicenceTypeOK
<1>3. CASE EndSession
  BY <1>3, IdlePhase DEF EndSession, calendar, service, row, LicenceTypeOK
<1>4. CASE UNCHANGED licenceVars
  BY <1>4 DEF licenceVars, service, row, calendar, LicenceTypeOK
<1> QED BY <1>1, <1>2, <1>3, <1>4

(* The row keeps a status its table lists, whatever the service answers:   *)
(* the worker's own update is refused with any other                       *)
(* (start_background_validation, commands of licensing).                   *)
THEOREM TypeCorrect == LicenceSpec => []LicenceTypeOK
<1>1. LicenceInit => LicenceTypeOK
  BY LicensingAssumption, IdlePhase DEF LicenceInit, LicenceTypeOK
<1>2. IInv /\ LicenceTypeOK /\ [LicenceNext]_licenceVars => LicenceTypeOK'
  BY WorkerTypes, UserTypes, ServiceTypes, MachineTypes DEF LicenceNext
<1> QED BY <1>1, <1>2, InitIInv, NextPreserves, PTL DEF LicenceSpec

================================================================================
