----------------------------- MODULE Licensing -----------------------------
(***************************************************************************)
(* The licence of one machine: the cached row the desktop keeps            *)
(* (src/src-tauri/src/licensing), the background worker that revalidates   *)
(* it, the user's commands, and what the licensing service answers them    *)
(* (src/licensing-backend/api/license).                                    *)
(*                                                                         *)
(* Time counts days.  The service has the true time, the machine a clock   *)
(* its user may set.  Every call to the service is two messages, either    *)
(* of which may be lost, and the worker decides about the row as it read   *)
(* it before the call.                                                     *)
(***************************************************************************)
EXTENDS Integers

CONSTANTS TokenLife,        \* how long a signed token is valid
          GracePeriod,      \* how long a failing revalidation is tolerated
          TrialWindow,      \* how long a new profile may write without a licence
          CorrectionGrace,  \* how far the clock may go back unnoticed
          MaxTime,          \* bound: days
          ClockSettings,    \* what the clock may be set to, relative to the time
          MaxSettings,      \* bound: times the clock is set
          MaxRequests       \* bound: commands of the user

ASSUME LicensingAssumption ==
  /\ TokenLife \in Nat /\ GracePeriod \in Nat /\ TrialWindow \in Nat
  /\ CorrectionGrace \in Nat /\ MaxTime \in Nat /\ MaxSettings \in Nat
  /\ MaxRequests \in Nat /\ ClockSettings \subseteq Int

VARIABLES time,          \* the service's time
          offset,        \* the machine's clock minus the time
          settings,      \* how often the clock was set
          subscription,  \* status of the account's latest subscription, or "none"
          bound,         \* the machines a token of the account is bound to
          cached,        \* license_state.subscription_status_cached, or "unset"
          expiry,        \* of the stored token
          validated,     \* last_server_validated_at
          known,         \* last_known_valid_time
          check,        \* the worker's call
          user,          \* the user's call
          requests       \* how many calls the user made

service  == <<subscription, bound>>
row      == <<cached, expiry, validated, known>>
calendar == <<time, offset, settings>>
licenceVars == <<calendar, service, row, check, user, requests>>

Clock == time + offset

Statuses == {"anonymous", "trialing", "active", "grace", "locked", "past_due",
             "canceled", "expired"}

NoCall == [phase |-> "idle"]
Busy(call) == call.phase # "idle"

LicenceInit ==
  /\ time = 0 /\ offset = 0 /\ settings = 0
  /\ subscription = "none" /\ bound = {}
  /\ cached = "unset" /\ expiry = 0 /\ validated = 0 /\ known = 0
  /\ check = NoCall /\ user = NoCall /\ requests = 0

-----------------------------------------------------------------------------
(* The row: its transitions, and the gate every write passes.              *)

(* Regression: grace ends only with a validation. *)
LegalGraceStays == {<<"anonymous", "trialing">>, <<"trialing", "active">>, <<"active", "grace">>,
                    <<"grace", "active">>} \cup {"active", "trialing", "anonymous"} \X {"locked"}

Legal == {<<"anonymous", "trialing">>, <<"trialing", "active">>, <<"active", "grace">>,
          <<"grace", "active">>} \cup
         {"grace", "active", "trialing", "anonymous"} \X {"locked"}

(* Regression: the row is written whatever its status. *)
TransitionUnchecked(to) == cached' = to

Transition(to) == cached' = IF <<cached, to>> \in Legal THEN to ELSE cached

Verifies(token) == Clock <= token

InTrial == Clock <= TrialWindow

WriteAllowed ==
  CASE cached \in {"unset", "trialing"}     -> InTrial
    [] cached \in {"locked", "anonymous"}   -> FALSE
    [] OTHER                                -> Verifies(expiry)

(* The status of an answer as the commands read it: what they do not know  *)
(* counts as active.                                                       *)
ParsedStatus(answer) == IF answer \in Statuses THEN answer ELSE "active"

-----------------------------------------------------------------------------
(* The licensing service.                                                  *)

(* An answer of api/license/validate says "validated", of activate         *)
(* "activated"; the entitlement is in another field, which no client reads.*)
Reply(says) == [phase |-> "answered", says |-> says, token |-> time + TokenLife]
Refusal == [phase |-> "failed"]

(* A call goes on with what it was asked with.                             *)
Along(call, outcome) ==
  [field \in DOMAIN call \cup DOMAIN outcome |->
     IF field \in DOMAIN outcome THEN outcome[field] ELSE call[field]]

Validation == IF "this" \in bound /\ subscription # "none" THEN Reply("validated") ELSE Refusal

ServeWorker ==
  /\ check.phase = "asked"
  /\ check' = Along(check, Validation)
  /\ UNCHANGED <<calendar, service, row, user, requests>>

ServeRefresh ==
  /\ user.phase = "asked" /\ user.op = "refresh"
  /\ user' = Along(user, Validation)
  /\ UNCHANGED <<calendar, service, row, check, requests>>

(* The binding is released; a machine without one is refused.              *)
ServeDeactivation ==
  /\ user.phase = "asked" /\ user.op = "deactivate"
  /\ bound' = bound \ {"this"}
  /\ user' = Along(user, IF "this" \in bound THEN Reply("deactivated") ELSE Refusal)
  /\ UNCHANGED <<calendar, subscription, row, check, requests>>

(* Activation looks the binding and the subscription up first ...          *)
CheckActivation ==
  /\ user.phase = "asked" /\ user.op = "activate"
  /\ user' = IF bound \subseteq {"this"}
             THEN [op |-> "activate", phase |-> "checked", new |-> subscription = "none"]
             ELSE Along(user, Refusal)
  /\ UNCHANGED <<calendar, service, row, check, requests>>

(* ... and then writes both.                                               *)
ServeActivation ==
  /\ user.phase = "checked"
  /\ subscription' = IF user.new THEN "active" ELSE subscription
  /\ bound' = bound \cup {"this"}
  /\ user' = Along(user, Reply("activated"))
  /\ UNCHANGED <<calendar, row, check, requests>>

(* Another machine of the customer takes or releases the binding.          *)
OtherMachine ==
  /\ IF bound = {} THEN bound' = {"other"} ELSE bound' = bound \ {"other"}
  /\ UNCHANGED <<calendar, subscription, row, check, user, requests>>

(* A charge succeeds or fails, or the subscription is cancelled.           *)
BillingEvent ==
  /\ subscription # "none"
  /\ subscription' \in {"active", "past_due", "canceled"}
  /\ UNCHANGED <<calendar, bound, row, check, user, requests>>

(* A message is lost, or the call times out.                               *)
LoseWorkerCall ==
  /\ check.phase \in {"asked", "answered"}
  /\ check' = Along(check, Refusal)
  /\ UNCHANGED <<calendar, service, row, user, requests>>

LoseUserCall ==
  /\ user.phase \in {"asked", "checked", "answered"}
  /\ user' = Along(user, Refusal)
  /\ UNCHANGED <<calendar, service, row, check, requests>>

-----------------------------------------------------------------------------
(* The worker.                                                             *)

Poll ==
  /\ cached # "unset" /\ ~Busy(check)
  /\ IF Clock < known - CorrectionGrace
     THEN Transition("locked") /\ UNCHANGED <<known, check>>
     ELSE /\ known' = Clock
          /\ check' = IF cached = "anonymous" THEN NoCall
                       ELSE [phase |-> "asked", cached |-> cached, validated |-> validated]
          /\ UNCHANGED cached
  /\ UNCHANGED <<calendar, service, expiry, validated, user, requests>>

(* The row takes the answer's status as it stands; one that the table's    *)
(* CHECK does not list fails the whole UPDATE, and nobody looks.           *)
StoreAnswer ==
  /\ check.phase = "answered" /\ Verifies(check.token)
  /\ IF check.says \in Statuses
     THEN cached' = check.says /\ expiry' = check.token /\ validated' = Clock
     ELSE UNCHANGED <<cached, expiry, validated>>
  /\ check' = NoCall
  /\ UNCHANGED <<calendar, service, known, user, requests>>

DistrustAnswer ==
  /\ check.phase = "answered" /\ ~Verifies(check.token)
  /\ Transition("locked")
  /\ check' = NoCall
  /\ UNCHANGED <<calendar, service, expiry, validated, known, user, requests>>

GraceIsOver(since) == Clock - since > GracePeriod

(* What follows from a failure depends on the row as it was at the poll.   *)
Tolerate ==
  /\ check.phase = "failed"
  /\ IF check.cached = "active" THEN Transition("grace")
     ELSE IF check.cached = "grace" /\ GraceIsOver(check.validated) THEN Transition("locked")
     ELSE UNCHANGED cached
  /\ check' = NoCall
  /\ UNCHANGED <<calendar, service, expiry, validated, known, user, requests>>

-----------------------------------------------------------------------------
(* The user's commands.                                                    *)

Ask(op) ==
  /\ ~Busy(user) /\ requests < MaxRequests
  /\ user' = [op |-> op, phase |-> "asked"] /\ requests' = requests + 1
  /\ UNCHANGED <<calendar, service, row, check>>

(* Activation writes the whole row, refreshing updates one that exists.    *)
FinishActivation ==
  /\ user.phase = "answered" /\ user.op = "activate" /\ Verifies(user.token)
  /\ cached' = ParsedStatus(user.says) /\ expiry' = user.token
  /\ validated' = Clock /\ known' = Clock
  /\ user' = NoCall
  /\ UNCHANGED <<calendar, service, check, requests>>

FinishRefresh ==
  /\ user.phase = "answered" /\ user.op = "refresh" /\ Verifies(user.token)
  /\ IF cached = "unset" THEN UNCHANGED <<cached, expiry, validated>>
     ELSE cached' = ParsedStatus(user.says) /\ expiry' = user.token /\ validated' = Clock
  /\ user' = NoCall
  /\ UNCHANGED <<calendar, service, known, check, requests>>

(* Regression: the row goes with the machine's binding.                    *)
FinishDeactivationForgets ==
  /\ user.phase = "answered" /\ user.op = "deactivate"
  /\ cached' = "unset"
  /\ user' = NoCall
  /\ UNCHANGED <<calendar, service, expiry, validated, known, check, requests>>

FinishDeactivation ==
  /\ user.phase = "answered" /\ user.op = "deactivate"
  /\ cached' = IF cached = "unset" THEN cached ELSE "anonymous"
  /\ user' = NoCall
  /\ UNCHANGED <<calendar, service, expiry, validated, known, check, requests>>

(* An error leaves the row as it is.                                       *)
ShowError ==
  /\ \/ user.phase = "failed"
     \/ user.phase = "answered" /\ user.op # "deactivate" /\ ~Verifies(user.token)
  /\ user' = NoCall
  /\ UNCHANGED <<calendar, service, row, check, requests>>

-----------------------------------------------------------------------------
(* The machine.                                                            *)

(* A call ends within seconds.                                             *)
Tick ==
  /\ time < MaxTime /\ ~Busy(check) /\ ~Busy(user)
  /\ time' = time + 1
  /\ UNCHANGED <<offset, settings, service, row, check, user, requests>>

SetClock ==
  /\ settings < MaxSettings
  /\ offset' \in ClockSettings \ {offset}
  /\ settings' = settings + 1
  /\ UNCHANGED <<time, service, row, check, user, requests>>

EndSession ==
  /\ Busy(check) \/ Busy(user)
  /\ check' = NoCall /\ user' = NoCall
  /\ UNCHANGED <<calendar, service, row, requests>>

Operations == {"activate", "refresh", "deactivate"}

WorkerStep == Poll \/ StoreAnswer \/ DistrustAnswer \/ Tolerate
UserStep ==
  \/ \E op \in Operations : Ask(op)
  \/ FinishActivation \/ FinishRefresh \/ FinishDeactivation \/ ShowError
ServiceStep ==
  \/ ServeWorker \/ ServeRefresh \/ ServeDeactivation \/ CheckActivation \/ ServeActivation
  \/ OtherMachine \/ BillingEvent \/ LoseWorkerCall \/ LoseUserCall

LicenceNext == WorkerStep \/ UserStep \/ ServiceStep \/ Tick \/ SetClock \/ EndSession

LicenceSpec == LicenceInit /\ [][LicenceNext]_licenceVars

(* The worker polls for ever, and its requests time out if nothing else.   *)
LicenceFairness ==
  WF_licenceVars(Poll) /\ WF_licenceVars(StoreAnswer \/ DistrustAnswer \/ Tolerate)
                /\ WF_licenceVars(ServeWorker \/ LoseWorkerCall)

-----------------------------------------------------------------------------
LicenceTypeOK ==
  /\ time \in 0 .. MaxTime /\ offset \in ClockSettings \cup {0} /\ settings \in 0 .. MaxSettings
  /\ subscription \in {"none", "active", "past_due", "canceled"}
  /\ bound \subseteq {"this", "other"}
  /\ cached \in Statuses \cup {"unset"}
  /\ expiry \in Int /\ validated \in Int /\ known \in Int
  /\ check.phase \in {"idle", "asked", "answered", "failed"}
  /\ user.phase \in {"idle", "asked", "checked", "answered", "failed"}
  /\ requests \in 0 .. MaxRequests

Released == cached \in {"anonymous", "locked"}

(* Once released or locked, the licence comes back only with a command of  *)
(* the user, never from the worker, whatever it read before its call and   *)
(* whatever the service answers (start_background_validation,              *)
(* state_machine::transition).                                             *)
OnlyUserReactivates == [][Released /\ ~Released' => Busy(user) /\ ~Busy(user')]_licenceVars

RolledBack == cached # "unset" /\ Clock < known - CorrectionGrace

(* A clock set back behind the last known time does not keep a licence     *)
(* writing: the worker locks it unless the clock is put right or the       *)
(* licence is activated anew (record_known_valid_time).                    *)
RollbackCaught == RolledBack ~> (~RolledBack \/ cached = "locked")

RightToWrite ==
  IF Released THEN "withdrawn"
  ELSE IF ~WriteAllowed THEN "lapsed"
  ELSE IF cached \in {"unset", "trialing"} THEN "trial" ELSE "licensed"

Lease == INSTANCE LicenceLease WITH
  lease    <- RightToWrite,
  asking   <- Busy(user),
  tampered <- settings > 0

(* The right to write is a lease (LicenceLease): validation on a schedule  *)
(* may renew it, but what the user gave up or a lock took is given back by *)
(* no answer on its way and no clock, and a trial is never given twice on  *)
(* a clock that is right (start_background_validation, gate.rs,            *)
(* deactivate_license_internal).                                           *)
KeepsLease == Lease!Spec

(* "A client that can reach the server always leaves with a valid one":    *)
(* after a validation that was answered and verified, the token in the row *)
(* verifies (api/license/validate.ts, start_background_validation).        *)
ValidationRenews == [][StoreAnswer => Verifies(expiry)']_licenceVars

JustLocked == cached # "locked" /\ cached' = "locked"

(* "A network outage must not lock out a paying customer": a licence is    *)
(* locked only when its last validation is older than the grace period,    *)
(* as long as the clock is right (worker.rs, is_grace_period_expired).     *)
OutageNeverLocks == [][JustLocked /\ settings = 0 => GraceIsOver(validated)]_licenceVars
=============================================================================
