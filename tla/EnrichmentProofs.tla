-------------------------- MODULE EnrichmentProofs --------------------------
(***************************************************************************)
(* Proofs about Enrichment, for any number of entries, messages, crashes,  *)
(* failed writes and forms.  Each action preserves the inductive invariant *)
(* IInv; the action properties follow from it step by step.                *)
(***************************************************************************)
EXTENDS Enrichment, TLAPS

-----------------------------------------------------------------------------
(* Only one entry of a message holds its observation. *)
OneObservation ==
  \A e, f \in Entries : Message[e] = Message[f] /\ stored[e] /\ stored[f] => e = f

(* An observation the background booked is linked to what it booked, and   *)
(* its job is past booking.                                                *)
AppliedIsLinked ==
  \A e \in Entries : enriched[e] > 0 =>
    /\ enriched[e] = 1 /\ stored[e] /\ linked[e]
    /\ step[e] \notin {"write", "book"}

(* Links, clusters and jobs about to settle all rest on a decision. *)
DecisionsRecorded ==
  \A e \in Entries : linked[e] \/ review[e] \/ step[e] = "settle" => decided[e]

OpenIsStored == \A e \in Entries : entry[e] = "open" => stored[e]

(* A job about to be forgotten has had its outcome committed. *)
ForgottenIsDone ==
  \A e \in Entries : step[e] = "forget" => entry[e] # "open" \/ reason[e] # "pending"

IInv ==
  /\ TypeOK /\ OneObservation /\ AppliedIsLinked /\ DecisionsRecorded
  /\ OpenIsStored /\ ForgottenIsDone /\ ResolvedIsBacked

LEMMA InitIInv == Init => IInv
<1> SUFFICES ASSUME Init PROVE IInv
  OBVIOUS
<1>1. TypeOK
  BY EnrichmentAssumption, Zenon DEF Init, TypeOK, Steps
<1>2. \A e \in Entries : /\ ~stored[e] /\ ~linked[e] /\ ~review[e]
                         /\ entry[e] = "none" /\ step[e] = "idle" /\ enriched[e] = 0
  BY Zenon DEF Init
<1>3. OneObservation /\ AppliedIsLinked
  BY <1>2 DEF OneObservation, AppliedIsLinked
<1>4. DecisionsRecorded /\ OpenIsStored /\ ForgottenIsDone /\ ResolvedIsBacked
  BY <1>2 DEF DecisionsRecorded, OpenIsStored, ForgottenIsDone, ResolvedIsBacked
<1> QED BY <1>1, <1>3, <1>4 DEF IInv

-----------------------------------------------------------------------------
(* The invariant survives each action. *)

LEMMA IntakeStep ==
  ASSUME NEW e \in Entries, IInv,
         \/ \E why \in {"pending", "incomplete", "failed"} : Park(e, why)
         \/ \E ok \in BOOLEAN : Persist(e, ok)
         \/ Send(e)
  PROVE  IInv'
<1>1. ASSUME NEW why \in {"pending", "incomplete", "failed"}, Park(e, why)
      PROVE  IInv'
  BY <1>1, SMT DEF Park, Unseen, Goto, ledger, screen, IInv, TypeOK, OneObservation,
     AppliedIsLinked, DecisionsRecorded, OpenIsStored, ForgottenIsDone, ResolvedIsBacked, Steps
<1>2. ASSUME NEW ok \in BOOLEAN, Persist(e, ok)
      PROVE  IInv'
  BY <1>2, SMT DEF Persist, Attempt, Goto, ledger, screen, IInv, TypeOK, OneObservation,
     AppliedIsLinked, DecisionsRecorded, OpenIsStored, ForgottenIsDone, ResolvedIsBacked, Steps
<1>3. ASSUME Send(e) PROVE IInv'
  BY <1>3, SMT DEF Send, Goto, ledger, screen, IInv, TypeOK, OneObservation,
     AppliedIsLinked, DecisionsRecorded, OpenIsStored, ForgottenIsDone, ResolvedIsBacked, Steps
<1>4. QED BY <1>1, <1>2, <1>3

LEMMA ApplyStep ==
  ASSUME NEW e \in Entries, IInv,
         \/ \E outcome \in Outcomes : Run(e, outcome)
         \/ Check(e)
         \/ \E ready \in BOOLEAN : Write(e, ready)
         \/ \E verdict \in Verdicts : Book(e, verdict)
  PROVE  IInv'
<1>1. ASSUME NEW outcome \in Outcomes, Run(e, outcome) PROVE IInv'
  BY <1>1, SMT DEF Run, Goto, ledger, screen, IInv, TypeOK, OneObservation,
     AppliedIsLinked, DecisionsRecorded, OpenIsStored, ForgottenIsDone, ResolvedIsBacked, Steps
<1>2. ASSUME Check(e) PROVE IInv'
  BY <1>2, SMT DEF Check, Goto, ledger, screen, IInv, TypeOK, OneObservation,
     AppliedIsLinked, DecisionsRecorded, OpenIsStored, ForgottenIsDone, ResolvedIsBacked, Steps
<1>3. ASSUME NEW ready \in BOOLEAN, Write(e, ready) PROVE IInv'
  <2>1. TypeOK'
    <3>1. linked' \in [Entries -> BOOLEAN]
      BY <1>3, Zenon DEF Write, IInv, TypeOK
    <3>2. step' \in [Entries -> Steps]
      BY <1>3, SMT DEF Write, Goto, IInv, TypeOK, Steps
    <3> QED BY <1>3, <3>1, <3>2, Zenon DEF Write, screen, IInv, TypeOK
  <2>2. \A x \in Entries : linked'[x] => linked[x]
    BY <1>3, SMT DEF Write, IInv, TypeOK
  <2>3. \A x \in Entries \ {e} : linked'[x] = linked[x] /\ step'[x] = step[x]
    BY <1>3, SMT DEF Write, Goto, IInv, TypeOK
  <2>4. enriched[e] = 0 /\ step'[e] \in {"book", "refine", "idle"}
    BY <1>3, SMT DEF Write, Goto, IInv, TypeOK, AppliedIsLinked
  <2>5. UNCHANGED <<entry, reason, stored, decided, review, enriched, saved>>
    BY <1>3 DEF Write, screen
  <2>6. AppliedIsLinked'
    BY <2>3, <2>4, <2>5, SMT DEF IInv, AppliedIsLinked
  <2>7. DecisionsRecorded'
    BY <2>2, <2>3, <2>4, <2>5, SMT DEF IInv, DecisionsRecorded
  <2>8. ForgottenIsDone'
    BY <2>3, <2>4, <2>5, SMT DEF IInv, ForgottenIsDone
  <2> QED
    BY <2>1, <2>5, <2>6, <2>7, <2>8 DEF IInv, OneObservation, OpenIsStored, ResolvedIsBacked
<1>4. ASSUME NEW verdict \in Verdicts, Book(e, verdict) PROVE IInv'
  <2>1. TypeOK'
    <3>1. /\ linked' \in [Entries -> BOOLEAN] /\ decided' \in [Entries -> BOOLEAN]
          /\ review' \in [Entries -> BOOLEAN]
      BY <1>4, Zenon DEF Book, ledger, IInv, TypeOK
    <3>2. step' \in [Entries -> Steps] /\ enriched' \in [Entries -> Nat]
      BY <1>4, SMT DEF Book, Goto, ledger, IInv, TypeOK, Steps
    <3> QED BY <1>4, <3>1, <3>2, Zenon DEF Book, screen, IInv, TypeOK
  <2>2. \A x \in Entries \ {e} : /\ linked'[x] = linked[x] /\ decided'[x] = decided[x]
                                 /\ review'[x] = review[x] /\ enriched'[x] = enriched[x]
                                 /\ step'[x] = step[x]
    BY <1>4, SMT DEF Book, Goto, ledger, IInv, TypeOK
  <2>3. enriched[e] = 0
    BY <1>4, SMT DEF Book, IInv, TypeOK, AppliedIsLinked
  <2>4. UNCHANGED <<entry, reason, stored, saved>>
    BY <1>4 DEF Book, screen
  <2>5. CASE stored[e]
    <3>1. decided'[e] /\ step'[e] = "settle"
      BY <1>4, <2>5, SMT DEF Book, Goto, IInv, TypeOK
    <3>2. enriched'[e] > 0 => enriched'[e] = 1 /\ linked'[e]
      BY <1>4, <2>3, <2>5, SMT DEF Book, IInv, TypeOK
    <3> QED
      BY <2>1, <2>2, <2>4, <2>5, <3>1, <3>2, Zenon DEF IInv, OneObservation, AppliedIsLinked,
         DecisionsRecorded, OpenIsStored, ForgottenIsDone, ResolvedIsBacked
  <2>6. CASE ~stored[e]
    <3>1. UNCHANGED <<linked, decided, review, enriched>> /\ step'[e] = "idle"
      BY <1>4, <2>6, SMT DEF Book, Goto, ledger, IInv, TypeOK
    <3> QED
      BY <2>1, <2>2, <2>4, <3>1, Zenon DEF IInv, OneObservation, AppliedIsLinked,
         DecisionsRecorded, OpenIsStored, ForgottenIsDone, ResolvedIsBacked
  <2> QED BY <2>5, <2>6
<1>5. QED BY <1>1, <1>2, <1>3, <1>4

LEMMA OutcomeStep ==
  ASSUME NEW e \in Entries, IInv,
         \/ Settle(e) \/ Refine(e) \/ Reject(e) \/ Ignore(e)
         \/ \E ok \in BOOLEAN : Forget(e, ok)
  PROVE  IInv'
<1>1. CASE Settle(e)
  BY <1>1, SMT DEF Settle, Goto, ledger, screen, IInv, TypeOK, OneObservation,
     AppliedIsLinked, DecisionsRecorded, OpenIsStored, ForgottenIsDone, ResolvedIsBacked, Steps
<1>2. CASE Refine(e)
  BY <1>2, SMT DEF Refine, Refined, Goto, ledger, screen, IInv, TypeOK, OneObservation,
     AppliedIsLinked, DecisionsRecorded, OpenIsStored, ForgottenIsDone, ResolvedIsBacked, Steps
<1>3. CASE Reject(e)
  BY <1>3, SMT DEF Reject, Refined, Goto, ledger, screen, IInv, TypeOK, OneObservation,
     AppliedIsLinked, DecisionsRecorded, OpenIsStored, ForgottenIsDone, ResolvedIsBacked, Steps
<1>4. CASE Ignore(e)
  BY <1>4, SMT DEF Ignore, Refined, Goto, ledger, screen, IInv, TypeOK, OneObservation,
     AppliedIsLinked, DecisionsRecorded, OpenIsStored, ForgottenIsDone, ResolvedIsBacked, Steps
<1>5. ASSUME NEW ok \in BOOLEAN, Forget(e, ok) PROVE IInv'
  BY <1>5, SMT DEF Forget, Attempt, Goto, ledger, screen, IInv, TypeOK, OneObservation,
     AppliedIsLinked, DecisionsRecorded, OpenIsStored, ForgottenIsDone, ResolvedIsBacked, Steps
<1>6. QED BY <1>1, <1>2, <1>3, <1>4, <1>5

LEMMA FormStep ==
  ASSUME NEW e \in Entries, IInv,
         \/ OpenForm(e) \/ Dismiss(e) \/ FinishSave(e) \/ DecideCluster(e)
         \/ \E verdict \in Verdicts : Save(e, verdict)
  PROVE  IInv'
<1>1. CASE OpenForm(e)
  BY <1>1, SMT DEF OpenForm, ledger, IInv, TypeOK, OneObservation,
     AppliedIsLinked, DecisionsRecorded, OpenIsStored, ForgottenIsDone, ResolvedIsBacked, Steps
<1>2. CASE Dismiss(e)
  BY <1>2, SMT DEF Dismiss, ledger, IInv, TypeOK, OneObservation,
     AppliedIsLinked, DecisionsRecorded, OpenIsStored, ForgottenIsDone, ResolvedIsBacked, Steps
<1>3. CASE FinishSave(e)
  <2>1. UNCHANGED <<reason, stored, linked, decided, review, enriched, durable, step>>
    BY <1>3 DEF FinishSave, ledger
  <2>2. TypeOK'
    <3>1. entry' \in [Entries -> {"none", "open", "resolved", "ignored", "cleared"}]
      BY <1>3, SMT DEF FinishSave, IInv, TypeOK
    <3>2. form' \in Entries \cup {None} /\ saved' \subseteq Entries
      BY <1>3, SMT DEF FinishSave, IInv, TypeOK
    <3> QED BY <1>3, <2>1, <3>1, <3>2, Zenon DEF FinishSave, IInv, TypeOK
  <2>3. \A x \in Entries : /\ (x # e \/ entry'[x] # "resolved") => entry'[x] = entry[x]
                           /\ x \in saved => x \in saved'
    <3>1. entry' = [entry EXCEPT ![e] = IF @ = "open" THEN "resolved" ELSE @]
      BY <1>3 DEF FinishSave
    <3>2. saved' = saved \/ saved' = saved \cup {e}
      BY <1>3 DEF FinishSave
    <3> QED BY <3>1, <3>2, SMT DEF IInv, TypeOK
  <2>4. entry'[e] = "resolved" => e \in saved'
    BY <1>3, SMT DEF FinishSave, IInv, TypeOK
  <2>5. OneObservation' /\ AppliedIsLinked' /\ DecisionsRecorded'
    BY <2>1 DEF IInv, OneObservation, AppliedIsLinked, DecisionsRecorded
  <2>6. OpenIsStored' /\ ForgottenIsDone' /\ ResolvedIsBacked'
    BY <2>1, <2>3, <2>4, SMT DEF IInv, OpenIsStored, ForgottenIsDone, ResolvedIsBacked
  <2> QED BY <2>2, <2>5, <2>6 DEF IInv
<1>4. CASE DecideCluster(e)
  <2>1. PICK link \in BOOLEAN : linked' = [linked EXCEPT ![e] = @ \/ link]
    BY <1>4 DEF DecideCluster
  <2>2. TypeOK'
    BY <1>4, <2>1, SMT DEF DecideCluster, screen, IInv, TypeOK
  <2>3. \A x \in Entries : (review'[x] => review[x]) /\ (linked[x] => linked'[x])
    BY <1>4, <2>1, SMT DEF DecideCluster, IInv, TypeOK
  <2>4. decided[e] /\ \A x \in Entries \ {e} : linked'[x] = linked[x]
    BY <1>4, <2>1, SMT DEF DecideCluster, IInv, TypeOK, DecisionsRecorded
  <2>5. UNCHANGED <<entry, reason, stored, decided, enriched, step, saved>>
    BY <1>4 DEF DecideCluster, screen
  <2>6. AppliedIsLinked'
    BY <2>3, <2>5, SMT DEF IInv, AppliedIsLinked
  <2>7. DecisionsRecorded'
    BY <2>3, <2>4, <2>5, SMT DEF IInv, DecisionsRecorded
  <2> QED
    BY <2>2, <2>5, <2>6, <2>7 DEF IInv, OneObservation, OpenIsStored, ForgottenIsDone,
       ResolvedIsBacked
<1>5. ASSUME NEW verdict \in Verdicts, Save(e, verdict) PROVE IInv'
  BY <1>5, SMT DEF Save, ledger, IInv, TypeOK, OneObservation,
     AppliedIsLinked, DecisionsRecorded, OpenIsStored, ForgottenIsDone, ResolvedIsBacked, Steps
<1>6. QED BY <1>1, <1>2, <1>3, <1>4, <1>5

LEMMA GlobalStep ==
  ASSUME IInv, Restart \/ CancelScan \/ CloseForm \/ UNCHANGED vars
  PROVE  IInv'
<1>1. CASE Restart
  <2>1. \A x \in Entries : step'[x] \in {"run", "idle"}
    BY <1>1, SMT DEF Restart
  <2>2. UNCHANGED <<entry, reason, stored, linked, decided, review, enriched, saved>>
    BY <1>1 DEF Restart, ledger
  <2>3. TypeOK'
    <3>1. step' \in [Entries -> Steps]
      BY <1>1, SMT DEF Restart, Steps
    <3> QED BY <1>1, <2>2, <3>1, Zenon DEF Restart, IInv, TypeOK
  <2>4. AppliedIsLinked' /\ DecisionsRecorded' /\ ForgottenIsDone'
    BY <2>1, <2>2, SMT DEF IInv, AppliedIsLinked, DecisionsRecorded, ForgottenIsDone
  <2> QED BY <2>2, <2>3, <2>4 DEF IInv, OneObservation, OpenIsStored, ResolvedIsBacked
<1>2. CASE CancelScan
  <2>1. /\ entry' = [x \in Entries |-> IF Swept(x) /\ entry[x] # "none"
                                     THEN "cleared" ELSE entry[x]]
        /\ stored' = [x \in Entries |-> stored[x] /\ (Swept(x) => linked[x] \/ decided[x])]
        /\ step' = [x \in Entries |-> IF Swept(x) /\ step[x] \in {"persist", "send"}
                                    THEN "idle" ELSE step[x]]
        /\ UNCHANGED <<reason, linked, decided, review, enriched, saved>>
    BY <1>2 DEF CancelScan, ledger, screen
  <2>2. \A x \in Entries : /\ entry'[x] \in {entry[x], "cleared"}
                           /\ step'[x] \in {step[x], "idle"}
    BY <2>1, SMT
  <2>3. \A x \in Entries : /\ stored'[x] => stored[x]
                           /\ stored[x] /\ (~Swept(x) \/ linked[x]) => stored'[x]
    BY <2>1, Zenon
  <2>4. TypeOK'
    <3>1. entry' \in [Entries -> {"none", "open", "resolved", "ignored", "cleared"}]
      BY <2>1, <2>2, SMT DEF IInv, TypeOK
    <3>2. stored' \in [Entries -> BOOLEAN]
      BY <2>1, Zenon
    <3>3. step' \in [Entries -> Steps]
      BY <2>1, <2>2, SMT DEF IInv, TypeOK, Steps
    <3>4. durable' \subseteq Entries
      BY <1>2 DEF CancelScan, IInv, TypeOK
    <3> QED BY <1>2, <2>1, <3>1, <3>2, <3>3, <3>4, Zenon DEF CancelScan, screen, IInv, TypeOK
  <2>5. \A x \in Entries : entry'[x] = "open" => entry[x] = "open" /\ ~Swept(x)
    BY <2>1, SMT DEF IInv, TypeOK
  <2>6. OneObservation' /\ AppliedIsLinked'
    BY <2>1, <2>2, <2>3, Zenon DEF IInv, OneObservation, AppliedIsLinked
  <2>7. DecisionsRecorded'
    BY <2>1, <2>2, SMT DEF IInv, DecisionsRecorded
  <2>8. OpenIsStored' /\ ForgottenIsDone' /\ ResolvedIsBacked'
    BY <2>1, <2>2, <2>3, <2>5, SMT DEF IInv, OpenIsStored, ForgottenIsDone, ResolvedIsBacked
  <2> QED BY <2>4, <2>6, <2>7, <2>8 DEF IInv
<1>3. CASE CloseForm
  BY <1>3, SMT DEF CloseForm, ledger, IInv, TypeOK, OneObservation,
     AppliedIsLinked, DecisionsRecorded, OpenIsStored, ForgottenIsDone, ResolvedIsBacked, Steps
<1>4. CASE UNCHANGED vars
  BY <1>4, SMT DEF vars, ledger, screen, IInv, TypeOK, OneObservation,
     AppliedIsLinked, DecisionsRecorded, OpenIsStored, ForgottenIsDone, ResolvedIsBacked, Steps
<1>5. QED BY <1>1, <1>2, <1>3, <1>4

LEMMA NextIInv == IInv /\ [Next]_vars => IInv'
  BY IntakeStep, ApplyStep, OutcomeStep, FormStep, GlobalStep DEF Next, JobStep, UserStep

LEMMA Invariance == Spec => []IInv
  BY InitIInv, NextIInv, PTL DEF Spec

-----------------------------------------------------------------------------
(* Every table of the queue keeps its type: statuses, reasons and steps    *)
(* are those the code knows.                                               *)
THEOREM TypeCorrect == Spec => []TypeOK
<1>1. IInv => TypeOK BY DEF IInv
<1>2. QED BY <1>1, Invariance, PTL

(* The background books the payment of a message at most once, through any *)
(* number of crashes, replays, cancelled scans and verdicts of the user    *)
(* (apply_layer6_success, replay_pending_layer6_jobs).                     *)
THEOREM BookedOnce == Spec => []EnrichedOnce
<1>1. IInv => EnrichedOnce
  BY SMT DEF IInv, TypeOK, EnrichedOnce, OneObservation, AppliedIsLinked
<1>2. QED BY <1>1, Invariance, PTL

(* A resolved entry has its payment in the ledger or before the user       *)
(* (settle_if_open, update_status).                                        *)
THEOREM ResolutionsBacked == Spec => []ResolvedIsBacked
<1>1. IInv => ResolvedIsBacked BY DEF IInv
<1>2. QED BY <1>1, Invariance, PTL

-----------------------------------------------------------------------------
(* The action properties. *)

LEMMA StepKeepsOutcome ==
  ASSUME NEW e \in Entries, IInv, JobStep(e) \/ UserStep(e),
         NEW x \in Entries, entry[x] \in {"resolved", "ignored"}
  PROVE  entry'[x] = entry[x]
  BY SMT DEF IInv, TypeOK, JobStep, UserStep, Send, Check, Settle, Refine, Reject, Ignore, Run,
     Write, Book, Persist, Forget, OpenForm, Dismiss, FinishSave, DecideCluster, Save, Attempt,
     Goto

(* No decider of an entry overwrites another (update_status,               *)
(* settle_if_open).                                                        *)
THEOREM OutcomesFinal == Spec => OutcomeIsFinal
<1>1. ASSUME IInv, [Next]_vars, NEW x \in Entries, entry[x] \in {"resolved", "ignored"}
      PROVE  entry'[x] \in {entry[x], "cleared"}
  <2>1. CASE \E e \in Entries : JobStep(e) \/ UserStep(e)
    BY <1>1, <2>1, StepKeepsOutcome
  <2>2. CASE \E e \in Entries, why \in {"pending", "incomplete", "failed"} : Park(e, why)
    BY <1>1, <2>2, SMT DEF Park, Unseen, IInv, TypeOK
  <2>3. CASE Restart \/ CancelScan \/ CloseForm \/ UNCHANGED vars
    BY <1>1, <2>3, SMT DEF Restart, CancelScan, CloseForm, vars, IInv, TypeOK
  <2>4. QED BY <1>1, <2>1, <2>2, <2>3 DEF Next
<1>2. IInv /\ [Next]_vars => [OutcomeKept]_vars
  BY <1>1 DEF OutcomeKept
<1>3. QED BY <1>2, Invariance, PTL DEF Spec, OutcomeIsFinal

LEMMA OnlyForgetDeletes ==
  ASSUME NEW e \in Entries, JobStep(e) \/ UserStep(e), NEW x \in durable, x \notin durable'
  PROVE  x = e /\ step[e] = "forget" /\ UNCHANGED <<entry, reason>>
  BY SMT DEF JobStep, UserStep, Send, Check, Settle, Refine, Reject, Ignore, Run, Write, Book,
     Persist, Forget, OpenForm, Dismiss, FinishSave, DecideCluster, Save, Attempt, Goto,
     ledger, screen

(* A durable job outlives every crash until its outcome is committed       *)
(* (process_layer6_job, delete_persisted_layer6_job).                      *)
THEOREM DurableJobsKept == Spec => DurableUntilCommitted
<1>1. ASSUME IInv, [Next]_vars, NEW x \in durable, x \notin durable'
      PROVE  entry'[x] # "open" \/ reason'[x] # "pending"
  <2>1. CASE \E e \in Entries : JobStep(e) \/ UserStep(e)
    BY <1>1, <2>1, OnlyForgetDeletes DEF IInv, ForgottenIsDone
  <2>2. CASE \E e \in Entries, why \in {"pending", "incomplete", "failed"} : Park(e, why)
    BY <1>1, <2>2 DEF Park
  <2>3. CASE Restart \/ CancelScan \/ CloseForm \/ UNCHANGED vars
    BY <1>1, <2>3 DEF Restart, CancelScan, CloseForm, vars
  <2>4. QED BY <1>1, <2>1, <2>2, <2>3 DEF Next
<1>2. IInv /\ [Next]_vars => [DeletesCommitted]_vars
  BY <1>1 DEF DeletesCommitted
<1>3. QED BY <1>2, Invariance, PTL DEF Spec, DurableUntilCommitted
=============================================================================
