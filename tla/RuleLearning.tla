---------------------------- MODULE RuleLearning ----------------------------
(***************************************************************************)
(* The rules that extraction learns (src/src-tauri/src/learning/worker.rs, *)
(* db/field_rules.rs): alerts are read by the ladder with the rules live   *)
(* at that time or, if it fails, by the local model in the background; the *)
(* user corrects what was booked; a worker makes a rule of each correction *)
(* and of what the model read where rules had stopped working, vets it and *)
(* stores it.                                                              *)
(***************************************************************************)
EXTENDS Extraction

CONSTANTS Messages,     \* alerts of the bank
          Text,         \* of a message
          Received,     \* the day of a message, an option
          Answers,      \* what the local model may answer of a message
          Corrections,  \* what the user may put right: by message and field, an option
          Ids,          \* identifiers of rules, drawn at random
          Capacity,     \* of the queue of lessons
          MaxQuits      \* bound: how often the application quits

OverrideFields == {"direction", "currency"}

(* The tokens a value of a field is looked for in.                         *)
Carriers == [merchant |-> {"name", "narration", "vpa"}, amount |-> Amounts, balance |-> Amounts,
             reference |-> {"ref"}, time |-> {"date"}, mask |-> {"card", "account"}]

(* A mail arrives on one day, or none is known; what is written as a date, *)
(* or stands for one, has its two readings; and a field that is corrected, *)
(* answered, given by a pattern or on a statement has one value, or none.  *)
ASSUME LearningAssumption ==
  /\ \A c \in DOMAIN Corrections : /\ c[2] \in DOMAIN Carriers \cup OverrideFields
                                   /\ Option(Corrections[c])
  /\ \A i \in Messages : /\ Received[i] \subseteq Int /\ Option(Received[i])
                         /\ \A answer \in Answers[i] : Optional(answer)
                         /\ DOMAIN Text[i] = 1 .. Len(Text[i])
                         /\ \A n \in DOMAIN Text[i] : Text[i][n].k = "date" => Text[i][n].v \in Dates
  /\ \A n \in DOMAIN Patterns : /\ Patterns[n].fallback \subseteq Dates
                                /\ Option(Patterns[n].fallback) /\ Option(Patterns[n].instrument)
                                /\ Patterns[n].groups \subseteq DOMAIN Group
  /\ \A e \in Entries : /\ e.day \in Int
                        /\ \A f \in {"amount", "currency", "direction", "merchant", "reference"} : Option(e[f])
  /\ Ids \subseteq Int /\ Capacity \in Nat /\ MaxQuits \in Nat

VARIABLES mail,         \* per message: its phase, its fields and who read them
          corrected,    \* the corrections made
          rules,        \* the rule variants, retired ones included
          queue,        \* lessons to be learned, in memory
          worker,       \* the lesson in hand, an option
          quits

vars == <<mail, corrected, rules, queue, worker, quits>>

Unseen == [phase |-> "unseen", by |-> "nobody", result |-> <<>>]

Init ==
  /\ mail = [i \in Messages |-> Unseen]
  /\ corrected = {} /\ rules = {} /\ queue = <<>> /\ worker = {} /\ quits = 0

Applied == {"active", "trusted"}
Live    == Applied \cup {"pending"}

LiveRules == {r \in rules : r.status \in Applied}

-----------------------------------------------------------------------------
(* Reading mail.                                                           *)

(* What finds no room is dropped.                                          *)
Enqueue(jobs) == queue' = SubSeq(queue \o jobs, 1, Min2(Capacity, Len(queue) + Len(jobs)))

(* What the ladder reads in an alert is tidied (the content gate took it   *)
(* for a payment); if it passes the third gate it is booked, any other     *)
(* alert is parked for the local model with what was read of it.           *)
AsRead(i) == {Tidied(Received[i], "transaction", read) :
                 read \in RunExtractionLadder(LiveRules, Text[i], Received[i])}

Intake(i) ==
  /\ mail[i].phase = "unseen"
  /\ \E read \in Fill(AsRead(i), {Blank("none", {})}) :
       mail' = [mail EXCEPT ![i] =
         [phase |-> IF PassesGate3(read) THEN "booked" ELSE "parked", by |-> "ladder", result |-> read]]
  /\ UNCHANGED <<corrected, rules, queue, worker, quits>>

(* Where a rule of the very template is live and the model was needed, the *)
(* template is taken to have drifted, and every field the model read       *)
(* becomes a candidate for a new rule.                                     *)
DetectPatternDrift(i) == \E r \in LiveRules : r.template = Template(Text[i])

DriftCandidates(i, result) ==
  LET candidate(f) == IF result[f] = {} THEN <<>>
                      ELSE <<[msg |-> i, field |-> f, value |-> result[f], from |-> "drift_llm"]>>
  IN candidate("merchant") \o candidate("amount") \o candidate("reference")
     \o candidate("balance") \o candidate("time")

AutoResolveThreshold == 75

(* The parked row takes what the model read and keeps what it did not, and *)
(* is booked if the model is sure enough or the money stays in the house.  *)
Completed(i, llm) ==
  [f \in DOMAIN llm |-> CASE f \in {"method", "conf", "flag", "time"} -> llm[f]
                          [] f = "channel" -> Fill(DetectChannel(llm, Text[i]), mail[i].result[f])
                          [] OTHER -> Fill(llm[f], mail[i].result[f])]

Sure(row, llm) ==
  /\ Has(row, {"amount", "merchant"}) /\ row.amount # {0}
  /\ Has(llm, {"instrument", "issuer", "mask"})
  /\ row.channel = {"internal_transfer"} \/ \E c \in llm.conf : c >= AutoResolveThreshold

Enrich(i) ==
  /\ mail[i].phase = "parked"
  /\ \E first, second \in Answers[i] : \E answer \in Layer6(first, second, Text[i], Received[i]) :
       LET llm == ApplyInstrumentSignals(answer, Text[i])
           row == Completed(i, llm)
       IN /\ mail' = [mail EXCEPT ![i] = [phase |-> IF Sure(row, llm) THEN "booked" ELSE "review",
                                         by |-> "background", result |-> row]]
          /\ IF DetectPatternDrift(i) THEN Enqueue(DriftCandidates(i, answer)) ELSE UNCHANGED queue
  /\ UNCHANGED <<corrected, rules, worker, quits>>

-----------------------------------------------------------------------------
(* The user.                                                               *)

(* A rule is retired at its third failure, or when fewer than seven in ten *)
(* of its uses were right.                                                 *)
RecordFailure(r) ==
  [r EXCEPT !.f = r.f + 1,
            !.status = IF r.f + 1 >= 3 \/ 10 * r.s < 7 * (r.s + r.f + 1) THEN "inactive" ELSE r.status]

(* A field of a payment is put right: the rule of its template failed, and *)
(* there is a lesson to learn.                                             *)
Correct(c) ==
  LET i == c[1]
      f == c[2]
      failed == {r \in LiveRules : r.field = f /\ r.template = Template(Text[i])}
  IN /\ mail[i].phase = "booked" /\ c \notin corrected
     /\ mail[i].result[f] # Corrections[c]
     /\ corrected' = corrected \cup {c}
     /\ rules' = (rules \ failed) \cup {RecordFailure(r) : r \in failed}
     /\ Enqueue(<<[msg |-> i, field |-> f, value |-> Corrections[c], from |-> "user_edit"]>>)
     /\ UNCHANGED <<mail, worker, quits>>

(* A rule is reverted on the settings screen.                              *)
Revert(r) ==
  /\ r.status # "inactive"
  /\ rules' = (rules \ {r}) \cup {[r EXCEPT !.status = "inactive"]}
  /\ UNCHANGED <<mail, corrected, queue, worker, quits>>

-----------------------------------------------------------------------------
(* The worker.                                                             *)

Take ==
  /\ worker = {} /\ queue # <<>>
  /\ worker' = {[job |-> Head(queue), step |-> "author", fixed |-> {}, place |-> {}]}
  /\ queue' = Tail(queue)
  /\ UNCHANGED <<mail, corrected, rules, quits>>

Shows(job, t) == t.k \in Carriers[job.field] /\ {t.v} = job.value

(* What stands first at the place in the lesson's own text is the value.   *)
SelfCheck(job, p) == Value(Text[job.msg], LAMBDA t : Place(t) = p) = job.value

(* A pattern is made of the first occurrence of the value; where it does   *)
(* not recover it, the model may point out another place, if that one does.*)
Synthesized(job) ==
  {p \in {Place(t) : t \in First(Text[job.msg], LAMBDA t : Shows(job, t))} : SelfCheck(job, p)}

ByModel(job) ==
  LET text == Text[job.msg]
  IN  {p \in {Place(text[n]) : n \in {k \in DOMAIN text : Shows(job, text[k])}} : SelfCheck(job, p)}

PlacesOf(job) == IF Synthesized(job) # {} THEN Synthesized(job) ELSE ByModel(job)

Author ==
  \E w \in worker :
    /\ w.step = "author"
    /\ \/ /\ w.job.field \in OverrideFields
          /\ worker' = {[w EXCEPT !.step = "check", !.fixed = w.job.value]}
       \/ /\ w.job.field \notin OverrideFields
          /\ \E p \in PlacesOf(w.job) : worker' = {[w EXCEPT !.step = "check", !.place = {p}]}
    /\ UNCHANGED <<mail, corrected, rules, queue, quits>>

(* Synthesis finds no pattern that recovers the value, and the model has   *)
(* none either, or cannot be asked.                                        *)
AuthorFails ==
  /\ \E w \in worker : /\ w.step = "author" /\ w.job.field \notin OverrideFields
                       /\ Synthesized(w.job) = {}
  /\ worker' = {}
  /\ UNCHANGED <<mail, corrected, rules, queue, quits>>

(* A candidate must agree with what was read of every message booked, as   *)
(* far as it captures anything there; a fixed value captures everywhere.   *)
Captured(w, text) ==
  IF w.fixed # {} THEN w.fixed ELSE Value(text, LAMBDA t : {Place(t)} = w.place)

Samples(job) ==
  {i \in Messages : mail[i].phase = "booked" /\ ~(job.from = "user_edit" /\ i = job.msg)}

RegressionCheck(w) ==
  \A i \in Samples(w.job) :
    LET accepted == mail[i].result[w.job.field]
    IN {} \in {accepted, Captured(w, Text[i])} \/ accepted = Captured(w, Text[i])

Check ==
  \E w \in worker :
    /\ w.step = "check"
    /\ worker' = IF RegressionCheck(w) THEN {[w EXCEPT !.step = "store"]} ELSE {}
    /\ UNCHANGED <<mail, corrected, rules, queue, quits>>

(* Regression: a rule that waits for its promotion is not replaced.        *)
ReplacedApplied(job) ==
  {r \in LiveRules : r.field = job.field /\ r.template = Template(Text[job.msg])}

(* The live rule of the field and template, which a new one overwrites.    *)
Replaced(job) ==
  {r \in rules : r.field = job.field /\ r.template = Template(Text[job.msg]) /\ r.status \in Live}

(* A correction goes live at once, a candidate of the model as pending.    *)
Variant(w, id) ==
  LET taught == w.job.from = "user_edit"
  IN [id |-> id, field |-> w.job.field, template |-> Template(Text[w.job.msg]),
      fixed |-> w.fixed, place |-> w.place, from |-> w.job.from,
      status |-> IF taught THEN "active" ELSE "pending", s |-> IF taught THEN 1 ELSE 0, f |-> 0]

Store ==
  \E w \in worker :
    /\ w.step = "store"
    /\ LET old == Replaced(w.job)
       IN \E id \in IF old = {} THEN Ids \ {r.id : r \in rules} ELSE {r.id : r \in old} :
            rules' = (rules \ old) \cup {Variant(w, id)}
    /\ worker' = {}
    /\ UNCHANGED <<mail, corrected, queue, quits>>

(* The queue is in memory.                                                 *)
Quit ==
  /\ quits < MaxQuits /\ (worker # {} \/ queue # <<>>)
  /\ quits' = quits + 1 /\ queue' = <<>> /\ worker' = {}
  /\ UNCHANGED <<mail, corrected, rules>>

Next ==
  \/ \E i \in Messages : Intake(i) \/ Enrich(i)
  \/ \E c \in DOMAIN Corrections : Correct(c)
  \/ \E r \in rules : Revert(r)
  \/ Take \/ Author \/ AuthorFails \/ Check \/ Store \/ Quit

Spec == Init /\ [][Next]_vars

-----------------------------------------------------------------------------
TypeOK ==
  /\ \A i \in Messages : /\ mail[i].phase \in {"unseen", "booked", "parked", "review"}
                         /\ mail[i].by \in {"nobody", "ladder", "background"}
                         /\ mail[i].phase # "unseen" => Optional(mail[i].result)
  /\ corrected \subseteq DOMAIN Corrections
  /\ \A r \in rules : r.id \in Ids /\ r.status \in Live \cup {"inactive"} /\ r.s \in 0..1 /\ r.f \in 0..3
  /\ Len(queue) <= Capacity
  /\ Option(worker)
  /\ quits \in 0 .. MaxQuits

(* A message whose first figure in a currency is not the amount booked is  *)
(* not booked with more confidence than a contradiction allows, nor is one *)
(* whose date, however it is read, is weeks away; and of two readings of a *)
(* date, the one decisively nearer to the mail is taken.  What was booked  *)
(* as a mere balance, for want of a name, is not looked at: its amount may *)
(* be the nought that apply_balance_update_placeholder puts.               *)
Verified(i) ==
  LET r    == mail[i].result
      read == {t.v : t \in AmountRead(Text[i])}
      doubted == \A c \in r.conf : c <= CrossCheckConfidence
      far(day) == \A d \in Received[i] : Distance(day, d) > PlausibleDelay
  IN r.merchant # {"balance update"} =>
     /\ (r.amount # {} /\ read # {} /\ read # r.amount /\ read # r.original) => doubted
     /\ \A t \in r.time, d \in Received[i] : t.on # t.other =>
          /\ far(t.on) /\ far(t.other) => doubted
          /\ ~far(t.other) => Distance(t.on, d) <= DecisiveRatio * Distance(t.other, d)

(* The checks see the fields as they are booked, learned rules and foreign *)
(* amounts included, whichever layer of the ladder read them               *)
(* (finalize_result).                                                      *)
LadderIsVerified ==
  \A i \in Messages : mail[i].phase = "booked" /\ mail[i].by = "ladder" => Verified(i)

(* A live rule taught on the very template of a message decides its field, *)
(* whatever other rules capture there and whichever layer read the rest    *)
(* (apply_learned_fields); only a date may still be exchanged, and a name  *)
(* that is an account number or that the normalizer refuses is replaced or *)
(* dropped even so (message_processor.rs:538-557).                         *)
LessonWins ==
  [][\A i \in Messages : mail'[i] # mail[i] /\ Intake(i) /\ mail'[i].result.method # "none" =>
       \A r \in LiveRules :
         (r.template = Template(Text[i]) /\ Capture(r, Text[i]) # {}) =>
           \/ mail'[i].result[r.field] = Capture(r, Text[i])
           \/ r.field = "time" /\ mail'[i].result.flag = "swapped_by_anchor"
           \/ r.field = "merchant" /\ Capture(r, Text[i]) \cap (Implausible \cup OwnAccounts) # {}]_vars

(* However corrections, candidates of the model and reverts follow each    *)
(* other, a field of a template has one live rule (upsert_variant, and the *)
(* unique index behind it).                                                *)
OneLiveRule ==
  \A q, r \in rules :
    (q.status \in Live /\ r.status \in Live /\ q.field = r.field /\ q.template = r.template) => q = r
=============================================================================
