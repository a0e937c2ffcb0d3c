--------------------------- MODULE MerchantCleanup ---------------------------
(***************************************************************************)
(* The pass in which the local model renames merchants that were read      *)
(* badly (src/src-tauri/src/commands/merchant_cleanup.rs,                  *)
(* db/merchant_cleanup.rs): a run selects candidates, workers ask the      *)
(* model for each, every change is recorded, and the user may cancel the   *)
(* run and take back a change or a run, now or later.                      *)
(*                                                                         *)
(* Display name, normalised name, merchant and category of a transaction   *)
(* are written together; the category is left out of names.  A transaction *)
(* is a debit here: of a credit no merchant is looked up.                  *)
(***************************************************************************)
EXTENDS MerchantNames

CONSTANTS Payments,     \* transactions
          ReadAs,       \* per payment: the name the parser found
          LaterNames,   \* per payment: the names in what else is heard of it
          Method,       \* and how it found it
          BodyOf,       \* per payment: the template of its mail, {} if not retained
          Spans,        \* per payment: the names in its mail
          Categories,   \* those there are
          Proposals,    \* per payment: what the model may answer, [name, span, category]
          UserNames,    \* names the user may write
          MaxRuns       \* bound: runs

ASSUME CleanupAssumption == MaxRuns \in Nat

VARIABLES booked,       \* per payment: how its evidence named it before it was selected (history)
          names,        \* per payment: the name shown and its merchant
          touched,      \* payments renamed between their selection and the undoing of what
                        \* came of it, by the user, by evidence or by a worker undone
                        \* in the middle of its change (history)
          corrections,  \* merchant_llm_corrections
          learned,      \* per template: the state of its merchant rule
          runs,         \* runs begun
          running,      \* CLEANUP_RUNNING
          cancelled,    \* CLEANUP_CANCELLED
          todo,         \* candidates of the run, as they were selected
          hands         \* per payment in a worker's hands: the candidate and how far it is

cleanupVars == <<booked, names, touched, corrections, merchantVars, learned, runs, running, cancelled,
                 todo, hands>>

Unnamed == [shown |-> "none", merchant |-> Nobody]

CleanupInit ==
  /\ MerchantsInit
  /\ booked = [p \in Payments |-> Unnamed] /\ names = booked /\ touched = {} /\ corrections = {}
  /\ learned = [b \in UNION {BodyOf[p] : p \in Payments} |-> "absent"]
  /\ runs = 0 /\ running = FALSE /\ cancelled = FALSE /\ todo = {} /\ hands = {}

Booked == {p \in Payments : booked[p] # Unnamed}
Applied_(p) == {c \in corrections : c.payment = p /\ c.status = "applied"}

(* A payment is booked under the merchant its descriptor leads to.         *)
BookPayment(p) ==
  /\ p \notin Booked
  /\ NormalizeMerchant(StripNoise(ReadAs[p]))
  /\ booked' = [booked EXCEPT ![p] = [shown |-> ReadAs[p], merchant |-> Leads(StripNoise(ReadAs[p]))]]
  /\ names' = [names EXCEPT ![p] = booked'[p]]
  /\ UNCHANGED <<touched, corrections, learned, runs, running, cancelled, todo, hands>>

(* Further evidence that is merged into a payment writes its own name over *)
(* the one shown - a statement's always, a mail's if it is more confident  *)
(* - and post-processing the merchant that leads to, neither with a look   *)
(* at the clean-up.  What is selected or corrected is not told.            *)
MergeEvidence(p, n) ==
  /\ p \in Booked \ touched
  /\ NormalizeMerchant(StripNoise(n))
  /\ \E shown \in {names[p].shown, n} :
       names' = [names EXCEPT ![p] =
                   [shown |-> shown,
                    merchant |-> IF Leads(StripNoise(n)) = Nobody THEN @.merchant ELSE Leads(StripNoise(n))]]
  /\ names'[p] # Unnamed  \* no name is ever taken away
  /\ IF Applied_(p) # {} \/ (\E c \in todo : c.payment = p) \/ \E h \in hands : h.c.payment = p
     THEN touched' = touched \cup {p} /\ UNCHANGED booked
     ELSE booked' = [booked EXCEPT ![p] = names'[p]] /\ UNCHANGED touched
  /\ UNCHANGED <<corrections, learned, runs, running, cancelled, todo, hands>>

(* A merchant of the user's, or one known by several names, is             *)
(* established.                                                            *)
Established(m) ==
  m \in DOMAIN merchants /\ (merchants[m].source = "user" \/ Cardinality(AliasesOf(m)) > 1)

Doubtful(p) == PoorName(Method[p], StripNoise(names[p].shown), Established(names[p].merchant))

(* Regression: what the model renamed is a candidate while its name still  *)
(* scores low.                                                             *)
SelectAgain ==
  {[payment |-> p, name |-> names[p]] :
     p \in {q \in Booked : Doubtful(q)}}

(* Badly read names that no applied correction stands for.                 *)
SelectCandidates ==
  {[payment |-> p, name |-> names[p]] :
     p \in {q \in Booked : Doubtful(q) /\ Applied_(q) = {}}}

Start ==
  /\ ~running /\ runs < MaxRuns
  /\ running' = TRUE /\ cancelled' = FALSE /\ runs' = runs + 1
  /\ todo' = SelectCandidates
  /\ UNCHANGED <<booked, names, touched, corrections, merchantVars, learned, hands>>

Cancel ==
  /\ running /\ ~cancelled /\ cancelled' = TRUE
  /\ UNCHANGED <<booked, names, touched, corrections, merchantVars, learned, runs, running, todo, hands>>

(* A worker takes the next candidate; without the mail nothing is asked.   *)
TakeCandidate(c) ==
  /\ running /\ ~cancelled /\ c \in todo
  /\ todo' = todo \ {c}
  /\ hands' = IF BodyOf[c.payment] = {} THEN hands
              ELSE hands \cup {[c |-> c, run |-> runs, answer |-> {}, step |-> "ask"]}
  /\ UNCHANGED <<booked, names, touched, corrections, merchantVars, learned, runs, running, cancelled>>

(* An answer that is not in the mail, or in no category, is dropped, as is *)
(* a call that fails.                                                      *)
DropAnswer(h) ==
  /\ h.step = "ask" /\ hands' = hands \ {h}
  /\ UNCHANGED <<booked, names, touched, corrections, merchantVars, learned, runs, running, cancelled, todo>>

(* The answer must name what is in the mail, and a category there is.      *)
Validated(p) == {r \in Proposals[p] : r.span \in Spans[p] /\ r.category \in Categories}

Within(a, b) == \E i \in 1 .. Len(b) : i + Len(a) <= Len(b) + 1 /\ SubSeq(b, i, i + Len(a) - 1) = a

SafeToAlias(a, b) == a # <<>> /\ b # <<>> /\ (Within(a, b) \/ Within(b, a) \/ Similarity(a, b) >= 80)

(* The merchant of that name becomes the user's, or is made; one that was  *)
(* removed cannot be made again.                                           *)
ResolveCanonicalMerchant(n) ==
  /\ n # <<>> /\ n \notin DOMAIN merchants \ LiveMerchants
  /\ merchants' = Upserted(merchants, {n}, [source |-> "user", deleted |-> FALSE])

(* The statements of apply_correction commit one by one.  The merchant and *)
(* the names it goes by: an alias belongs to the last that claimed it.     *)
NameMerchant(h) ==
  /\ h.step = "ask"
  /\ \E r \in Validated(h.c.payment) :
       LET name    == StripNoise(r.name)
           span    == StripNoise(r.span)
           parsed  == StripNoise(h.c.name.shown)
           claimed == ({span} \cup {n \in {parsed} : SafeToAlias(n, span)}) \ {<<>>}
       IN /\ ResolveCanonicalMerchant(name)
          /\ UpsertAliases(claimed, name)
          /\ resolved' = Upserted(resolved, claimed, name)
          /\ hands' = (hands \ {h}) \cup
                        {[h EXCEPT !.answer = {[shown |-> r.name, merchant |-> name]}, !.step = "learn"]}
  /\ UNCHANGED <<booked, names, touched, corrections, learned, runs, running, cancelled, todo>>

(* A rule for the template, over whatever rule it had, unless no pattern   *)
(* recovers the span.                                                      *)
LearnRule(h) ==
  /\ h.step = "learn"
  /\ learned' \in {learned, [b \in DOMAIN learned |->
                                IF b \in BodyOf[h.c.payment] THEN "active" ELSE learned[b]]}
  /\ hands' = (hands \ {h}) \cup {[h EXCEPT !.step = "record"]}
  /\ UNCHANGED <<booked, names, touched, corrections, merchantVars, runs, running, cancelled, todo>>

(* What is recorded as replaced is the name that was selected.             *)
Record(h) ==
  /\ h.step = "record"
  /\ corrections' = corrections \cup
       {[payment |-> h.c.payment, run |-> h.run, old |-> h.c.name, new |-> n, status |-> "applied"] : n \in h.answer}
  /\ hands' = (hands \ {h}) \cup {[h EXCEPT !.step = "rename"]}
  /\ UNCHANGED <<booked, names, touched, merchantVars, learned, runs, running, cancelled, todo>>

Rename(h) ==
  /\ h.step = "rename"
  /\ \E n \in h.answer : names' = [names EXCEPT ![h.c.payment] = n]
  /\ hands' = hands \ {h}
  /\ UNCHANGED <<booked, touched, corrections, merchantVars, learned, runs, running, cancelled, todo>>

Finish ==
  /\ running /\ hands = {} /\ (todo = {} \/ cancelled)
  /\ running' = FALSE /\ todo' = {}
  /\ UNCHANGED <<booked, names, touched, corrections, merchantVars, learned, runs, cancelled, hands>>

(* Taking back a correction restores the name it replaced and retires the  *)
(* rule of the template; merchants and aliases stay.  A worker that has    *)
(* recorded the change and not yet renamed the payment renames it after.   *)
RevertCorrection(c) ==
  /\ c.status = "applied"
  /\ names' = [names EXCEPT ![c.payment] = c.old]
  /\ corrections' = (corrections \ {c}) \cup {[c EXCEPT !.status = "reverted"]}
  /\ learned' \in {learned, [b \in DOMAIN learned |->
                                IF b \in BodyOf[c.payment] /\ learned[b] = "active" THEN "inactive" ELSE learned[b]]}
  /\ touched' = touched \cup {h.c.payment : h \in {g \in hands : g.step = "rename" /\ g.c.payment = c.payment}}
  /\ UNCHANGED <<booked, merchantVars, runs, running, cancelled, todo, hands>>

(* Interrupted after the first of its statements.                          *)
RevertInterrupted(c) ==
  /\ c.status = "applied" /\ running' = FALSE /\ cancelled' = FALSE /\ todo' = {} /\ hands' = {}
  /\ names' = [names EXCEPT ![c.payment] = c.old]
  /\ UNCHANGED <<booked, touched, corrections, merchantVars, learned, runs>>

UserRenames(p, n) ==
  /\ p \in Booked \ touched /\ names[p].shown # n
  /\ UserMerchant(StripNoise(n))
  /\ names' = [names EXCEPT ![p] = [shown |-> n, merchant |-> UserChoice(StripNoise(n), @.merchant)]]
  /\ touched' = touched \cup {p}
  /\ UNCHANGED <<booked, corrections, learned, runs, running, cancelled, todo, hands>>

(* The tool is run while the application is closed.                        *)
RemoveMerchants ==
  /\ ~running /\ RemoveImplausible
  /\ UNCHANGED <<booked, names, touched, corrections, learned, runs, running, cancelled, todo, hands>>

Exit ==
  /\ running /\ running' = FALSE /\ cancelled' = FALSE /\ todo' = {} /\ hands' = {}
  /\ UNCHANGED <<booked, names, touched, corrections, merchantVars, learned, runs>>

CleanupNext ==
  \/ Start \/ Cancel \/ Finish \/ Exit
  \/ \E c \in todo : TakeCandidate(c)
  \/ \E h \in hands : DropAnswer(h) \/ NameMerchant(h) \/ LearnRule(h) \/ Record(h) \/ Rename(h)
  \/ \E c \in corrections : RevertCorrection(c) \/ RevertInterrupted(c)
  \/ \E p \in Payments : \/ BookPayment(p)
                         \/ \E n \in UserNames : UserRenames(p, n)
                         \/ \E n \in LaterNames[p] : MergeEvidence(p, n)
  \/ RemoveMerchants

CleanupSpec == CleanupInit /\ [][CleanupNext]_cleanupVars

-----------------------------------------------------------------------------
CleanupTypeOK ==
  /\ MerchantsTypeOK /\ touched \subseteq Booked /\ runs \in 0 .. MaxRuns
  /\ \A h \in hands : h.step \in {"ask", "learn", "record", "rename"} /\ h.run = runs
  /\ hands # {} => running
  /\ \A b \in DOMAIN learned : learned[b] \in {"absent", "active", "inactive"}

(* Through any number of runs, cancellations, quits and reverts, no        *)
(* payment is corrected twice, and one that nobody else renamed meanwhile  *)
(* is named as its evidence says or as the one correction in force, which  *)
(* leads back to that name: "each applied change stays individually        *)
(* revertible afterwards" (select_candidates, apply_correction,            *)
(* revert_correction).                                                     *)
CleanupReversible ==
  /\ \A p \in Payments : Cardinality(Applied_(p)) <= 1
  /\ \A p \in Payments \ touched :
       /\ names[p] \in {booked[p]} \cup {c.new : c \in Applied_(p)}
       /\ \A c \in Applied_(p) : c.old = booked[p]
=============================================================================
