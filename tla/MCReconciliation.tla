-------------------------- MODULE MCReconciliation --------------------------
(***************************************************************************)
(* Instances of Reconciliation for TLC: a day is ten time units and the    *)
(* exact-match tolerance one.  Each scenario is a handful of observations  *)
(* of payments of one amount, chosen so that every verdict of the engine   *)
(* is reached (the scores behind them are in the README), with a bound on  *)
(* the user's verdicts, the edited transactions and the crashes.  A run    *)
(* explores all of its scenarios.                                          *)
(***************************************************************************)
EXTENDS Reconciliation

CONSTANT Scenarios
VARIABLE scenario

MCMerchants == {"cafe", "CAFE BLR", "diner"}
MCNormal == [m \in MCMerchants |-> IF m = "CAFE BLR" THEN "cafe" ELSE m]
MCSimilarity == [p \in MCMerchants \X MCMerchants |-> IF p[1] = p[2] THEN 100 ELSE 80]
MCReferences == {"R1", "R2"}

Seen(source, record, time, fingerprint, reference, merchant, confidence) ==
  [source |-> source, record |-> record, instrument |-> "card", amount |-> 500,
   direction |-> "debit", time |-> time, fingerprint |-> fingerprint,
   reference |-> reference, merchant |-> merchant, confidence |-> confidence]

Email(record, time, fingerprint, reference, merchant, confidence) ==
  Seen("gmail_transaction", record, time, fingerprint, reference, merchant, confidence)
Line(record, time, reference, merchant) ==
  Seen("statement_pdf", record, time, None, reference, merchant, 90)

(* Two payments of the same amount half a day apart, each alerted by an    *)
(* email (e), and lines (l) of a statement that name one of them or        *)
(* neither; one payment from every source: an alert sent twice (a), a      *)
(* manual entry and two statement lines, the last of them beyond the       *)
(* window of the first; and two charges (d), one of which is reversed: the *)
(* reversal (c) is alerted by email and appears on statements a day later, *)
(* after the second charge.  On the engine's thresholds: one reference on  *)
(* two days, without a name (b), and a line whose two candidates are the   *)
(* margin apart (n, with e1).                                              *)
Credit(row) == [row EXCEPT !.direction = "credit"]
MCEvidence ==
  [e1 |-> Email("m1", 0, "f1", "R1", "cafe", 60),
   e2 |-> Email("m2", 5, "f2", "R2", "cafe", 90),
   l1 |-> Line("s1", 5, None, "cafe"),
   l2 |-> Line("s2", 0, None, "CAFE BLR"),
   a1 |-> Email("m1", 0, "f1", None, "cafe", 60),
   a2 |-> Email("m2", 1, "f1", "R1", "diner", 90),
   u1 |-> Seen("manual", "u1", 0, None, None, "cafe", 100),
   s1 |-> Line("s1", 10, "R1", "CAFE BLR"),
   s2 |-> Line("s2", 35, "R1", "cafe"),
   d1 |-> Email("m1", 0, "f1", "R1", "cafe", 60),
   d2 |-> Email("m2", 25, "f2", "R2", "cafe", 60),
   c1 |-> Credit(Email("m3", 20, "f3", None, "cafe", 60)),
   c2 |-> Credit(Line("s1", 30, None, "cafe")),
   c3 |-> Credit(Line("s2", 31, "R1", None)),
   b1 |-> Email("m1", 0, "f1", "R1", None, 60),
   b2 |-> Email("m2", 10, "f2", "R1", None, 90),
   b3 |-> Line("s1", 9, "R1", None),
   n1 |-> Email("m2", 9, "f2", "R2", "diner", 60),
   n2 |-> Line("s1", 0, None, "cafe")]

MCObservations == DOMAIN MCEvidence

Scenario(arrivals, reviews, edits, deaths) ==
  [arrivals |-> arrivals, reviews |-> reviews, edits |-> edits, deaths |-> deaths]

TwoPayments  == Scenario({"e1", "e2", "l1", "l2"}, 3, 0, 0)
Interruption == Scenario({"e1", "e2", "l1", "l2"}, 2, 0, 1)
OnePayment   == Scenario({"a1", "a2", "u1", "s1", "s2"}, 2, 0, 0)
Reversal     == Scenario({"d1", "d2", "c1", "c2", "c3"}, 1, 0, 0)
Edited       == Scenario({"a1", "s1", "s2"}, 1, 1, 0)
DayApart     == Scenario({"b1", "b2", "b3"}, 1, 0, 0)
Margin       == Scenario({"e1", "n1", "n2"}, 1, 0, 0)

LedgerScenarios ==
  {TwoPayments, Interruption, OnePayment, Reversal, Edited, DayApart, Margin}
ReviewScenarios == {TwoPayments}

MCInit == Init /\ scenario \in Scenarios
(* Next, of the observations and edits of the scenario. *)
MCNext ==
  /\ \/ \E o \in scenario.arrivals : EvidenceStep(o)
     \/ \E c \in DOMAIN clusters : ClusterStep(c)
     \/ \E t \in Ids : DeleteTransaction(t)
     \/ scenario.edits > 0 /\ \E t \in Ids : EditTransaction(t)
  /\ Cardinality(Verdicts') <= scenario.reviews
  /\ Cardinality(corrections') <= scenario.edits
  /\ crashes' <= scenario.deaths
  /\ UNCHANGED scenario

MCSpec == MCInit /\ [][MCNext]_<<vars, scenario>>

-----------------------------------------------------------------------------
(* What comments and the review screen say of the engine.                  *)

(* "The new evidence will be recorded as a separate, unmatched             *)
(* transaction": rejecting the candidates puts the evidence in the ledger  *)
(* (src/hooks/useResolveClusterActions.tsx, handleRejectCandidates).       *)
RejectedEvidenceIsRecorded ==
  \A c \in DOMAIN clusters : clusters[c].status = "rejected" => link[Subject(c)] # 0
=============================================================================
