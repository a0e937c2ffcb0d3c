---------------------------- MODULE MatchScoring ----------------------------
(***************************************************************************)
(* How the reconciliation engine compares an incoming observation with a   *)
(* canonical transaction: the exact-match test and the weighted score.     *)
(* Scores are in thousandths (0.55 is 550); times are integers in which a  *)
(* day lasts Day units.  Observations and transactions are records.        *)
(*                                                                         *)
(* src/src-tauri/src/reconciliation/scorer.rs, exact_match.rs              *)
(***************************************************************************)
EXTENDS Integers

CONSTANTS
  None,        \* SQL NULL
  Day,         \* time units in a day
  Tolerance,   \* EXACT_MATCH_TIME_TOLERANCE_SECONDS, in time units
  References,  \* bank reference ids
  Merchants,   \* merchant names, as written by a source or normalised
  PartOf,      \* <<a, b>>: reference a occurs inside reference b
  Normal,      \* the normalised name of each, None when nothing is left of it
  Similarity   \* Jaro-Winkler similarity of two merchant names, in percent

ASSUME ScoringAssumption ==
  /\ Day \in Nat \ {0}
  /\ Tolerance \in 0..Day
  /\ None \notin References \cup Merchants
  /\ Normal \in [Merchants -> Merchants \cup {None}]
  /\ PartOf \subseteq References \X References
  /\ Similarity \in [Merchants \X Merchants -> 0..100]

-----------------------------------------------------------------------------
Distance(a, b) == IF a < b THEN b - a ELSE a - b

(* The window find_candidates_within_window searches, on either side. *)
CandidateWindow == 3 * Day

(* Everything but the time must agree exactly for a merge of any kind. *)
SamePayment(obs, txn) ==
  /\ obs.instrument = txn.instrument
  /\ obs.direction = txn.direction
  /\ obs.amount = txn.amount

ExactMatch(obs, txn) ==
  SamePayment(obs, txn) /\ Distance(obs.time, txn.time) <= Tolerance

-----------------------------------------------------------------------------
MerchantScore(obs, txn) ==
  IF None \in {obs.merchant, txn.name} THEN 0
  ELSE 3 * Similarity[<<obs.merchant, txn.name>>]

RelatedReferences(a, b) == a = b \/ <<a, b>> \in PartOf \/ <<b, a>> \in PartOf

(* Regression: references that contradict each other cost nothing. *)
ReferenceScoreLenient(obs, txn) ==
  IF None \in {obs.reference, txn.reference} THEN 0
  ELSE IF obs.reference = txn.reference THEN 250
  ELSE IF RelatedReferences(obs.reference, txn.reference) THEN 100
  ELSE 0

ReferenceScore(obs, txn) ==
  IF None \in {obs.reference, txn.reference} THEN 0
  ELSE IF obs.reference = txn.reference THEN 250
  ELSE IF RelatedReferences(obs.reference, txn.reference) THEN 100
  ELSE -250

TimeScore(a, b) ==
  LET d == Distance(a, b)
  IN  IF d <= Day THEN 150 + (100 * (Day - d)) \div Day
      ELSE IF d <= 3 * Day THEN (100 * (3 * Day - d)) \div (2 * Day)
      ELSE 0

(* An alert and a statement line describing one payment complement each other. *)
Complementary(obs, txn) ==
  <<obs.source, txn.mix>> \in
    {<<"statement_pdf", "email_only">>, <<"gmail_transaction", "statement_only">>}

DecimalScore(obs, txn) ==
    MerchantScore(obs, txn)
  + ReferenceScore(obs, txn)
  + (IF obs.amount = txn.amount THEN 100 ELSE 0)
  + (IF obs.direction = txn.direction THEN 50 ELSE 0)
  + TimeScore(obs.time, txn.time)
  + (IF Complementary(obs, txn) THEN 50 ELSE 0)

ViabilityFloor  == 550
AmbiguityMargin == 150

(* The code adds binary fractions.  Of the sums that meet the floor        *)
(* exactly, one falls short of it: the same reference a day apart to the   *)
(* second (as dates are), with no name to compare and nothing to           *)
(* complement: 0.25 + 0.10 + 0.05 + 0.15 is 0.5499999999999999.            *)
FallsShort(obs, txn) ==
  /\ DecimalScore(obs, txn) = ViabilityFloor
  /\ MerchantScore(obs, txn) = 0 /\ ReferenceScore(obs, txn) = 250
  /\ Distance(obs.time, txn.time) = Day

RawScore(obs, txn) ==
  DecimalScore(obs, txn) - (IF FallsShort(obs, txn) THEN 1 ELSE 0)

Score(obs, txn) ==
  LET s == RawScore(obs, txn) IN IF s < 0 THEN 0 ELSE IF s > 1000 THEN 1000 ELSE s
=============================================================================
