------------------------------ MODULE SpendAlerts ------------------------------
(***************************************************************************)
(* The alerts on budgets and unusual payments (src/src-tauri/src/          *)
(* reconciliation/alert_worker.rs, the sums of db/transactions.rs,         *)
(* db/alerts.rs).  A task that a committed statement spawns (commands/     *)
(* mod.rs) goes through its payments one SQL statement at a time; tasks of *)
(* several statements run side by side, payments come and go meanwhile,    *)
(* and the application may quit between two statements.                    *)
(*                                                                         *)
(* A payment is its day, category, merchant and amount; a month is a fixed *)
(* number of days.  Limits and levels stay as the user set them.           *)
(***************************************************************************)
EXTENDS Integers, FiniteSets, FiniteSetsExt, Sequences, SequencesExt, TLC

CONSTANTS Debits,      \* payments
          DayOf, CategoryOf, MerchantOf, AmountOf,  \* what they are
          NoCategory,
          Global,      \* the scope of the overall limit
          Limit,       \* the monthly limit of a scope, 0 for none
          Levels,      \* the enabled levels in percent, ascending
          Statements, LinesOf,  \* statements and the payments on them, in order
          MonthLength, Trailing, \* days of a month and of the trailing average
          LastDay,     \* bound: the last day looked at
          MaxCrashes   \* bound: the application quits

ASSUME AlertsAssumption ==
  /\ MonthLength \in Nat \ {0} /\ Trailing \in Nat /\ LastDay \in Nat /\ MaxCrashes \in Nat
  /\ \A s \in Statements : LinesOf[s] \in Seq(Debits)
  /\ DayOf \in [Debits -> Nat]
  /\ Levels \in Seq(Nat) /\ \A i, j \in DOMAIN Levels : i < j => Levels[i] < Levels[j]

VARIABLES today,
          standing,  \* "absent", "booked", "contested" by an open cluster, or "deleted"
          flagged,   \* alert_fired = 1
          alerts,    \* rows of alerts
          offline,   \* payments whose cluster has an "SMS Offline" alert
          told,      \* <<scope, level, month>> -> notices given
          checks,    \* the tasks, one per committed statement
          raced,     \* history: two tasks were under way at once
          crashes    \* bound

bookings  == <<today, standing>>
alertVars == <<bookings, flagged, alerts, offline, told, checks, raced, crashes>>

Month(d)   == d \div MonthLength
Months     == 0..Month(LastDay)
Scopes     == ({CategoryOf[p] : p \in Debits} \ {NoCategory}) \cup {Global}
LevelSet   == ToSet(Levels)
NotSpawned == [phase |-> "none", todo |-> <<>>, scopes |-> <<>>, levels |-> <<>>, unsent |-> {}]

AlertsInit ==
  /\ today = 0 /\ standing = [p \in Debits |-> "absent"]
  /\ flagged = {} /\ alerts = {} /\ offline = {}
  /\ told = [k \in Scopes \X LevelSet \X Months |-> 0]
  /\ checks = [s \in Statements |-> NotSpawned]
  /\ raced = FALSE /\ crashes = 0

-----------------------------------------------------------------------------
(* Sums over the payments of the month up to the payment looked at, which  *)
(* leave out what is deleted or a member of an open cluster.               *)

Total(payments) == MapThenSumSet(LAMBDA q : AmountOf[q], payments)

SpendInMonth(scope, p) ==
  Total({q \in Debits : /\ standing[q] = "booked"
                        /\ scope = Global \/ CategoryOf[q] = scope
                        /\ Month(DayOf[q]) = Month(DayOf[p]) /\ DayOf[q] <= DayOf[p]})

(* The levels ascend, so that those reached come first.                    *)
LevelsReached(scope, p) ==
  LET reached == {i \in DOMAIN Levels : 100 * SpendInMonth(scope, p) >= Levels[i] * Limit[scope]}
  IN  IF Limit[scope] = 0 THEN <<>> ELSE SubSeq(Levels, 1, Cardinality(reached))

(* Regression: the alert's month has to be the payment's. *)
AlreadyFiredThatMonth(scope, level, month) ==
  \E a \in alerts : a.scope = scope /\ a.level = level /\ Month(a.on) = month

(* Recorded in the payment's month, or later. *)
AlreadyFired(scope, level, month) ==
  \E a \in alerts : a.scope = scope /\ a.level = level /\ a.on >= month * MonthLength

(* More than three times the average of the days before, which counts      *)
(* contested payments too.                                                 *)
IsSpike(p) ==
  LET earlier == {q \in Debits : /\ MerchantOf[q] = MerchantOf[p]
                                 /\ standing[q] \in {"booked", "contested"}
                                 /\ DayOf[p] - Trailing <= DayOf[q] /\ DayOf[q] < DayOf[p]}
  IN  Total(earlier) > 0 /\ AmountOf[p] * Cardinality(earlier) > 3 * Total(earlier)

-----------------------------------------------------------------------------
(* The task of statement s.                                                *)

Looking(s)   == Head(checks[s].todo)
Underway     == {s \in Statements : checks[s].phase \notin {"none", "over"}}
Task(s, t)   == checks' = [checks EXCEPT ![s] = t]
NextLine(t)  == [t EXCEPT !.phase = "pick", !.todo = Tail(t.todo), !.unsent = {}]

(* A payment whose alert has fired is passed; a deleted one is not.        *)
Pick(s) ==
  /\ checks[s].phase = "pick"
  /\ LET t == checks[s]
         category == CategoryOf[Looking(s)]
     IN  Task(s, IF t.todo = <<>> THEN [NotSpawned EXCEPT !.phase = "over"]
                 ELSE IF Looking(s) \in flagged \/ standing[Looking(s)] = "absent" THEN NextLine(t)
                 ELSE [t EXCEPT !.phase = "gauge",
                                !.scopes = (IF category = NoCategory THEN <<>> ELSE <<category>>)
                                             \o <<Global>>])
  /\ UNCHANGED <<bookings, flagged, alerts, offline, told, raced, crashes>>

(* The spending of the next scope, and the levels it reaches.              *)
Gauge(s) ==
  /\ checks[s].phase = "gauge" /\ checks[s].scopes # <<>>
  /\ Task(s, [checks[s] EXCEPT !.phase = "look",
                               !.levels = LevelsReached(Head(checks[s].scopes), Looking(s))])
  /\ UNCHANGED <<bookings, flagged, alerts, offline, told, raced, crashes>>

Look(s) ==
  /\ checks[s].phase = "look"
  /\ LET t == checks[s]
     IN  Task(s, IF t.levels = <<>> THEN [t EXCEPT !.phase = "gauge", !.scopes = Tail(t.scopes)]
                 ELSE IF AlreadyFired(Head(t.scopes), Head(t.levels), Month(DayOf[Looking(s)]))
                 THEN [t EXCEPT !.levels = Tail(t.levels)]
                 ELSE [t EXCEPT !.phase = "record"])
  /\ UNCHANGED <<bookings, flagged, alerts, offline, told, raced, crashes>>

RecordAlert(s) ==
  /\ checks[s].phase = "record"
  /\ LET t == checks[s]
         crossed == <<Head(t.scopes), Head(t.levels), Month(DayOf[Looking(s)])>>
     IN  /\ alerts' = alerts \cup {[scope |-> crossed[1], level |-> crossed[2], on |-> today]}
         /\ Task(s, [t EXCEPT !.phase = "look", !.levels = Tail(t.levels),
                              !.unsent = t.unsent \cup {crossed}])
  /\ UNCHANGED <<bookings, flagged, offline, told, raced, crashes>>

(* The payment is flagged and the notices go out.                          *)
Conclude(s) ==
  /\ checks[s].phase = "gauge" /\ checks[s].scopes = <<>>
  /\ LET t == checks[s]
     IN  /\ flagged' = IF t.unsent # {} \/ IsSpike(Looking(s)) THEN flagged \cup {Looking(s)}
                       ELSE flagged
         /\ told' = [k \in DOMAIN told |-> IF k \in t.unsent THEN told[k] + 1 ELSE told[k]]
         /\ Task(s, NextLine(t))
  /\ UNCHANGED <<bookings, alerts, offline, raced, crashes>>

(* The first SQL error ends the task, and what it had not sent is lost.    *)
Fail(s) ==
  /\ checks[s].phase \in {"look", "record", "gauge"}
  /\ Task(s, [NotSpawned EXCEPT !.phase = "over"])
  /\ UNCHANGED <<bookings, flagged, alerts, offline, told, raced, crashes>>

AlertTask(s) == Pick(s) \/ Gauge(s) \/ Look(s) \/ RecordAlert(s) \/ Conclude(s) \/ Fail(s)

-----------------------------------------------------------------------------
(* What goes on around the tasks.                                          *)

Arrived(p) == DayOf[p] <= today

(* A statement is committed: its payments are booked or contested, those   *)
(* known from a mail merge, and one task looks at them all.                *)
CommitLines(s) ==
  /\ checks[s].phase = "none"
  /\ \A p \in ToSet(LinesOf[s]) : Arrived(p)
  /\ \E contested \in SUBSET {p \in ToSet(LinesOf[s]) : standing[p] = "absent"} :
       standing' = [p \in Debits |->
                      IF p \notin ToSet(LinesOf[s]) \/ standing[p] # "absent" THEN standing[p]
                      ELSE IF p \in contested THEN "contested" ELSE "booked"]
  /\ raced' = (raced \/ Underway # {})
  /\ Task(s, [NotSpawned EXCEPT !.phase = "pick", !.todo = LinesOf[s]])
  /\ UNCHANGED <<today, flagged, alerts, offline, told, crashes>>

(* A mail books a payment and no task looks at it.                         *)
BookFromMail(p) ==
  /\ standing[p] = "absent" /\ Arrived(p)
  /\ \E as \in {"booked", "contested"} : standing' = [standing EXCEPT ![p] = as]
  /\ UNCHANGED <<today, flagged, alerts, offline, told, checks, raced, crashes>>

Settle(p) ==
  /\ \/ standing[p] = "contested" /\ standing' = [standing EXCEPT ![p] = "booked"]
     \/ standing[p] = "booked" /\ standing' = [standing EXCEPT ![p] = "deleted"]
  /\ UNCHANGED <<today, flagged, alerts, offline, told, checks, raced, crashes>>

(* The hourly look for open clusters that are older than two hours.        *)
WarnOffline ==
  /\ LET silent == {p \in Debits \ offline : standing[p] = "contested" /\ DayOf[p] < today}
     IN  silent # {} /\ offline' = offline \cup silent
  /\ UNCHANGED <<bookings, flagged, alerts, told, checks, raced, crashes>>

NextDay ==
  /\ today < LastDay /\ today' = today + 1
  /\ UNCHANGED <<standing, flagged, alerts, offline, told, checks, raced, crashes>>

QuitAlerts ==
  /\ crashes < MaxCrashes /\ Underway # {}
  /\ crashes' = crashes + 1
  /\ checks' = [s \in Statements |->
                  IF s \in Underway THEN [NotSpawned EXCEPT !.phase = "over"] ELSE checks[s]]
  /\ UNCHANGED <<bookings, flagged, alerts, offline, told, raced>>

AlertsNext ==
  \/ \E s \in Statements : CommitLines(s) \/ AlertTask(s)
  \/ \E p \in Debits : BookFromMail(p) \/ Settle(p)
  \/ WarnOffline \/ NextDay \/ QuitAlerts

AlertsSpec == AlertsInit /\ [][AlertsNext]_alertVars

-----------------------------------------------------------------------------
AlertsTypeOK ==
  /\ today \in 0..LastDay /\ crashes \in 0..MaxCrashes /\ raced \in BOOLEAN
  /\ standing \in [Debits -> {"absent", "booked", "contested", "deleted"}]
  /\ flagged \subseteq Debits /\ offline \subseteq Debits
  /\ alerts \subseteq [scope : Scopes, level : LevelSet, on : 0..LastDay]
  /\ told \in [Scopes \X LevelSet \X Months -> Nat]
  /\ \A s \in Statements :
       /\ checks[s].phase \in {"none", "pick", "gauge", "look", "record", "over"}
       /\ checks[s].unsent \subseteq Scopes \X LevelSet \X Months

(* However many statements bring payments beyond a level, in whatever      *)
(* order their months come, the level is announced at most once for a      *)
(* month, unless the tasks of two statements ran at the same time          *)
(* (threshold_already_fired_this_month, "the idempotency guard").          *)
AnnouncedOnce == ~raced => \A k \in DOMAIN told : told[k] <= 1
=============================================================================
