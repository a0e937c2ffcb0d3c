---------------------------- MODULE MCMailIntake ----------------------------
(***************************************************************************)
(* Instances of MailIntake for TLC: two messages, of which one is an alert *)
(* or none is.                                                             *)
(***************************************************************************)
EXTENDS MailIntake, FiniteSets

CONSTANTS
  Scenarios,   \* those among which an execution is chosen
  MaxLogged    \* bound: messages left to the log

VARIABLE scenario

Mixed  == [m \in Messages |-> IF m = 1 THEN "other" ELSE "alert"]
Others == [m \in Messages |-> "other"]

(* Who is active: the loop and "Sync now", two requests for a scan, one    *)
(* poll and one scan, or everyone there is.                                *)
Scenario == [polls    |-> [pollers |-> {"loop", "forced"}, scanners |-> {}],
             requests |-> [pollers |-> {}, scanners |-> {"s1", "s2"}],
             both     |-> [pollers |-> {"loop"}, scanners |-> {"s1"}],
             everyone |-> [pollers |-> Pollers, scanners |-> Scanners]]

Pairs    == {"polls", "requests", "both"}
Everyone == {"everyone"}
TwoPolls == {"polls"}

MCInit == Init /\ scenario \in Scenarios
MCNext ==
  /\ Next /\ UNCHANGED scenario
  /\ Cardinality(logged') <= MaxLogged
  /\ \A p \in Pollers \ Scenario[scenario].pollers : poll'[p] = poll[p]
  /\ Scenario[scenario].scanners # {} => horizon' = horizon  \* which only polls read
  /\ \A s \in Scanners \ Scenario[scenario].scanners : scan'[s] = scan[s]

MCSpec == MCInit /\ [][MCNext]_<<vars, scenario>>

MCFairSpec == MCSpec /\ PollFairness /\ ScanFairness /\ WF_vars(Worker)
=============================================================================
