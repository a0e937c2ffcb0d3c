---------------------------- MODULE MCMailAccount ----------------------------
(***************************************************************************)
(* An instance for TLC of what must go on for mail to keep coming in: an   *)
(* execution is about a scan (MCMailIntake) or about the access to a       *)
(* mailbox (MailAccount), and leaves the other as it starts.               *)
(***************************************************************************)
EXTENDS MCMailIntake, MailAccount

VARIABLE part

IntakePart  == part = "intake" /\ UNCHANGED accountVars /\ MCNext
AccountPart == part = "account" /\ UNCHANGED <<vars, scenario>> /\ AccountNext

AllInit ==
  /\ MCInit /\ AccountInit /\ part \in {"intake", "account"}
  /\ licensed  \* which matters from the second account on
AllNext == (IntakePart \/ AccountPart) /\ UNCHANGED part

(* Nothing that is fair can happen in the part that is left as it starts.  *)
AllSpec ==
  /\ AllInit /\ [][AllNext]_<<vars, scenario, accountVars, part>>
  /\ PollFairness /\ ScanFairness /\ WF_vars(Worker) /\ WatchFairness
=============================================================================
