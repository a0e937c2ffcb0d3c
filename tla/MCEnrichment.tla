---------------------------- MODULE MCEnrichment ----------------------------
(***************************************************************************)
(* An instance of Enrichment for TLC: two entries, parked from one message *)
(* before and after a cancelled scan.  In a calm execution there is one    *)
(* entry, which the user may dismiss but not book by hand, and the model   *)
(* never finds that a message is no transaction.                           *)
(***************************************************************************)
EXTENDS Enrichment

VARIABLE calm  \* the one entry of a calm execution, an option

OneMessage == [e \in Entries |-> "m1"]

MCInit == Init /\ calm \in {{}, {"e1"}}
MCNext ==
  /\ Next /\ UNCHANGED calm
  /\ calm # {} => /\ \A e \in Entries : step'[e] # "ignore" /\ (e \notin calm => entry'[e] = "none")
                  /\ saves' = 0

(* The application is launched again and again, some session lasts long    *)
(* enough for each step of the job, and the model answers at last.         *)
CalmFairness ==
  /\ WF_vars(calm # {} /\ Restart)
  /\ SF_vars(\E e \in calm, outcome \in Outcomes \ {"failed"} : Run(e, outcome))
  /\ SF_vars(\E e \in calm : Check(e)) /\ SF_vars(\E e \in calm, ready \in BOOLEAN : Write(e, ready))
  /\ SF_vars(\E e \in calm, verdict \in Verdicts : Book(e, verdict))
  /\ SF_vars(\E e \in calm : Settle(e)) /\ SF_vars(\E e \in calm : Refine(e))
  /\ SF_vars(\E e \in calm : Reject(e)) /\ SF_vars(\E e \in calm : Ignore(e))
  /\ SF_vars(\E e \in calm : Forget(e, TRUE))

MCSpec == MCInit /\ [][MCNext]_<<vars, calm>> /\ CalmFairness

(* In a calm execution every durable job is processed to its end: none is  *)
(* replayed at every launch for ever (settle_if_open, update_status).      *)
CalmConverges == calm # {} => ("e1" \in durable ~> "e1" \notin durable)
=============================================================================
