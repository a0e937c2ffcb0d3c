---------------------------- MODULE LicenceLease ----------------------------
(***************************************************************************)
(* What the licence promises, without saying how: the right to write is a  *)
(* lease.  It begins as a trial, may lapse at any time, and is taken up    *)
(* again when the licensing service renews it, on a schedule or asked by   *)
(* the user.  Once withdrawn - given up by the user, or locked - it is     *)
(* renewed by no schedule and by no clock: only a further call of the      *)
(* user's brings it back.  A trial that ended begins anew only on a clock  *)
(* that was set.                                                           *)
(***************************************************************************)
VARIABLES lease,     \* "trial", "licensed", "lapsed" or "withdrawn"
          asking,    \* the user is in a call to the licensing service
          tampered   \* the clock has been set

vars == <<lease, asking, tampered>>

Init == lease = "trial" /\ ~asking /\ ~tampered

Ask  == ~asking /\ asking' = TRUE /\ UNCHANGED <<lease, tampered>>
Told == /\ asking /\ asking' = FALSE
        /\ lease' \in {lease, "licensed", "lapsed", "withdrawn"} /\ UNCHANGED tampered

Stands == lease # "withdrawn"

Lapse == Stands /\ lease' \in {"lapsed", "withdrawn"} /\ UNCHANGED <<asking, tampered>>
Renew == Stands /\ lease' = "licensed" /\ UNCHANGED <<asking, tampered>>

(* On a clock that was set, time can run past an end a second time.        *)
Turn  == /\ tampered' = TRUE /\ UNCHANGED asking
         /\ lease' \in IF Stands THEN {"trial", "licensed", "lapsed"} ELSE {lease}

Next == Ask \/ Told \/ Lapse \/ Renew \/ Turn

Spec == Init /\ [][Next]_vars
=============================================================================
