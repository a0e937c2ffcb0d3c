------------------------------ MODULE MCHousehold ------------------------------
(***************************************************************************)
(* An instance for TLC of what stands beside the ledger: an execution is   *)
(* about the rules that are learned (MCRuleLearning), the model files, the *)
(* server and its calls (ModelSidecar), a clean-up of merchants            *)
(* (MerchantCleanup), the keys of the database (KeyCustody), the alerts on *)
(* budgets (SpendAlerts), the mandates (Commitments), the gates a message  *)
(* passes (MCSenderGates) or the licence (MCLicensing), and leaves the     *)
(* rest as it starts.                                                      *)
(***************************************************************************)
EXTENDS MCRuleLearning, ModelSidecar, MerchantCleanup, KeyCustody, SpendAlerts, Commitments,
        MCSenderGates, MCLicensing

CONSTANTS Parts,    \* those among which an execution is chosen
          MaxSlots  \* bound: slots a user asks a server for

VARIABLE part

MCTier == [m \in {"gemma", "qwen"} |-> IF m = "gemma" THEN 1 ELSE 2]
MCSafeSlots == [m \in {"gemma", "qwen"} |-> IF m = "gemma" THEN 2 ELSE 1]

(* The first payment's name is nearly that of one merchant there is and    *)
(* more nearly that of one there may be; the second's names nobody, and    *)
(* may be corrected to a poor name again.                                  *)
Alone(w)    == << <<w>> >>
MCWritten   ==
  [t \in {"SWGY", "Using your", "AMZ", "RAZ*SWIGGY 4471", "Swiggy", "Amazn", "mum"} |->
     CASE t = "Using your" -> << <<"USING", "YOUR">> >> [] t = "Swiggy" -> Alone("SWIGGY")
       [] t = "RAZ*SWIGGY 4471" -> << <<"RAZ">>, <<"SWIGGY", "4471">> >> [] OTHER -> Alone(t)]
MCSize      ==
  [w \in {"SWGY", "SWIG", "SWIGGY", "USING", "YOUR", "AMZ", "Amazn", "mum"} |->
     CASE w \in {"AMZ", "mum"} -> 3 [] w \in {"SWGY", "SWIG", "YOUR"} -> 4
       [] w \in {"USING", "Amazn"} -> 5 [] OTHER -> 6]
MCLikeness  == << <<"SWGY">>, <<"SWIG">> >> :> 93 @@ << <<"SWGY">>, <<"SWIGGY">> >> :> 95
MCSeeded    == {<<"SWIG">>, <<"USING", "YOUR">>}
MCReadAs    == [p \in {1, 2} |-> IF p = 1 THEN "SWGY" ELSE "Using your"]
MCLaterNames == [p \in {1, 2} |-> IF p = 1 THEN {"Swiggy"} ELSE {}]
MCMethod    == [p \in {1, 2} |-> IF p = 1 THEN "nlp" ELSE "generic_regex"]
MCBodyOf    == [p \in {1, 2} |-> {"tpl"}]
MCSpans     == [p \in {1, 2} |-> IF p = 1 THEN {"RAZ*SWIGGY 4471"} ELSE {"AMZ"}]
Naming(name, span, category) == [name |-> name, span |-> span, category |-> category]
MCProposals ==
  [p \in {1, 2} |-> IF p = 1 THEN {Naming("Swiggy", "RAZ*SWIGGY 4471", "food"), Naming("mum", "mum", "food")}
                    ELSE {Naming("Amazn", "AMZ", "shopping"), Naming("Swiggy", "AMZ", "snacks")}]

(* Two payments of one month, on two statements, and one of the next.      *)
MCDebits     == {"d0", "d1", "d2"}
MCDayOf      == [d \in MCDebits |-> CASE d = "d0" -> 0 [] d = "d1" -> 1 [] d = "d2" -> 2]
MCCategoryOf == [d \in MCDebits |-> IF d = "d1" THEN "none" ELSE "food"]
MCMerchantOf == [d \in MCDebits |-> "shop"]
MCAmountOf   == [d \in MCDebits |-> CASE d = "d0" -> 9 [] d = "d1" -> 3 [] d = "d2" -> 32]
MCLimit      == [s \in {"food", "all"} |-> IF s = "food" THEN 40 ELSE 10]
MCLevels     == <<80, 100>>
MCLinesOf    == [s \in {"s1", "s2"} |-> IF s = "s1" THEN <<"d0">> ELSE <<"d1", "d2">>]

(* A registration and a cancellation by the card, a registration that      *)
(* names but its bank, and a cancellation of it by the reference alone.    *)
MandateMail(kind, card, bank, ref) ==
  [kind |-> kind, card |-> card, bank |-> bank, merchant |-> "gym", ref |-> ref]
MCMails == {MandateMail("registration", "card", "bank", "r1"), MandateMail("registration", "none", "bank", "r2"),
            MandateMail("cancellation", "card", "bank", "none"), MandateMail("cancellation", "none", "none", "r2")}
MCIssuerOf == [c \in {"card"} |-> "bank"]

EveryPart == {"rules", "files", "server", "cleanup", "keys", "alerts", "mandates", "gates", "licence"}

(* Both models are there when the server is what is looked at, and one     *)
(* machine is where the rest begins.                                       *)
MCInit ==
  /\ LearningInit /\ SidecarInit /\ CleanupInit /\ CustodyInit /\ AlertsInit /\ CommitmentsInit
  /\ GatesInit /\ LicenceInit
  /\ part \in Parts
  /\ part # "rules" => scene.mail = {"t1", "t2"}
  /\ part # "keys" => machine = "mac1"
  /\ files = [m \in Models |-> IF part = "server" THEN Downloaded ELSE NoFile]

modelVars == <<sidecarVars, cleanupVars>>
moneyVars == <<alertVars, commitmentVars, gateVars>>
allVars   == <<vars, modelVars, custodyVars, moneyVars, licenceVars, scene, part>>

RulesPart   == part = "rules" /\ UNCHANGED <<modelVars, custodyVars, moneyVars>> /\ LearningNext
FilesPart   == /\ part = "files" /\ UNCHANGED <<vars, cleanupVars, custodyVars, moneyVars>>
               /\ SidecarNext /\ started' = 0 /\ UNCHANGED wantedSlots
ServerPart  == /\ part = "server"
               /\ UNCHANGED <<transfers, vars, cleanupVars, custodyVars, moneyVars>>
               /\ SidecarNext /\ wantedSlots' \in 1 .. MaxSlots
CleanupPart == /\ part = "cleanup" /\ UNCHANGED <<vars, sidecarVars, custodyVars, moneyVars>>
               /\ CleanupNext
KeysPart    == part = "keys" /\ UNCHANGED <<vars, modelVars, moneyVars>> /\ CustodyNext
(* Nothing is promised of a level once the tasks of two statements have    *)
(* run side by side: what follows is not looked at.                        *)
AlertsPart  == /\ part = "alerts" /\ ~raced
               /\ UNCHANGED <<vars, modelVars, custodyVars, commitmentVars, gateVars>>
               /\ AlertsNext
MandatePart == /\ part = "mandates" /\ UNCHANGED <<vars, modelVars, custodyVars, alertVars, gateVars>>
               /\ CommitmentsNext
GatesPart   == /\ part = "gates"
               /\ UNCHANGED <<vars, modelVars, custodyVars, alertVars, commitmentVars>>
               /\ GatesNext
LicencePart == /\ part = "licence" /\ UNCHANGED <<vars, modelVars, custodyVars, moneyVars>>
               /\ LicenceNext

MCNext ==
  /\ \/ /\ \/ RulesPart \/ FilesPart \/ ServerPart \/ CleanupPart
           \/ KeysPart \/ AlertsPart \/ MandatePart \/ GatesPart
        /\ UNCHANGED licenceVars
     \/ LicencePart
  /\ UNCHANGED <<scene, part>>

(* The worker that looks after the licence polls on in the part about it;  *)
(* in the others there is no licence to poll for.                          *)
MCSpec == MCInit /\ [][MCNext]_allVars /\ LicenceFairness

(* The launches of the part about keys are fair.                           *)
MCFairSpec == MCSpec /\ Perseverance
=============================================================================
