------------------------- MODULE MCStatementStaging -------------------------
(* Instances of StatementStaging: a locked statement whose name gives its   *)
(* period away, an open one of the same period, and one whose header does   *)
(* not say whose it is.                                                     *)
EXTENDS StatementStaging, TLC

CONSTANTS locked, open, vague, c1, k1, noCycle, noKey

MCCycle == (locked :> c1) @@ (open :> c1) @@ (vague :> noCycle)
MCKey == (locked :> k1) @@ (open :> noKey) @@ (vague :> noKey)
MCSelections == {{locked, open}, {vague}}

VARIABLE scene  \* what the instance lets happen: files, documents, commands at a time, mishaps

Scenes == {
  [files |-> {locked, open}, ids |-> 2, commands |-> 1, mishaps |-> 1, known |-> {k1}],
  [files |-> {locked}, ids |-> 2, commands |-> 2, mishaps |-> 0, known |-> {}],
  [files |-> {locked}, ids |-> 1, commands |-> 2, mishaps |-> 1, known |-> {}],
  [files |-> {vague}, ids |-> 2, commands |-> 2, mishaps |-> 1, known |-> {}]}

mcVars == <<vars, scene>>

MCInit == Init /\ scene \in Scenes /\ passwords = scene.known

MCNext ==
  /\ Next
  /\ {t.file : t \in tasks'} \subseteq scene.files
  /\ Len(source') + Reserved' <= scene.ids
  /\ Cardinality({t \in tasks' : t.kind # "job"}) <= scene.commands
  /\ mishaps' <= scene.mishaps
  /\ UNCHANGED scene

MCSpec == MCInit /\ [][MCNext]_mcVars /\ Fairness
=============================================================================
