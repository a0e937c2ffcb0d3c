---------------------------- MODULE HouseholdProofs ----------------------------
(***************************************************************************)
(* Proofs about what stands beside the ledger: the keys of the database    *)
(* (KeyCustody), the mandates (Commitments), the server of the local model *)
(* (ModelSidecar), the alerts on budgets (SpendAlerts), the gates a        *)
(* message passes (SenderGates).  Each is proved about on its own, for     *)
(* every value of its constants.                                           *)
(***************************************************************************)
EXTENDS KeyCustody, Commitments, ModelSidecar, SpendAlerts, SenderGates,
        FiniteSetTheorems, SequenceTheorems, WellFoundedInduction, TLAPS

(* Keys: the next launch can open the file.  StaysOpenable is not          *)
(* inductive alone: what a launch has already found out (Launching) says   *)
(* that the key it derived, the file and the backup it may fall back to    *)
(* belong together.                                                        *)

CustodyTypes ==
  /\ keychain \in Keys \cup {NoKey} /\ machine \in Machines
  /\ file \in Sealed \cup {NoKey} /\ daily \in Sealed \cup {NoKey}
  /\ kept \in Seq(Sealed)

Own(backup) == backup \in Sealed /\ backup.key = keychain /\ backup.on = machine

Launching ==
  /\ stage \in {"opening", "rekeyed", "opened", "migrating"} => keychain # NoKey
  /\ stage \in {"rekeyed", "opened", "migrating"} => Own(file)
  /\ stage = "migrating" => kept # <<>> /\ Own(kept[Len(kept)])

CustodyInv == CustodyTypes /\ Launching /\ StaysOpenable

LEMMA InitCustodyInv == CustodyInit => CustodyInv
  BY CustodyAssumption DEF CustodyInit, CustodyInv, CustodyTypes, Launching, StaysOpenable

-----------------------------------------------------------------------------
(* A key that is generated is a key, and none is generated over another. *)
LEMMA BaseKeyIsKept ==
  ASSUME CustodyTypes, BaseKey
  PROVE  /\ keychain' \in Keys
         /\ keychain # NoKey => keychain' = keychain
  BY DEF CustodyTypes, BaseKey

(* Pruning keeps the backup made last. *)
LEMMA LatestKeepsLast ==
  ASSUME NEW s \in Seq(Sealed), NEW f \in Sealed
  PROVE  LET backups == Latest(Append(s, f)) IN
         backups \in Seq(Sealed) /\ backups # <<>> /\ backups[Len(backups)] = f
<1> DEFINE all == Append(s, f)
<1>1. all \in Seq(Sealed) /\ Len(all) = Len(s) + 1 /\ all[Len(all)] = f
  OBVIOUS
<1>2. CASE Len(all) > Retained
  <2>1. Latest(all) = Tail(all) /\ Len(all) >= 2
    BY <1>1, <1>2, CustodyAssumption DEF Latest
  <2>2. Tail(all) \in Seq(Sealed) /\ Len(Tail(all)) = Len(all) - 1
    BY <1>1, <2>1
  <2>3. Tail(all)[Len(all) - 1] = all[Len(all)]
    BY <1>1, <2>1, <2>2
  <2> QED BY <1>1, <2>1, <2>2, <2>3
<1>3. CASE ~ (Len(all) > Retained)
  BY <1>1, <1>3 DEF Latest
<1> QED BY <1>2, <1>3

-----------------------------------------------------------------------------
(* A backup that is put back, whole or torn, opens with the key at hand,   *)
(* or is of an older machine, or leaves nothing.                           *)
LEMMA Restored ==
  ASSUME CustodyInv, NEW backup \in Sealed, RestoreBackupFile(backup),
         stage \in {"opened", "migrating"}, UNCHANGED <<keychain, machine, marker, daily, kept>>
  PROVE  CustodyInv'
<1>1. ASSUME file' # NoKey
      PROVE  file' \in Sealed /\ file'.key = backup.key /\ file'.on = backup.on
  BY <1>1 DEF RestoreBackupFile, TornCopies, Sealed
<1>2. file' # NoKey => parted' # "no" \/ (file'.key = keychain /\ file'.on = machine)
  BY <1>1 DEF RestoreBackupFile, Opens
<1>3. stage' \in {"opening", "off"} /\ keychain # NoKey
  BY DEF RestoreBackupFile, CustodyInv, Launching
<1> QED BY <1>1, <1>2, <1>3 DEF CustodyInv, CustodyTypes, Launching, StaysOpenable

LEMMA LaunchPreserves ==
  ASSUME CustodyInv, LaunchStep
  PROVE  CustodyInv'
<1>1. CASE StartUp
  <2>1. keychain' \in Keys /\ (keychain # NoKey => keychain' = keychain)
    BY <1>1, BaseKeyIsKept DEF CustodyInv, StartUp
  <2>2. file # NoKey /\ parted = "no" => keychain # NoKey
    BY CustodyAssumption DEF CustodyInv, CustodyTypes, StaysOpenable, Sealed
  <2> QED BY <1>1, <2>1, <2>2, CustodyAssumption
          DEF StartUp, CustodyInv, CustodyTypes, Launching, StaysOpenable, copies
<1>2. CASE OpenFile
  <2>1. /\ stage = "opening" /\ keychain \in Keys /\ machine \in Machines
        /\ UNCHANGED <<keychain, machine, marker, daily, kept, parted>>
    BY <1>2 DEF OpenFile, CustodyInv, CustodyTypes, Launching, secrets, copies
  <2>2. CASE file = NoKey
    <3>1. file' = [key |-> keychain, on |-> machine, sound |-> TRUE] /\ stage' = "opened"
      BY <1>2, <2>2 DEF OpenFile, Opens, Moved
    <3>2. file' \in Sealed /\ file'.key = keychain /\ file'.on = machine
      BY <2>1, <3>1 DEF Sealed
    <3> QED BY <2>1, <3>1, <3>2 DEF CustodyInv, CustodyTypes, Launching, Own, StaysOpenable
  <2>3. CASE Opens(file, keychain)
    <3>1. stage' = "opened" /\ file' = file
      BY <1>2, <2>3 DEF OpenFile, Opens, Moved
    <3> QED BY <2>1, <2>3, <3>1 DEF Opens, CustodyInv, CustodyTypes, Launching, Own, StaysOpenable
  <2>4. CASE Moved /\ ~Opens(file, keychain)
    <3>1. file' = [file EXCEPT !.on = machine] /\ stage' = "rekeyed"
      BY <1>2, <2>4 DEF OpenFile, Opens, Moved
    <3>2. file \in Sealed /\ file.key = keychain
      BY <2>4 DEF Moved, CustodyInv, CustodyTypes
    <3>3. file' \in Sealed /\ file'.key = keychain /\ file'.on = machine
      BY <2>1, <3>1, <3>2 DEF Sealed
    <3> QED BY <2>1, <3>1, <3>3 DEF CustodyInv, CustodyTypes, Launching, Own, StaysOpenable
  <2>5. CASE file # NoKey /\ ~Opens(file, keychain) /\ ~Moved
    <3>1. stage' = "off" /\ file' = file
      BY <1>2, <2>5 DEF OpenFile
    <3> QED BY <2>1, <3>1 DEF CustodyInv, CustodyTypes, Launching, StaysOpenable
  <2> QED BY <2>2, <2>3, <2>4, <2>5
<1>3. CASE BackUpFirst
  <2>1. file \in Sealed
    BY <1>3 DEF BackUpFirst, CustodyInv, Launching, Own
  <2>2. kept' \in Seq(Sealed) /\ kept' # <<>> /\ kept'[Len(kept')] = file
    BY <1>3, <2>1, LatestKeepsLast DEF BackUpFirst, CreatePreMigrationBackup, CustodyInv, CustodyTypes
  <2> QED BY <1>3, <2>2 DEF BackUpFirst, CustodyInv, CustodyTypes, Launching, Own, StaysOpenable, secrets
<1>4. CASE ReplaceCorrupted
  <2>1. /\ stage = "opened" /\ stage' \in {"opening", "off"}
        /\ UNCHANGED <<keychain, machine, marker, daily, kept>>
    BY <1>4 DEF ReplaceCorrupted, RestoreBackupFile, secrets, copies
  <2>2. CASE UNCHANGED <<file, parted>>
    BY <2>1, <2>2 DEF CustodyInv, CustodyTypes, Launching, Own, StaysOpenable
  <2>3. CASE daily # NoKey /\ RestoreBackupFile(daily)
    <3>1. daily \in Sealed
      BY <2>3 DEF CustodyInv, CustodyTypes
    <3> QED BY <2>1, <2>3, <3>1, Restored
  <2> QED BY <1>4, <2>2, <2>3 DEF ReplaceCorrupted
<1>5. ASSUME NEW ok \in BOOLEAN, MarkMachine(ok) PROVE CustodyInv'
  BY <1>5 DEF MarkMachine, CustodyInv, CustodyTypes, Launching, Own, StaysOpenable, secrets, copies
<1>6. ASSUME NEW ok \in BOOLEAN, Migrate(ok) PROVE CustodyInv'
  <2>1. stage = "migrating" /\ UNCHANGED <<keychain, machine, daily, kept>>
    BY <1>6 DEF Migrate, secrets, copies
  <2>2. CASE UNCHANGED <<file, parted>>
    BY <1>6, <2>1, <2>2 DEF Migrate, RestoreBackupFile, CustodyInv, CustodyTypes, Launching, Own, StaysOpenable
  <2>3. CASE RestoreBackupFile(kept[Len(kept)]) /\ UNCHANGED marker
    <3>1. kept[Len(kept)] \in Sealed
      BY <2>1 DEF CustodyInv, Launching, Own
    <3> QED BY <2>1, <2>3, <3>1, Restored
  <2> QED BY <1>6, <2>2, <2>3 DEF Migrate
<1> QED BY <1>1, <1>2, <1>3, <1>4, <1>5, <1>6 DEF LaunchStep

LEMMA OwnerPreserves ==
  ASSUME CustodyInv, OwnerStep
  PROVE  CustodyInv'
<1>1. CASE WriteDownPhrase \/ BackUpDaily
  <2>1. stage = "running" /\ BaseKey
    BY <1>1 DEF WriteDownPhrase, BackUpDaily
  <2>2. keychain' \in Keys /\ (keychain # NoKey => keychain' = keychain)
    BY <2>1, BaseKeyIsKept DEF CustodyInv
  <2>3. file # NoKey /\ parted = "no" => keychain # NoKey
    BY CustodyAssumption DEF CustodyInv, CustodyTypes, StaysOpenable, Sealed
  <2> QED BY <1>1, <2>1, <2>2, <2>3
          DEF WriteDownPhrase, BackUpDaily, CustodyInv, CustodyTypes, Launching, StaysOpenable, copies
<1>2. CASE RestoreDaily
  <2>1. stage = "running" /\ BaseKey
    BY <1>2 DEF RestoreDaily
  <2>2. keychain' \in Keys /\ (keychain # NoKey => keychain' = keychain)
    BY <2>1, BaseKeyIsKept DEF CustodyInv
  <2>3. file # NoKey /\ parted = "no" => keychain # NoKey
    BY CustodyAssumption DEF CustodyInv, CustodyTypes, StaysOpenable, Sealed
  <2> QED BY <1>2, <2>1, <2>2, <2>3
          DEF RestoreDaily, VerifyBackupIntegrity, Opens, CustodyInv, CustodyTypes, Launching, StaysOpenable, copies
<1>3. CASE DeleteKey
  BY <1>3 DEF DeleteKey, CustodyInv, CustodyTypes, Launching, StaysOpenable, copies
<1>4. CASE DeleteFiles
  BY <1>4 DEF DeleteFiles, CustodyInv, CustodyTypes, Launching, StaysOpenable, secrets
<1>5. ASSUME NEW k \in Keys, EnterPhrase(k) PROVE CustodyInv'
  BY <1>5 DEF EnterPhrase, Opens, CustodyInv, CustodyTypes, Launching, StaysOpenable, copies
<1> QED BY <1>1, <1>2, <1>3, <1>4, <1>5 DEF OwnerStep

LEMMA FatePreserves ==
  ASSUME CustodyInv, Fate
  PROVE  CustodyInv'
<1>1. CASE StopRunning
  BY <1>1 DEF StopRunning, CustodyInv, CustodyTypes, Launching, StaysOpenable, secrets, copies
<1>2. CASE ClearKeychain
  BY <1>2 DEF ClearKeychain, CustodyInv, CustodyTypes, Launching, StaysOpenable, copies
<1>3. CASE Corrupt
  BY <1>3 DEF Corrupt, CustodyInv, CustodyTypes, Launching, Own, StaysOpenable, Sealed, secrets, copies
<1>4. ASSUME NEW m \in Machines, MoveTo(m) PROVE CustodyInv'
  BY <1>4 DEF MoveTo, CustodyInv, CustodyTypes, Launching, StaysOpenable, secrets, copies
<1> QED BY <1>1, <1>2, <1>3, <1>4 DEF Fate

LEMMA StutterPreserves ==
  ASSUME CustodyInv, UNCHANGED custodyVars
  PROVE  CustodyInv'
  BY DEF custodyVars, secrets, copies, CustodyInv, CustodyTypes, Launching, Own, StaysOpenable

(* StaysOpenable, for every instance: no launch, move, phrase, backup or   *)
(* crash between their steps leaves a file that the next launch cannot     *)
(* open (try_migrate_hardware_uuid, restore_base_key_from_phrase,          *)
(* db_restore_backup).                                                     *)
THEOREM NextLaunchOpens == CustodySpec => []StaysOpenable
<1>1. CustodyInv /\ [CustodyNext]_custodyVars => CustodyInv'
  BY LaunchPreserves, OwnerPreserves, FatePreserves, StutterPreserves DEF CustodyNext
<1>2. CustodyInv => StaysOpenable
  BY DEF CustodyInv
<1> QED BY InitCustodyInv, <1>1, <1>2, PTL DEF CustodySpec

-----------------------------------------------------------------------------
(* Mandates: a cancelled arrangement is not brought back by what happens   *)
(* on its own.                                                             *)

Arrangement == [card : Cards, merchant : Merchants, source : {"explicit", "inferred"},
        ref : References \cup {Unread}, active : BOOLEAN]

LEMMA InitArrangements == CommitmentsInit => CommitmentsTypeOK
  BY CommitmentsAssumption DEF CommitmentsInit, CommitmentsTypeOK, instruments, mandates

(* Resolving a card leaves every card in one of its states.                *)
LEMMA ResolveTypes ==
  ASSUME CommitmentsTypeOK, NEW c \in Cards \cup {Unread}, Resolve(c)
  PROVE  cards' \in [Cards -> {"unknown", "live", "archived"}]
  BY DEF Resolve, Usable, CommitmentsTypeOK

(* A mail means a card, or none.                                           *)
LEMMA CardOfTypes ==
  ASSUME NEW m \in Mails
  PROVE  CardOf(m) \in Cards \cup {Unread}
<1>1. m.card \in Cards \cup {Unread}
  BY CommitmentsAssumption
<1> QED BY <1>1 DEF CardOf, Usable

(* Rewriting rows in place keeps them rows.                                *)
LEMMA RewrittenRows ==
  ASSUME NEW old \in Seq(Arrangement), NEW new, new = [n \in DOMAIN old |-> new[n]],
         \A n \in DOMAIN old : new[n] \in Arrangement
  PROVE  new \in Seq(Arrangement)
<1>1. DOMAIN old = 1 .. Len(old) /\ Len(old) \in Nat /\ DOMAIN new = DOMAIN old
  OBVIOUS
<1> QED BY <1>1

LEMMA RowOf ==
  ASSUME CommitmentsTypeOK, NEW n \in DOMAIN rows
  PROVE  rows[n] \in Arrangement
<1>1. rows \in Seq(Arrangement)
  BY DEF CommitmentsTypeOK, Arrangement
<1> QED BY <1>1

(* The registered row, and an inferred one, are rows.                      *)
LEMMA RegisterTypes ==
  ASSUME CommitmentsTypeOK, NEW m \in Mails, RegisterMandate(m)
  PROVE  CommitmentsTypeOK'
<1> USE DEF RegisterMandate
<1> DEFINE row == [card |-> CardOf(m), merchant |-> m.merchant, source |-> "explicit",
                   ref |-> m.ref, active |-> TRUE]
           declared == {n \in RowsOf(CardOf(m), m.merchant) : rows[n].source = "explicit"}
<1>1. cards' \in [Cards -> {"unknown", "live", "archived"}]
  BY CardOfTypes, ResolveTypes
<1>2. rows' \in Seq(Arrangement)
  <2>1. CASE CardOf(m) = Unread
    BY <2>1 DEF CommitmentsTypeOK, Arrangement
  <2>2. CASE CardOf(m) # Unread
    <3>1. row \in Arrangement
      BY <2>2, CardOfTypes, CommitmentsAssumption DEF Arrangement
    <3>2. rows \in Seq(Arrangement)
      BY DEF CommitmentsTypeOK, Arrangement
    <3> HIDE DEF row
    <3>3. CASE declared = {}
      BY <2>2, <3>1, <3>2, <3>3 DEF row
    <3>4. CASE declared # {}
      <4>1. rows' = [n \in DOMAIN rows |-> IF n \in declared THEN row ELSE rows[n]]
        BY <2>2, <3>4 DEF row
      <4>2. \A n \in DOMAIN rows : rows'[n] \in Arrangement
        BY <3>1, <4>1, RowOf
      <4>3. rows' = [n \in DOMAIN rows |-> rows'[n]]
        BY <4>1
      <4> QED BY <3>2, <4>2, <4>3, RewrittenRows
    <3> QED BY <3>3, <3>4
  <2> QED BY <2>1, <2>2
<1> QED BY <1>1, <1>2 DEF CommitmentsTypeOK, Arrangement

LEMMA CancelTypes ==
  ASSUME CommitmentsTypeOK, NEW m \in Mails, CancelMandate(m)
  PROVE  CommitmentsTypeOK'
<1> USE DEF CancelMandate
<1>1. cards' \in [Cards -> {"unknown", "live", "archived"}]
  BY CardOfTypes, ResolveTypes
<1>2. rows' \in Seq(Arrangement)
  <2>1. rows \in Seq(Arrangement)
    BY DEF CommitmentsTypeOK, Arrangement
  <2>2. ASSUME NEW n \in DOMAIN rows
        PROVE  rows[n] \in Arrangement /\ [rows[n] EXCEPT !.active = FALSE] \in Arrangement
    BY RowOf DEF Arrangement
  <2>3. CASE rows' = [n \in DOMAIN rows |-> IF n \in Candidates(m)
                                THEN [rows[n] EXCEPT !.active = FALSE] ELSE rows[n]]
    <3>1. \A n \in DOMAIN rows : rows'[n] \in Arrangement
      BY <2>2, <2>3
    <3>2. rows' = [n \in DOMAIN rows |-> rows'[n]]
      BY <2>3
    <3> QED BY <2>1, <3>1, <3>2, RewrittenRows
  <2>4. CASE UNCHANGED rows
    BY <2>1, <2>4
  <2> QED BY <2>3, <2>4
<1>3. unresolved' \subseteq Mails
  BY DEF CommitmentsTypeOK, InsertUnresolved
<1> QED BY <1>1, <1>2, <1>3 DEF CommitmentsTypeOK, Arrangement

LEMMA PayTypes ==
  ASSUME CommitmentsTypeOK, NEW c \in Cards, NEW m \in Merchants, Pay(c, m)
  PROVE  CommitmentsTypeOK'
<1> USE DEF Pay
<1>1. cards' \in [Cards -> {"unknown", "live", "archived"}]
  BY ResolveTypes
<1>2. rows' \in Seq(Arrangement)
  <2>1. Inferred(c, m) \in Arrangement /\ rows \in Seq(Arrangement)
    BY DEF Inferred, Arrangement, CommitmentsTypeOK
  <2> QED BY <2>1 DEF Detect
<1>3. paid' \in [Cards \X Merchants -> 0..MaxPaid]
  <2>1. paid[<<c, m>>] + 1 \in 0..MaxPaid
    BY CommitmentsAssumption DEF CommitmentsTypeOK
  <2> QED BY <2>1 DEF CommitmentsTypeOK
<1> QED BY <1>1, <1>2, <1>3 DEF CommitmentsTypeOK, mandates, Arrangement

LEMMA NextTypes == CommitmentsTypeOK /\ [CommitmentsNext]_commitmentVars => CommitmentsTypeOK'
<1> SUFFICES ASSUME CommitmentsTypeOK, [CommitmentsNext]_commitmentVars PROVE CommitmentsTypeOK'
  OBVIOUS
<1> USE DEF instruments, mandates
<1>1. ASSUME NEW m \in Mails, Arrive(m) PROVE CommitmentsTypeOK'
  BY <1>1 DEF Arrive, CommitmentsTypeOK
<1>2. ASSUME NEW c \in Cards, CreateInstrument(c) \/ ArchiveInstrument(c) \/ ReadInstrument(c)
      PROVE  CommitmentsTypeOK'
  BY <1>2 DEF CreateInstrument, InsertInstrument, ArchiveInstrument, ReadInstrument, CommitmentsTypeOK
<1>3. ASSUME NEW c \in Cards, NEW upcoming \in BOOLEAN, CommitBill(c, upcoming) PROVE CommitmentsTypeOK'
  BY <1>3, ResolveTypes DEF CommitBill, CommitmentsTypeOK
<1>4. CASE WriteInstrument
  BY <1>4 DEF WriteInstrument, UpdateInstrument, CommitmentsTypeOK
<1>5. CASE Outage
  BY <1>5, CommitmentsAssumption DEF Outage, CommitmentsTypeOK
<1>6. CASE UNCHANGED commitmentVars
  BY <1>6 DEF commitmentVars, CommitmentsTypeOK
<1> QED BY <1>1, <1>2, <1>3, <1>4, <1>5, <1>6, RegisterTypes, CancelTypes, PayTypes DEF CommitmentsNext

(* Instruments, mails and arrangements keep their types. *)
THEOREM CommitmentsTypeCorrect == CommitmentsSpec => []CommitmentsTypeOK
  BY InitArrangements, NextTypes, PTL DEF CommitmentsSpec

-----------------------------------------------------------------------------
(* All arrangements of c and m are cancelled, and then one is active.      *)
Cancelled(c, m) == RowsOf(c, m) # {} /\ Active(RowsOf(c, m)) = {}
Revived(c, m) == \E n \in DOMAIN rows' : rows'[n].card = c /\ rows'[n].merchant = m /\ rows'[n].active

(* A registration revives the pair it names and no other.                  *)
LEMMA RegisterRevives ==
  ASSUME CommitmentsTypeOK, NEW mail \in Mails, RegisterMandate(mail),
         NEW c \in Cards, NEW m \in Merchants, Cancelled(c, m), Revived(c, m)
  PROVE  CardOf(mail) = c /\ mail.merchant = m
<1> DEFINE row == [card |-> CardOf(mail), merchant |-> mail.merchant, source |-> "explicit",
                   ref |-> mail.ref, active |-> TRUE]
           declared == {n \in RowsOf(CardOf(mail), mail.merchant) : rows[n].source = "explicit"}
<1>1. PICK n \in DOMAIN rows' : rows'[n].card = c /\ rows'[n].merchant = m /\ rows'[n].active
  BY DEF Revived
<1>2. rows \in Seq(Arrangement)
  BY DEF CommitmentsTypeOK, Arrangement
<1>3. rows'[n] = row \/ (n \in DOMAIN rows /\ rows'[n] = rows[n])
  BY <1>1, <1>2 DEF RegisterMandate
<1>4. ~(n \in DOMAIN rows /\ rows'[n] = rows[n])
  BY <1>1 DEF Cancelled, RowsOf, Active
<1> QED BY <1>1, <1>3, <1>4

(* A cancellation makes nothing active.                                    *)
LEMMA CancelRevivesNone ==
  ASSUME CommitmentsTypeOK, NEW mail \in Mails, CancelMandate(mail),
         NEW c \in Cards, NEW m \in Merchants, Cancelled(c, m)
  PROVE  ~Revived(c, m)
<1> SUFFICES ASSUME Revived(c, m) PROVE FALSE
  OBVIOUS
<1>1. PICK n \in DOMAIN rows' : rows'[n].card = c /\ rows'[n].merchant = m /\ rows'[n].active
  BY DEF Revived
<1>2. n \in DOMAIN rows /\ rows[n] \in Arrangement
  BY <1>1, RowOf DEF CancelMandate
<1>3. rows'[n] = rows[n] \/ rows'[n] = [rows[n] EXCEPT !.active = FALSE]
  BY <1>2 DEF CancelMandate
<1>4. rows'[n] = rows[n]
  BY <1>1, <1>2, <1>3 DEF Arrangement
<1> QED BY <1>1, <1>2, <1>4 DEF Cancelled, RowsOf, Active

(* A payment infers an arrangement only where there is none at all.        *)
LEMMA PayRevivesNone ==
  ASSUME CommitmentsTypeOK, NEW d \in Cards, NEW p \in Merchants, Pay(d, p),
         NEW c \in Cards, NEW m \in Merchants, Cancelled(c, m)
  PROVE  ~Revived(c, m)
<1> SUFFICES ASSUME Revived(c, m) PROVE FALSE
  OBVIOUS
<1>1. PICK n \in DOMAIN rows' : rows'[n].card = c /\ rows'[n].merchant = m /\ rows'[n].active
  BY DEF Revived
<1>2. rows \in Seq(Arrangement) /\ (rows' = rows \/ (rows' = Append(rows, Inferred(d, p)) /\ RowsOf(d, p) = {}))
  BY DEF Pay, Detect, CommitmentsTypeOK, Arrangement
<1>3. CASE n \in DOMAIN rows /\ rows'[n] = rows[n]
  BY <1>1, <1>3 DEF Cancelled, RowsOf, Active
<1>4. CASE rows'[n] = Inferred(d, p) /\ RowsOf(d, p) = {}
  BY <1>1, <1>4 DEF Cancelled, Inferred
<1> QED BY <1>1, <1>2, <1>3, <1>4

(* Once cancelled, an arrangement comes back only by a mail that registers *)
(* it, whatever is paid, in whatever order mails come and however often    *)
(* the application quits (mark_cancelled, detect_and_update_recurring).    *)
THEOREM CancellationsHold == CommitmentsSpec => CancelledStaysCancelled
<1> DEFINE Registered(c, m) ==
             \E mail \in inbox \ inbox' : mail.kind = "registration" /\ CardOf(mail) = c /\ mail.merchant = m
           Step == \A c \in Cards, m \in Merchants : Cancelled(c, m) /\ Revived(c, m) => Registered(c, m)
<1>1. ASSUME CommitmentsTypeOK, CommitmentsNext PROVE Step \/ UNCHANGED rows
  <2>1. ASSUME NEW mail \in Mails, RegisterMandate(mail) PROVE Step
    <3>1. mail \in inbox \ inbox' /\ mail.kind = "registration"
      BY <2>1 DEF RegisterMandate
    <3> QED BY <1>1, <2>1, <3>1, RegisterRevives
  <2>2. ASSUME NEW mail \in Mails, CancelMandate(mail) PROVE Step
    BY <1>1, <2>2, CancelRevivesNone
  <2>3. ASSUME NEW c \in Cards, NEW m \in Merchants, Pay(c, m) PROVE Step
    BY <1>1, <2>3, PayRevivesNone
  <2> HIDE DEF Step
  <2> QED
    BY <1>1, <2>1, <2>2, <2>3
    DEF CommitmentsNext, Arrive, CreateInstrument, ArchiveInstrument, ReadInstrument, CommitBill,
        WriteInstrument, Outage
<1>2. CommitmentsTypeOK /\ [CommitmentsNext]_commitmentVars => [Step]_rows
  BY <1>1 DEF commitmentVars
<1>3. [Step]_rows => [\A c \in Cards, m \in Merchants :
         (/\ RowsOf(c, m) # {} /\ Active(RowsOf(c, m)) = {}
          /\ \E n \in DOMAIN rows' : rows'[n].card = c /\ rows'[n].merchant = m /\ rows'[n].active)
         => \E mail \in inbox \ inbox' :
              mail.kind = "registration" /\ CardOf(mail) = c /\ mail.merchant = m]_rows
  BY DEF Cancelled, Revived
<1> QED BY <1>2, <1>3, CommitmentsTypeCorrect, PTL DEF CommitmentsSpec, CancelledStaysCancelled

-----------------------------------------------------------------------------
(* The server of the model: calls carry the permits of the server they     *)
(* were let through to, which was measured before it was ready.            *)

Owned    == {s.at : s \in starts}
AskedAt(g) == {c \in Calls : calls[c].phase = "asked" /\ calls[c].at = g}
Measure(g) == Cardinality(AskedAt(g)) <= measured[g]

ServerTypes ==
  /\ started \in Nat
  /\ DOMAIN server = {"state", "model", "slots", "at", "permits"}
  /\ \A s \in starts : s.at \in 1 .. started
  /\ alive \cup DOMAIN measured \subseteq 1 .. started
  /\ calls \in [Calls -> [phase : {"quiet", "queued", "asked"}, at : Nat, permit : Nat]]
  /\ \A g \in DOMAIN measured : measured[g] \in Nat

(* A start that is under way is the only one of its number, and nothing    *)
(* was measured of its server yet.                                         *)
StartsApart ==
  /\ \A s, u \in starts : s.at = u.at => s = u
  /\ Owned \cap DOMAIN measured = {}

(* A server that is ready was measured, and its calls queue for permits of *)
(* its own, as does every call that was ever let through to it.            *)
PermitsOwn ==
  /\ server.state = "ready" => server.at \in DOMAIN measured /\ server.permits = server.at
  /\ \A c \in Calls : calls[c].phase # "quiet" =>
       calls[c].at \in DOMAIN measured /\ calls[c].permit = calls[c].at

(* A process that no start owns is the one the server is known by.         *)
OneProcess == alive \ Owned \subseteq {server.at}

SidecarInv ==
  /\ ServerTypes /\ StartsApart /\ PermitsOwn /\ OneProcess
  /\ \A g \in DOMAIN measured : Measure(g)

(* Before any start there is nothing to overload.                          *)
LEMMA SidecarStarts == SidecarInit => SidecarInv
  BY DEF SidecarInit, SidecarInv, ServerTypes, StartsApart, PermitsOwn, OneProcess, Owned, Quiet

(* At most one process is unowned if all are the one the server is known by. *)
LEMMA InvWithinMeasure == SidecarInv => ServerWithinMeasure
<1> SUFFICES ASSUME SidecarInv PROVE ServerWithinMeasure
  OBVIOUS
<1>1. Cardinality(alive \ Owned) <= 1
  <2>1. CASE alive \ Owned = {}
    BY <2>1, FS_EmptySet
  <2>2. CASE alive \ Owned # {}
    <3>1. alive \ Owned = {server.at}
      BY <2>2 DEF SidecarInv, OneProcess
    <3> QED BY <3>1, FS_Singleton
  <2> QED BY <2>1, <2>2
<1> QED BY <1>1 DEF SidecarInv, ServerWithinMeasure, Measure, AskedAt, Owned

(* What only touches files or the slots wanted.                            *)
LEMMA FilesPreserve ==
  ASSUME SidecarInv, UNCHANGED <<server_, calls>>
  PROVE  SidecarInv'
  BY DEF server_, SidecarInv, ServerTypes, StartsApart, PermitsOwn, OneProcess, Owned, Measure, AskedAt

(* A call that is let through is not asked yet.                            *)
LEMMA LetThroughPreserves ==
  ASSUME SidecarInv, NEW c \in Calls, LetThrough(c)
  PROVE  SidecarInv'
<1>1. /\ UNCHANGED server_
      /\ calls' = [calls EXCEPT ![c] = [phase |-> "queued", at |-> server.at, permit |-> server.permits]]
      /\ server.at \in DOMAIN measured /\ server.permits = server.at /\ server.at \in Nat
  BY DEF LetThrough, SidecarInv, PermitsOwn, ServerTypes
<1>2. ASSUME NEW g PROVE AskedAt(g)' \subseteq AskedAt(g)
  BY <1>1 DEF AskedAt, SidecarInv, ServerTypes
<1>3. ASSUME NEW g \in DOMAIN measured PROVE Measure(g)'
  <2>1. IsFiniteSet(AskedAt(g)) /\ IsFiniteSet(AskedAt(g)')
    BY SidecarAssumption, FS_Subset DEF AskedAt
  <2>2. Cardinality(AskedAt(g)') <= Cardinality(AskedAt(g)) /\ Cardinality(AskedAt(g)') \in Nat
        /\ Cardinality(AskedAt(g)) \in Nat
    BY <1>2, <2>1, FS_Subset, FS_CardinalityType
  <2> QED BY <1>1, <2>2 DEF SidecarInv, Measure, ServerTypes, server_
<1> QED BY <1>1, <1>3 DEF server_, SidecarInv, ServerTypes, StartsApart, PermitsOwn, OneProcess, Owned

(* The permits that are held are those of the calls of one server, so that *)
(* the one that is taken stays within what it was measured to sustain.     *)
LEMMA AcquirePreserves ==
  ASSUME SidecarInv, NEW c \in Calls, Acquire(c)
  PROVE  SidecarInv'
<1> DEFINE g0 == calls[c].at
<1>1. /\ UNCHANGED server_ /\ calls' = [calls EXCEPT ![c].phase = "asked"]
      /\ calls[c].phase = "queued" /\ g0 \in DOMAIN measured /\ calls[c].permit = g0
      /\ Cardinality(Holding(g0)) < measured[g0] /\ measured[g0] \in Nat
  BY DEF Acquire, SidecarInv, PermitsOwn, ServerTypes
<1>2. Holding(g0) = AskedAt(g0)
  BY DEF Holding, AskedAt, SidecarInv, PermitsOwn, ServerTypes
<1>3. ASSUME NEW g, g # g0 PROVE AskedAt(g)' = AskedAt(g)
  BY <1>1, <1>3 DEF AskedAt, SidecarInv, ServerTypes
<1>4. AskedAt(g0)' = AskedAt(g0) \cup {c} /\ c \notin AskedAt(g0)
  BY <1>1 DEF AskedAt, SidecarInv, ServerTypes
<1>5. IsFiniteSet(AskedAt(g0))
  BY SidecarAssumption, FS_Subset DEF AskedAt
<1>6. Cardinality(AskedAt(g0)') = Cardinality(AskedAt(g0)) + 1 /\ Cardinality(AskedAt(g0)) \in Nat
  BY <1>4, <1>5, FS_AddElement, FS_CardinalityType
<1>7. ASSUME NEW g \in DOMAIN measured PROVE Measure(g)'
  BY <1>1, <1>2, <1>3, <1>6, <1>7 DEF SidecarInv, Measure, server_
<1> QED BY <1>1, <1>7 DEF server_, SidecarInv, ServerTypes, StartsApart, PermitsOwn, OneProcess, Owned

(* A call that ends asks less.                                             *)
LEMMA AnswerPreserves ==
  ASSUME SidecarInv, NEW c \in Calls, Answer(c)
  PROVE  SidecarInv'
<1>1. UNCHANGED server_ /\ calls' = [calls EXCEPT ![c] = Quiet]
  BY DEF Answer
<1>2. ASSUME NEW g PROVE AskedAt(g)' \subseteq AskedAt(g)
  BY <1>1 DEF AskedAt, SidecarInv, ServerTypes, Quiet
<1>3. ASSUME NEW g \in DOMAIN measured PROVE Measure(g)'
  <2>1. IsFiniteSet(AskedAt(g)) /\ IsFiniteSet(AskedAt(g)')
    BY SidecarAssumption, FS_Subset DEF AskedAt
  <2>2. Cardinality(AskedAt(g)') <= Cardinality(AskedAt(g)) /\ Cardinality(AskedAt(g)') \in Nat
        /\ Cardinality(AskedAt(g)) \in Nat
    BY <1>2, <2>1, FS_Subset, FS_CardinalityType
  <2> QED BY <1>1, <2>2 DEF SidecarInv, Measure, ServerTypes, server_
<1> QED BY <1>1, <1>3 DEF server_, SidecarInv, ServerTypes, StartsApart, PermitsOwn, OneProcess, Owned, Quiet

(* A start gets a number that no process and no measurement has.           *)
LEMMA LaunchPreservesServer ==
  ASSUME SidecarInv, NEW c \in Calls, Launch(c)
  PROVE  SidecarInv'
<1>1. PICK m : starts' = starts \cup {StartTask(m)}
  BY DEF Launch
<1>2. StartTask(m).at = started + 1 /\ started \in Nat /\ started' = started + 1
  BY DEF Launch, StartTask, SidecarInv, ServerTypes
<1>3. UNCHANGED <<measured, calls>>
  BY DEF Launch
<1>4. Owned' = Owned \cup {started + 1}
  BY <1>1, <1>2 DEF Owned
<1>5. ServerTypes' /\ StartsApart'
  <2> HIDE DEF StartTask
  <2> QED BY <1>1, <1>2, <1>3, <1>4 DEF Launch, SidecarInv, ServerTypes, StartsApart, Owned
<1>6. server'.state = "starting" /\ PermitsOwn'
  BY <1>3 DEF Launch, SidecarInv, PermitsOwn, ServerTypes
<1>7. OneProcess'
  <2>1. CASE server.state = "ready"
    BY <2>1, <1>4 DEF Launch, SidecarInv, ServerTypes, OneProcess
  <2>2. CASE server.state # "ready"
    BY <2>2, <1>4 DEF Launch, SidecarInv, ServerTypes, OneProcess
  <2> QED BY <2>1, <2>2
<1> QED BY <1>3, <1>5, <1>6, <1>7 DEF SidecarInv, Measure, AskedAt

(* A server that becomes ready has no calls yet, and the process it        *)
(* displaces is killed.                                                    *)
LEMMA BecomeReadyPreserves ==
  ASSUME SidecarInv, NEW s \in starts, BecomeReady(s)
  PROVE  SidecarInv'
<1>1. PICK n \in 1 .. s.slots :
        measured' = [g \in DOMAIN measured \cup {s.at} |-> IF g = s.at THEN n ELSE measured[g]]
  BY DEF BecomeReady
<1>2. n \in Nat /\ UNCHANGED <<started, calls>> /\ starts' = starts \ {s}
  BY DEF BecomeReady
<1>3. Owned' = Owned \ {s.at} /\ s.at \in Owned /\ s.at \notin DOMAIN measured /\ s.at \in 1 .. started
  BY <1>2 DEF SidecarInv, ServerTypes, StartsApart, Owned
<1>4. /\ server'.state = "ready" /\ server'.at = s.at /\ server'.permits = s.at
      /\ DOMAIN server' = {"state", "model", "slots", "at", "permits"}
      /\ s.at \in alive /\ alive' = alive \ (IF server.at = 0 THEN {} ELSE {server.at})
  BY DEF BecomeReady
<1>5. ServerTypes' /\ StartsApart' /\ PermitsOwn'
  BY <1>1, <1>2, <1>3, <1>4 DEF SidecarInv, ServerTypes, StartsApart, PermitsOwn, Owned
<1>6. OneProcess'
  BY <1>3, <1>4 DEF SidecarInv, ServerTypes, OneProcess
<1>7. ASSUME NEW g \in DOMAIN measured' PROVE Measure(g)'
  <2>1. AskedAt(g)' = AskedAt(g)
    BY <1>2 DEF AskedAt
  <2>2. CASE g = s.at
    <3>1. AskedAt(g) = {}
      BY <1>3, <2>2 DEF AskedAt, SidecarInv, PermitsOwn
    <3> QED BY <1>1, <1>2, <2>1, <2>2, <3>1, FS_EmptySet DEF Measure
  <2>3. CASE g # s.at
    BY <1>1, <1>7, <2>1, <2>3 DEF Measure, SidecarInv
  <2> QED BY <2>2, <2>3
<1> QED BY <1>5, <1>6, <1>7 DEF SidecarInv

(* Processes come and go without a measurement.                            *)
LEMMA ProcessesPreserve ==
  ASSUME SidecarInv, UNCHANGED <<started, measured, calls>>,
         \/ \E s \in starts : Spawn(s) \/ FailStart(s)
         \/ \E g \in alive : Die(g)
         \/ CoolDown \/ Shutdown
  PROVE  SidecarInv'
<1>1. /\ starts' \subseteq starts /\ alive' \subseteq alive \cup Owned
      /\ DOMAIN server' = DOMAIN server /\ server'.permits = server.permits
      /\ server'.state = "ready" => server' = server
  BY DEF Spawn, FailStart, Die, CoolDown, Shutdown, SidecarInv, ServerTypes, Owned
<1>2. StartsApart' /\ PermitsOwn' /\ ServerTypes'
  BY <1>1 DEF SidecarInv, ServerTypes, StartsApart, PermitsOwn, Owned
<1>3. OneProcess'
  <2>1. ASSUME NEW s \in starts, Spawn(s) PROVE OneProcess'
    BY <2>1 DEF Spawn, SidecarInv, OneProcess, Owned
  <2>2. ASSUME NEW s \in starts, FailStart(s) PROVE OneProcess'
    <3>1. Owned' = Owned \ {s.at}
      BY <2>2 DEF FailStart, SidecarInv, StartsApart, Owned
    <3> QED BY <2>2, <3>1 DEF FailStart, SidecarInv, ServerTypes, OneProcess
  <2>3. CASE \/ \E g \in alive : Die(g)
             \/ CoolDown \/ Shutdown
    BY <2>3 DEF Die, CoolDown, Shutdown, SidecarInv, ServerTypes, OneProcess, Owned
  <2> QED BY <2>1, <2>2, <2>3
<1> QED BY <1>2, <1>3 DEF SidecarInv, Measure, AskedAt

LEMMA SidecarStep == SidecarInv /\ [SidecarNext]_sidecarVars => SidecarInv'
<1> SUFFICES ASSUME SidecarInv, [SidecarNext]_sidecarVars PROVE SidecarInv'
  OBVIOUS
<1>1. ASSUME NEW t \in Transfers, Receive(t) \/ FinishDownload(t) \/ BreakDownload(t) PROVE SidecarInv'
  BY <1>1, FilesPreserve DEF Receive, FinishDownload, BreakDownload
<1>2. ASSUME NEW m \in Models, DeleteModel(m) \/ SetActive(m) \/ CancelDownload(m) PROVE SidecarInv'
  BY <1>2, FilesPreserve DEF DeleteModel, SetActive, CancelDownload
<1>3. ASSUME NEW m \in Models, NEW t \in Transfers, StartDownload(t, m) PROVE SidecarInv'
  BY <1>3, FilesPreserve DEF StartDownload
<1>4. ASSUME NEW n \in 1 .. 10, SetSlots(n) PROVE SidecarInv'
  BY <1>4, FilesPreserve DEF SetSlots
<1>5. CASE UNCHANGED sidecarVars
  BY <1>5, FilesPreserve DEF sidecarVars, server_
<1>6. ASSUME \/ \E s \in starts : Spawn(s) \/ FailStart(s)
             \/ \E g \in alive : Die(g)
             \/ CoolDown \/ Shutdown
      PROVE SidecarInv'
  <2>1. UNCHANGED <<started, measured, calls>>
    BY <1>6 DEF Spawn, FailStart, Die, CoolDown, Shutdown
  <2> QED BY <1>6, <2>1, ProcessesPreserve
<1> QED
  BY <1>1, <1>2, <1>3, <1>4, <1>5, <1>6, LetThroughPreserves, LaunchPreservesServer, AcquirePreserves,
     AnswerPreserves, BecomeReadyPreserves DEF SidecarNext

(* ServerWithinMeasure, for any models, calls and number of starts: no     *)
(* order of starts, failures, stops, deaths and answers asks a server more *)
(* at once than it was measured to sustain, or leaves two processes that   *)
(* nothing owns (ensure_server_ready, start_server_task).                  *)
THEOREM ServerNeverOverloaded == SidecarSpec => []ServerWithinMeasure
  BY SidecarStarts, SidecarStep, InvWithinMeasure, PTL DEF SidecarSpec

-----------------------------------------------------------------------------
(* Alerts: while tasks run one at a time, what a task found not to be      *)
(* recorded stays so until it records it, and what is recorded counts for  *)
(* the month from then on.                                                 *)

TaskFields  == {"phase", "todo", "scopes", "levels", "unsent"}
Crossings   == Scopes \X LevelSet \X Months
Crossed(t)  == <<Head(t.scopes), Head(t.levels), Month(DayOf[Head(t.todo)])>>
Fired(k)    == AlreadyFired(k[1], k[2], k[3])

(* A task as it may be at this day.                                        *)
TaskOK(t) ==
  /\ DOMAIN t = TaskFields /\ t.todo \in Seq(Debits)
  /\ \A i \in 1 .. Len(t.todo) : DayOf[t.todo[i]] <= today
  /\ t.phase \in {"gauge", "look", "record"} => t.todo # <<>>
  /\ t.phase \in {"none", "over"} => t.unsent = {}

AlertTypes ==
  /\ today \in Nat /\ raced \in BOOLEAN /\ told \in [Crossings -> Nat]
  /\ DOMAIN checks = Statements /\ \A s \in Statements : TaskOK(checks[s])

(* One task at a time: what is announced was recorded, what waits to be    *)
(* announced was recorded and not announced, and what is about to be       *)
(* recorded was not recorded.                                              *)
ToldIsFired    == \A k \in Crossings : told[k] <= 1 /\ (told[k] = 1 => Fired(k))
UnsentIsUntold == \A s \in Statements : \A k \in Crossings \cap checks[s].unsent : told[k] = 0 /\ Fired(k)
RecordIsFirst  == \A s \in Statements : checks[s].phase = "record" => ~Fired(Crossed(checks[s]))

AlertInv ==
  /\ AlertTypes
  /\ ~raced => /\ \A s, u \in Underway : s = u
               /\ ToldIsFired /\ UnsentIsUntold /\ RecordIsFirst

LEMMA AlertsStart == AlertsInit => AlertInv
<1> SUFFICES ASSUME AlertsInit PROVE AlertInv
  OBVIOUS
<1>1. DOMAIN checks = Statements /\ \A s \in Statements : checks[s] = NotSpawned
  BY DEF AlertsInit
<1>2. TaskOK(NotSpawned)
  BY DEF TaskOK, NotSpawned, TaskFields
<1>3. NotSpawned.phase = "none" /\ NotSpawned.unsent = {}
  BY DEF NotSpawned
<1>4. Underway = {}
  BY <1>1, <1>3 DEF Underway
<1>5. told = [k \in Crossings |-> 0]
  BY DEF AlertsInit, Crossings
<1>6. told \in [Crossings -> Nat] /\ \A k \in Crossings : told[k] = 0
  BY <1>5
<1>7. AlertTypes
  BY <1>1, <1>2, <1>6 DEF AlertsInit, AlertTypes
<1>8. ToldIsFired /\ UnsentIsUntold /\ RecordIsFirst
  <2> HIDE DEF NotSpawned
  <2> QED BY <1>1, <1>3, <1>6 DEF ToldIsFired, UnsentIsUntold, RecordIsFirst
<1> QED BY <1>4, <1>7, <1>8 DEF AlertInv

(* A multiple of a divisor below a number.                                 *)
LEMMA QuotientBelow ==
  ASSUME NEW d \in Nat, NEW n \in Nat \ {0}
  PROVE  (d \div n) * n \in Int /\ (d \div n) * n <= d
<1> DEFINE q == d \div n
<1>1. q \in Int /\ (d % n) \in 0 .. (n - 1) /\ d = n * q + (d % n)
  OBVIOUS
<1> HIDE DEF q
<1>2. n * q \in Int /\ q * n = n * q
  BY <1>1
<1>3. n * q <= d
  BY <1>1, <1>2
<1> QED BY <1>2, <1>3 DEF q

(* A day belongs to a month that has begun.                                *)
LEMMA MonthHasBegun ==
  ASSUME NEW d \in Nat
  PROVE  Month(d) * MonthLength \in Int /\ Month(d) * MonthLength <= d
  BY QuotientBelow, AlertsAssumption DEF Month

(* A task that moves on records nothing and announces nothing.             *)
LEMMA MoveOnPreserves ==
  ASSUME AlertInv, NEW s \in Statements, s \in Underway, NEW t, TaskOK(t), Task(s, t),
         UNCHANGED <<today, alerts, told, raced>>,
         t.unsent \subseteq checks[s].unsent,
         t.phase = "record" => ~Fired(Crossed(t))
  PROVE  AlertInv'
<1>1. checks' = [checks EXCEPT ![s] = t] /\ DOMAIN checks = Statements
  BY DEF Task, AlertInv, AlertTypes
<1>2. \A u \in Statements : checks'[u] = IF u = s THEN t ELSE checks[u]
  BY <1>1
<1>3. \A r : TaskOK(r)' <=> TaskOK(r)
  BY DEF TaskOK
<1>4. \A k : Fired(k)' <=> Fired(k)
  BY DEF Fired, AlreadyFired
<1>5. AlertTypes'
  BY <1>1, <1>2, <1>3 DEF AlertInv, AlertTypes
<1>6. Underway' \subseteq Underway
  BY <1>2 DEF Underway
<1>7. UnsentIsUntold /\ RecordIsFirst /\ ToldIsFired => UnsentIsUntold' /\ RecordIsFirst' /\ ToldIsFired'
  BY <1>2, <1>4 DEF UnsentIsUntold, RecordIsFirst, ToldIsFired, Crossed
<1> QED BY <1>5, <1>6, <1>7 DEF AlertInv

(* What is left of a task after a payment is a task.                       *)
LEMMA RestOK ==
  ASSUME NEW t, TaskOK(t), t.todo # <<>>
  PROVE  TaskOK(NextLine(t)) /\ NextLine(t).phase = "pick" /\ NextLine(t).unsent = {}
<1>1. /\ Tail(t.todo) \in Seq(Debits) /\ Len(Tail(t.todo)) = Len(t.todo) - 1
      /\ \A i \in 1 .. Len(Tail(t.todo)) : Tail(t.todo)[i] = t.todo[i + 1] /\ i + 1 \in 1 .. Len(t.todo)
  BY DEF TaskOK
<1>2. /\ DOMAIN NextLine(t) = TaskFields /\ NextLine(t).phase = "pick"
      /\ NextLine(t).todo = Tail(t.todo) /\ NextLine(t).unsent = {}
  BY DEF TaskOK, NextLine, TaskFields
<1>3. ASSUME NEW i \in 1 .. Len(Tail(t.todo)) PROVE DayOf[Tail(t.todo)[i]] <= today
  BY <1>1, <1>3 DEF TaskOK
<1> QED BY <1>1, <1>2, <1>3 DEF TaskOK

LEMMA TaskMovesOn ==
  ASSUME AlertInv, NEW s \in Statements, Pick(s) \/ Gauge(s) \/ Look(s) \/ Fail(s)
  PROVE  AlertInv'
<1> DEFINE t == checks[s]
           ended == [NotSpawned EXCEPT !.phase = "over"]
<1>1. s \in Underway /\ TaskOK(t) /\ UNCHANGED <<today, alerts, told, raced>>
  BY DEF Pick, Gauge, Look, Fail, Underway, AlertInv, AlertTypes, bookings
<1>2. TaskOK(ended) /\ ended.unsent = {} /\ ended.phase = "over"
  BY DEF TaskOK, NotSpawned, TaskFields
<1>3. CASE Pick(s)
  <2>1. CASE t.todo = <<>>
    BY <1>1, <1>2, <1>3, <2>1, MoveOnPreserves DEF Pick
  <2>2. CASE t.todo # <<>> /\ (Looking(s) \in flagged \/ standing[Looking(s)] = "absent")
    BY <1>1, <1>3, <2>2, RestOK, MoveOnPreserves DEF Pick
  <2>3. CASE t.todo # <<>> /\ ~(Looking(s) \in flagged \/ standing[Looking(s)] = "absent")
    <3>1. PICK q : q = (IF CategoryOf[Looking(s)] = NoCategory THEN <<>> ELSE <<CategoryOf[Looking(s)]>>)
                         \o <<Global>>
      OBVIOUS
    <3>2. PICK r : r = [t EXCEPT !.phase = "gauge", !.scopes = q]
      OBVIOUS
    <3>3. Task(s, r)
      BY <1>3, <2>3, <3>1, <3>2 DEF Pick
    <3>4. TaskOK(r) /\ r.unsent = t.unsent /\ r.phase = "gauge"
      BY <1>1, <2>3, <3>2 DEF TaskOK, TaskFields
    <3> QED BY <1>1, <3>3, <3>4, MoveOnPreserves
  <2> QED BY <2>1, <2>2, <2>3
<1>4. CASE Gauge(s)
  <2>1. PICK q : q = LevelsReached(Head(t.scopes), Looking(s))
    OBVIOUS
  <2>2. PICK r : r = [t EXCEPT !.phase = "look", !.levels = q]
    OBVIOUS
  <2>3. Task(s, r)
    BY <1>4, <2>1, <2>2 DEF Gauge
  <2>4. TaskOK(r) /\ r.unsent = t.unsent /\ r.phase = "look"
    BY <1>1, <1>4, <2>2 DEF TaskOK, TaskFields, Gauge
  <2> QED BY <1>1, <2>3, <2>4, MoveOnPreserves
<1>5. CASE Look(s)
  <2>1. CASE t.levels = <<>>
    <3>1. PICK r : r = [t EXCEPT !.phase = "gauge", !.scopes = Tail(t.scopes)]
      OBVIOUS
    <3>2. Task(s, r)
      BY <1>5, <2>1, <3>1 DEF Look
    <3>3. TaskOK(r) /\ r.unsent = t.unsent /\ r.phase = "gauge"
      BY <1>1, <1>5, <3>1 DEF TaskOK, TaskFields, Look
    <3> QED BY <1>1, <3>2, <3>3, MoveOnPreserves
  <2>2. CASE t.levels # <<>> /\ Fired(Crossed(t))
    <3>1. PICK r : r = [t EXCEPT !.levels = Tail(t.levels)]
      OBVIOUS
    <3>2. Task(s, r)
      BY <1>5, <2>2, <3>1 DEF Look, Fired, Crossed, Looking
    <3>3. TaskOK(r) /\ r.unsent = t.unsent /\ r.phase = "look"
      BY <1>1, <1>5, <3>1 DEF TaskOK, TaskFields, Look
    <3> QED BY <1>1, <3>2, <3>3, MoveOnPreserves
  <2>3. CASE t.levels # <<>> /\ ~Fired(Crossed(t))
    <3>1. PICK r : r = [t EXCEPT !.phase = "record"]
      OBVIOUS
    <3>2. Task(s, r)
      BY <1>5, <2>3, <3>1 DEF Look, Fired, Crossed, Looking
    <3>3. TaskOK(r) /\ r.unsent = t.unsent /\ r.phase = "record" /\ Crossed(r) = Crossed(t)
      BY <1>1, <1>5, <3>1 DEF TaskOK, TaskFields, Look, Crossed
    <3> QED BY <1>1, <2>3, <3>2, <3>3, MoveOnPreserves
  <2> QED BY <2>1, <2>2, <2>3
<1>6. CASE Fail(s)
  BY <1>1, <1>2, <1>6, MoveOnPreserves DEF Fail
<1> QED BY <1>3, <1>4, <1>5, <1>6

(* What is recorded counts from then on for the payment's month, for the   *)
(* payment is not of a later day.                                          *)
LEMMA RecordPreserves ==
  ASSUME AlertInv, NEW s \in Statements, RecordAlert(s)
  PROVE  AlertInv'
<1> DEFINE t == checks[s]
           day == DayOf[Head(t.todo)]
<1>1. PICK k : k = Crossed(t)
  OBVIOUS
<1>2. PICK r : r = [t EXCEPT !.phase = "look", !.levels = Tail(t.levels), !.unsent = t.unsent \cup {k}]
  OBVIOUS
<1>3. /\ UNCHANGED <<today, told, raced>> /\ t.phase = "record"
      /\ alerts' = alerts \cup {[scope |-> k[1], level |-> k[2], on |-> today]}
      /\ checks' = [checks EXCEPT ![s] = r]
  BY <1>1, <1>2 DEF RecordAlert, Crossed, Looking, Task, bookings
<1>4. TaskOK(t) /\ DOMAIN checks = Statements /\ today \in Nat /\ s \in Underway
  BY <1>3 DEF AlertInv, AlertTypes, Underway
<1>5. DOMAIN r = TaskFields /\ r.todo = t.todo /\ r.phase = "look" /\ r.unsent = t.unsent \cup {k}
  BY <1>2, <1>4 DEF TaskOK, TaskFields
<1>6. \A u \in Statements : checks'[u] = IF u = s THEN r ELSE checks[u]
  BY <1>3, <1>4
<1>7. \A x : TaskOK(x)' <=> TaskOK(x)
  BY <1>3 DEF TaskOK
<1>8. AlertTypes' /\ Underway' \subseteq Underway
  BY <1>3, <1>4, <1>5, <1>6, <1>7 DEF AlertInv, AlertTypes, TaskOK, Underway
<1>9. \A x : Fired(x) => Fired(x)'
  BY <1>3 DEF Fired, AlreadyFired
<1>10. Fired(k)'
  <2>1. day \in Nat /\ day <= today
    BY <1>3, <1>4, AlertsAssumption DEF TaskOK
  <2>2. PICK m : m = Month(day) * MonthLength
    OBVIOUS
  <2>3. m <= today
    <3>1. m <= day /\ m \in Int
      BY <2>1, <2>2, MonthHasBegun
    <3> QED BY <2>1, <3>1, <1>4
  <2>4. k[3] * MonthLength = m
    BY <1>1, <2>2 DEF Crossed
  <2>5. PICK a : a = [scope |-> k[1], level |-> k[2], on |-> today]
    OBVIOUS
  <2>6. a \in alerts' /\ a.scope = k[1] /\ a.level = k[2] /\ a.on >= k[3] * MonthLength
    BY <1>3, <1>4, <2>3, <2>4, <2>5
  <2> QED BY <2>6 DEF Fired, AlreadyFired
<1>11. ASSUME ~raced PROVE ToldIsFired' /\ UnsentIsUntold' /\ RecordIsFirst'
  <2>1. ToldIsFired /\ UnsentIsUntold /\ RecordIsFirst /\ \A u \in Underway : u = s
    BY <1>4, <1>11 DEF AlertInv
  <2>2. k \in Crossings => told[k] = 0
    <3>1. ~Fired(k)
      BY <1>1, <1>3, <2>1 DEF RecordIsFirst
    <3>2. k \in Crossings => told[k] \in Nat
      BY DEF AlertInv, AlertTypes
    <3> QED BY <2>1, <3>1, <3>2 DEF ToldIsFired
  <2>3. \A u \in Statements : checks'[u].phase # "record"
    BY <1>5, <1>6, <2>1 DEF Underway
  <2> QED BY <1>3, <1>5, <1>6, <1>9, <1>10, <2>1, <2>2, <2>3 DEF ToldIsFired, UnsentIsUntold, RecordIsFirst
<1> QED BY <1>3, <1>8, <1>11 DEF AlertInv

(* What a task announces is announced for the first time.                  *)
LEMMA ConcludePreserves ==
  ASSUME AlertInv, NEW s \in Statements, Conclude(s)
  PROVE  AlertInv'
<1> DEFINE t == checks[s]
<1>1. PICK r : r = NextLine(t)
  OBVIOUS
<1>2. /\ UNCHANGED <<today, alerts, raced>> /\ t.phase = "gauge"
      /\ told' = [k \in DOMAIN told |-> IF k \in t.unsent THEN told[k] + 1 ELSE told[k]]
      /\ checks' = [checks EXCEPT ![s] = r]
  BY <1>1 DEF Conclude, Task, bookings
<1>3. TaskOK(t) /\ DOMAIN checks = Statements /\ told \in [Crossings -> Nat] /\ s \in Underway
  BY <1>2 DEF AlertInv, AlertTypes, Underway
<1>4. TaskOK(r) /\ r.phase = "pick" /\ r.unsent = {}
  BY <1>1, <1>2, <1>3, RestOK DEF TaskOK
<1>5. \A u \in Statements : checks'[u] = IF u = s THEN r ELSE checks[u]
  BY <1>2, <1>3
<1>6. (\A x : TaskOK(x)' <=> TaskOK(x)) /\ (\A k : Fired(k)' <=> Fired(k))
  BY <1>2 DEF TaskOK, Fired, AlreadyFired
<1>7. told' \in [Crossings -> Nat] /\ \A k \in Crossings : told'[k] = IF k \in t.unsent THEN told[k] + 1 ELSE told[k]
  BY <1>2, <1>3
<1>8. AlertTypes' /\ Underway' \subseteq Underway
  BY <1>2, <1>3, <1>4, <1>5, <1>6, <1>7 DEF AlertInv, AlertTypes, Underway
<1>9. ASSUME ~raced PROVE ToldIsFired' /\ UnsentIsUntold' /\ RecordIsFirst'
  <2>1. ToldIsFired /\ UnsentIsUntold /\ RecordIsFirst /\ \A u \in Underway : u = s
    BY <1>3, <1>9 DEF AlertInv
  <2>2. ToldIsFired'
    BY <1>3, <1>6, <1>7, <2>1 DEF ToldIsFired, UnsentIsUntold
  <2>3. \A u \in Statements : checks'[u].unsent = {}
    BY <1>4, <1>5, <2>1 DEF Underway, AlertInv, AlertTypes, TaskOK
  <2>4. \A u \in Statements : checks'[u].phase # "record"
    BY <1>4, <1>5, <2>1 DEF Underway
  <2> QED BY <2>2, <2>3, <2>4 DEF UnsentIsUntold, RecordIsFirst
<1> QED BY <1>2, <1>8, <1>9 DEF AlertInv

(* A task begins with nothing to announce, and alone unless there is a race. *)
LEMMA CommitLinesPreserves ==
  ASSUME AlertInv, NEW s \in Statements, CommitLines(s)
  PROVE  AlertInv'
<1>1. PICK r : r = [NotSpawned EXCEPT !.phase = "pick", !.todo = LinesOf[s]]
  OBVIOUS
<1>2. /\ UNCHANGED <<today, alerts, told>> /\ raced' = (raced \/ Underway # {})
      /\ checks' = [checks EXCEPT ![s] = r]
  BY <1>1 DEF CommitLines, Task
<1>3. DOMAIN checks = Statements
  BY DEF AlertInv, AlertTypes
<1>4. \A u \in Statements : checks'[u] = IF u = s THEN r ELSE checks[u]
  BY <1>2, <1>3
<1>5. TaskOK(r) /\ r.phase = "pick" /\ r.unsent = {}
  <2>1. DOMAIN r = TaskFields /\ r.todo = LinesOf[s] /\ r.phase = "pick" /\ r.unsent = {}
    BY <1>1 DEF NotSpawned, TaskFields
  <2>2. LinesOf[s] \in Seq(Debits) /\ \A i \in 1 .. Len(LinesOf[s]) : LinesOf[s][i] \in ToSet(LinesOf[s])
    BY AlertsAssumption DEF ToSet
  <2> QED BY <2>1, <2>2 DEF TaskOK, CommitLines, Arrived
<1>6. (\A x : TaskOK(x)' <=> TaskOK(x)) /\ (\A k : Fired(k)' <=> Fired(k))
  BY <1>2 DEF TaskOK, Fired, AlreadyFired
<1>7. AlertTypes'
  BY <1>2, <1>3, <1>4, <1>5, <1>6 DEF AlertInv, AlertTypes
<1>8. ASSUME ~raced'
      PROVE  (\A x, y \in Underway' : x = y) /\ ToldIsFired' /\ UnsentIsUntold' /\ RecordIsFirst'
  <2>1. ~raced /\ Underway = {}
    BY <1>2, <1>8 DEF AlertInv, AlertTypes
  <2>2. Underway' \subseteq {s}
    BY <1>4, <2>1 DEF Underway
  <2> QED BY <1>2, <1>4, <1>5, <1>6, <2>1, <2>2
          DEF AlertInv, ToldIsFired, UnsentIsUntold, RecordIsFirst
<1> QED BY <1>7, <1>8 DEF AlertInv

(* Bookings and days do not touch what was recorded and announced.         *)
LEMMA AroundPreserves ==
  ASSUME AlertInv, UNCHANGED <<alerts, told, checks, raced>>, today' \in Nat, today <= today'
  PROVE  AlertInv'
<1>1. \A k : Fired(k)' <=> Fired(k)
  BY DEF Fired, AlreadyFired
<1>2. ASSUME NEW s \in Statements PROVE TaskOK(checks[s])'
  <2>1. TaskOK(checks[s]) /\ today \in Nat
    BY DEF AlertInv, AlertTypes
  <2>2. \A i \in 1 .. Len(checks[s].todo) : DayOf[checks[s].todo[i]] <= today'
    BY <2>1, AlertsAssumption DEF TaskOK
  <2> QED BY <2>1, <2>2 DEF TaskOK
<1> QED BY <1>1, <1>2 DEF AlertInv, AlertTypes, ToldIsFired, UnsentIsUntold, RecordIsFirst, Underway, Crossed

LEMMA QuitPreserves ==
  ASSUME AlertInv, QuitAlerts
  PROVE  AlertInv'
<1> DEFINE ended == [NotSpawned EXCEPT !.phase = "over"]
<1>1. /\ UNCHANGED <<today, alerts, told, raced>>
      /\ \A s \in Statements : checks'[s] = ended \/ checks'[s] = checks[s]
      /\ DOMAIN checks' = Statements
  BY DEF QuitAlerts, bookings
<1>2. TaskOK(ended) /\ ended.unsent = {} /\ ended.phase = "over"
  BY DEF TaskOK, NotSpawned, TaskFields
<1>3. (\A x : TaskOK(x)' <=> TaskOK(x)) /\ (\A k : Fired(k)' <=> Fired(k))
  BY <1>1 DEF TaskOK, Fired, AlreadyFired
<1> HIDE DEF ended
<1> QED BY <1>1, <1>2, <1>3
        DEF AlertInv, AlertTypes, ToldIsFired, UnsentIsUntold, RecordIsFirst, Underway, Crossed

LEMMA AlertsStep == AlertInv /\ [AlertsNext]_alertVars => AlertInv'
<1> SUFFICES ASSUME AlertInv, [AlertsNext]_alertVars PROVE AlertInv'
  OBVIOUS
<1>0. today \in Nat
  BY DEF AlertInv, AlertTypes
<1>1. ASSUME NEW p \in Debits, BookFromMail(p) \/ Settle(p) PROVE AlertInv'
  BY <1>0, <1>1, AroundPreserves DEF BookFromMail, Settle
<1>2. CASE WarnOffline \/ NextDay
  BY <1>0, <1>2, AroundPreserves DEF WarnOffline, NextDay, bookings
<1>3. CASE UNCHANGED alertVars
  BY <1>0, <1>3, AroundPreserves DEF alertVars, bookings
<1> QED BY <1>1, <1>2, <1>3, CommitLinesPreserves, TaskMovesOn, RecordPreserves, ConcludePreserves,
           QuitPreserves DEF AlertsNext, AlertTask

(* AnnouncedOnce, for any payments, limits, levels and statements: unless  *)
(* two tasks ran at once, no failure, quit or order of statements and      *)
(* months announces a level of a month twice (alert_worker.rs,             *)
(* threshold_already_fired_this_month).                                    *)
THEOREM LevelAnnouncedOnce == AlertsSpec => []AnnouncedOnce
<1>1. AlertInv => AnnouncedOnce
  BY DEF AlertInv, AlertTypes, ToldIsFired, AnnouncedOnce
<1> QED BY AlertsStart, AlertsStep, <1>1, PTL DEF AlertsSpec

-----------------------------------------------------------------------------
(* Gates: what reaches the ledger.  OnlyMovedMoney speaks of what was      *)
(* handed on and of what is on record; both follow from what holds of a    *)
(* letter in between: one whose body was fetched is vouched for, and so is *)
(* one whose dismissal the batch of a scan still keeps.  No domain turned  *)
(* away was approved since, or its word would be taken unchecked.          *)

(* A set of numbers has a least one. *)
LEMMA LeastOf ==
  ASSUME NEW S, S \subseteq Nat, S # {}
  PROVE  \E n \in S : \A m \in S : n <= m
<1> DEFINE R == {ss \in Nat \X Nat : ss[1] < ss[2]}
<1>1. IsWellFoundedOn(R, Nat)
  BY NatLessThanWellFounded DEF OpToRel
<1>2. \A m, n \in S : <<m, n>> \notin R => n <= m
  <2>1. ASSUME NEW m \in S, NEW n \in S, m < n
        PROVE  <<m, n>> \in R
    BY <2>1, Zenon
  <2>2. QED
    BY <2>1
<1>3. \E n \in S : \A m \in S : <<m, n>> \notin R
  <2> HIDE DEF R
  <2>1. QED
    BY <1>1, WFMin, Zenon
<1> HIDE DEF R
<1>4. QED
  BY <1>2, <1>3

(* Of cases one of which holds, FirstOf takes one that holds and before    *)
(* which none does.                                                        *)
LEMMA FirstCase ==
  ASSUME NEW cases, NEW k \in Nat, DOMAIN cases = 1 .. k,
         NEW i \in 1 .. k, cases[i].holds
  PROVE  \E n \in 1 .. k : /\ cases[n].holds
                           /\ \A m \in 1 .. k : cases[m].holds => n <= m
                           /\ FirstOf(cases) = cases[n].is
<1> DEFINE holding == {n \in DOMAIN cases : cases[n].holds}
           least == CHOOSE n \in holding : \A m \in holding : n <= m
<1>1. holding \subseteq Nat /\ i \in holding
  OBVIOUS
<1>2. \E n \in holding : \A m \in holding : n <= m
  <2> HIDE DEF holding
  <2>1. QED
    BY <1>1, LeastOf
<1>3. least \in holding /\ \A m \in holding : least <= m
  <2> HIDE DEF holding
  <2>1. QED
    BY <1>2
<1>4. FirstOf(cases) = cases[least].is
  BY DEF FirstOf
<1>5. QED
  BY <1>3, <1>4

Kinds == {"transaction", "statement", "noise", "unverified", "spoof"}

(* A verdict that lets a message pass names a domain of the registry.      *)
LEMMA VerifiedSender ==
  ASSUME NEW address
  PROVE  /\ \E kind \in Kinds : \E bank : VerifySender(address) = Verdict(kind, bank)
         /\ VerifySender(address).kind \in {"transaction", "statement"} =>
              /\ address.ats # 0
              /\ \E e \in Registry : Kin[<<address.domain, e>>] \in {"is", "under"}
<1> DEFINE Akin(how) == {e \in Registry : Kin[<<address.domain, e>>] = how}
           Longest(S) == CHOOSE e \in S : \A f \in S : f.length <= e.length
           Spoof(holds) == [holds |-> holds, is |-> Verdict("spoof", "none")]
           Unknown == Verdict("unverified", "none")
           one == Spoof(\E how \in {"contains", "lookalike", "encoded", "close"} : Akin(how) # {})
           two == Spoof(\E e \in Registry : address.name \in e.names)
           three == [holds |-> TRUE, is |-> Unknown]
<1>1. CASE address.ats = 0
  BY <1>1 DEF VerifySender, Verdict, Kinds
<1>2. CASE address.ats # 0 /\ Akin("is") # {}
  <2>1. VerifySender(address) = ByClass(CHOOSE e \in Akin("is") : TRUE)
    BY <1>2 DEF VerifySender
  <2>2. \A e : \E kind \in Kinds : \E bank : ByClass(e) = Verdict(kind, bank)
    BY DEF ByClass, Kinds
  <2>3. QED
    BY <1>2, <2>1, <2>2
<1>3. CASE address.ats # 0 /\ Akin("is") = {} /\ Akin("under") # {}
  <2>1. VerifySender(address) = ByClass(Longest(Akin("under")))
    BY <1>3 DEF VerifySender
  <2>2. \A e : \E kind \in Kinds : \E bank : ByClass(e) = Verdict(kind, bank)
    BY DEF ByClass, Kinds
  <2>3. QED
    BY <1>3, <2>1, <2>2
<1>4. CASE address.ats # 0 /\ Akin("is") = {} /\ Akin("under") = {}
  <2>1. VerifySender(address) = FirstOf(<<one, two, three>>)
    BY <1>4 DEF VerifySender
  <2>2. one.is.kind = "spoof" /\ two.is.kind = "spoof" /\ three.is.kind = "unverified"
    BY DEF Verdict
  <2>3. three.holds
    OBVIOUS
  <2>4. /\ \E kind \in Kinds : \E bank : one.is = Verdict(kind, bank)
        /\ \E kind \in Kinds : \E bank : two.is = Verdict(kind, bank)
        /\ \E kind \in Kinds : \E bank : three.is = Verdict(kind, bank)
    BY DEF Kinds
  <2> HIDE DEF one, two, three
  <2>5. FirstOf(<<one, two, three>>) \in {one.is, two.is, three.is}
    <3> DEFINE cases == <<one, two, three>>
    <3>1. DOMAIN cases = 1 .. 3 /\ cases[1] = one /\ cases[2] = two /\ cases[3] = three
      OBVIOUS
    <3>2. cases[3].holds /\ 3 \in Nat /\ 3 \in 1 .. 3
      BY <2>3
    <3> HIDE DEF cases
    <3>3. PICK n \in 1 .. 3 : FirstOf(cases) = cases[n].is
      BY <3>1, <3>2, FirstCase
    <3>4. n = 1 \/ n = 2 \/ n = 3
      OBVIOUS
    <3>5. QED
      BY <3>1, <3>3, <3>4 DEF cases
  <2>6. QED
    BY <2>1, <2>2, <2>4, <2>5
<1>5. QED
  BY <1>1, <1>2, <1>3, <1>4

(* No domain turned away was approved since. *)
Unjudged == \A d \in Domains : suspects[d].status \in {"none", "pending"}

(* What Gate 1 lets through is vouched for, or comes with a second @. *)
LetIn(l) == Vouched(l) \/ SecondAt(l)

LEMMA PassedIsVouched ==
  ASSUME Unjudged, NEW l \in Letters
  PROVE  /\ EvaluateMetadataGate(l).kind \in Kinds
         /\ EvaluateMetadataGate(l).kind \in {"transaction", "statement"} => LetIn(l)
<1> DEFINE sender == VerifySender(From[l][1])
           checked == ApplyAuthResults(sender, l)
<1>1. From[l] \in Seq([ats : Nat, domain : Domains, name : STRING])
  BY GatesAssumption
<1>2. CASE From[l] = <<>> \/ Len(From[l]) > 1
  BY <1>2 DEF EvaluateMetadataGate, Verdict, Kinds
<1>3. CASE From[l] # <<>> /\ ~ Len(From[l]) > 1
  <2>1. Len(From[l]) = 1 /\ From[l][1] \in [ats : Nat, domain : Domains, name : STRING]
    <3>1. Len(From[l]) \in Nat \ {0}
      <4> DEFINE X == [ats : Nat, domain : Domains, name : STRING]
      <4> HIDE DEF X
      <4>1. \A seq \in Seq(X) : seq # <<>> => Len(seq) \in Nat \ {0}
        BY EmptySeq
      <4>2. QED
        BY <1>1, <1>3, <4>1 DEF X
    <3>2. Len(From[l]) = 1 /\ 1 \in 1 .. Len(From[l])
      <4>1. \A n \in Nat \ {0} : ~ (n > 1) => n = 1 /\ 1 \in 1 .. n
        OBVIOUS
      <4>2. QED
        BY <1>3, <3>1, <4>1, Zenon
    <3>3. From[l][1] \in [ats : Nat, domain : Domains, name : STRING]
      BY <1>1, <3>2, ElementOfSeq
    <3>4. QED
      BY <3>2, <3>3
  <2>2. Approved(l) = {}
    BY <2>1 DEF Approved, AddressDomain, Unjudged
  <2>3. EvaluateMetadataGate(l) = ApplyBankOverride(checked, l)
    BY <1>3, <2>2 DEF EvaluateMetadataGate
  <2>4. \E k \in Kinds : \E b : checked = Verdict(k, b)
    <3>1. \E k \in Kinds : \E b : sender = Verdict(k, b)
      BY VerifiedSender
    <3>2. checked = sender \/ checked = Verdict("spoof", "none")
      BY DEF ApplyAuthResults
    <3>3. QED
      BY <3>1, <3>2 DEF Kinds
  <2>5. ApplyBankOverride(checked, l).kind = checked.kind /\ checked.kind \in Kinds
    <3> HIDE DEF checked
    <3>1. PICK k \in Kinds : \E b : checked = [kind |-> k, bank |-> b]
      BY <2>4 DEF Verdict
    <3>2. PICK b : checked = [kind |-> k, bank |-> b]
      BY <3>1
    <3>3. \A c : [checked EXCEPT !.bank = c].kind = checked.kind
      BY <3>2
    <3>4. QED
      BY <3>2, <3>3 DEF ApplyBankOverride
  <2>6. ASSUME checked.kind \in {"transaction", "statement"}
        PROVE  LetIn(l)
    <3>1. Verdict("spoof", "none").kind = "spoof"
      BY DEF Verdict
    <3>2. checked = sender /\ ~ \E v \in Verdicts(l) : AuthenticationFailed(v)
      BY <2>6, <3>1 DEF ApplyAuthResults
    <3>3. /\ From[l][1].ats # 0
          /\ \E e \in Registry : Kin[<<From[l][1].domain, e>>] \in {"is", "under"}
      BY <2>6, <3>2, VerifiedSender
    <3>4. \A n \in Nat : n # 0 => n = 1 \/ n > 1
      OBVIOUS
    <3>5. From[l][1].ats = 1 \/ From[l][1].ats > 1
      BY <2>1, <3>3, <3>4
    <3>6. QED
      BY <2>1, <3>2, <3>3, <3>5 DEF LetIn, Vouched, SecondAt
  <2>7. QED
    BY <2>3, <2>5, <2>6
<1>4. QED
  BY <1>2, <1>3

(* A text judged to be of a payment says that money was debited, and does  *)
(* not say early that this failed.                                         *)
LEMMA TransactionIsSettled ==
  ASSUME NEW subject, NEW head, NEW tail, Classify(subject, head, tail) = "transaction"
  PROVE  /\ "debited" \in subject \cup head \cup tail
         /\ "failed" \notin subject \cup head
<1> DEFINE text == subject \cup head \cup tail
           verb == HasVerb(Settled(text))
           failed == ReportsFailure(Settled(subject \cup head))
           Class(holds, class) == [holds |-> holds, is |-> class]
           cases == <<
             Class("otp" \in subject, "otp"),
             Class("kyc" \in subject, "kyc"),
             Class("statement" \in subject, "statement"),
             Class(IsMandateCancellation(text), "cancellation"),
             Class(IsMandateRegistration(text), "registration"),
             Class("loan" \in subject, "marketing"),
             Class(failed, "noise"),
             Class("offer" \in subject /\ ~ (verb /\ HasAmount(text)), "marketing"),
             Class("due" \in subject /\ ~ verb, "reminder"),
             Class(verb, "transaction"),
             Class(ReportsBalance(Settled(text)), "balance"),
             Class("terms" \in subject, "noise"),
             Class(TRUE, "unknown")>>
<1>1. FirstOf(cases) = "transaction"
  BY DEF Classify
<1>2. DOMAIN cases = 1 .. 13 /\ cases[13].holds
  OBVIOUS
<1>3. \A n \in 1 .. 13 : cases[n].is = "transaction" => n = 10
  OBVIOUS
<1>4. cases[7].holds = failed /\ cases[10].holds = verb
  OBVIOUS
<1>5. 13 \in Nat /\ 13 \in 1 .. 13 /\ 7 \in 1 .. 13
  OBVIOUS
<1>6. verb /\ ~ failed
  <2> HIDE DEF cases, verb, failed
  <2>1. PICK n \in 1 .. 13 : /\ cases[n].holds
                             /\ \A m \in 1 .. 13 : cases[m].holds => n <= m
                             /\ FirstOf(cases) = cases[n].is
    BY <1>2, <1>5, FirstCase
  <2>2. n = 10
    BY <1>1, <1>3, <2>1
  <2>3. ~ cases[7].holds
    BY <1>5, <2>1, <2>2
  <2>4. QED
    BY <1>4, <2>1, <2>2, <2>3
<1>7. "debited" \in text
  BY <1>6 DEF HasVerb, Settled
<1>8. "failed" \notin subject \cup head
  BY <1>6 DEF ReportsFailure, Settled
<1>9. QED
  BY <1>7, <1>8

(* Where a balance was read, a message about it keeps no amount; where     *)
(* none was, it keeps the one that was read.                               *)
LEMMA TidiedAmount ==
  ASSUME NEW l \in Letters, NEW read \in Reading[l]
  PROVE  LET tidied == Tidied({Delivered[l]}, "balance", read)
         IN tidied.amount = IF read.balance = {} THEN read.amount ELSE {0}
<1> DEFINE timed == [read EXCEPT !.time = Fill(@, {[on |-> day, other |-> day] : day \in {Delivered[l]}})]
           named == SelfTransfer(timed)
           plausible == [named EXCEPT !.merchant = @ \ Implausible]
<1>1. DOMAIN read = DOMAIN Blank("nlp", {})
  BY GatesAssumption
<1>2. {"time", "merchant", "amount", "balance", "direction", "currency"} \subseteq DOMAIN read
  BY <1>1 DEF Blank
<1>3. DOMAIN timed = DOMAIN read /\ timed.amount = read.amount /\ timed.balance = read.balance
  BY <1>2
<1>4. DOMAIN named = DOMAIN read /\ named.amount = read.amount /\ named.balance = read.balance
  <2> HIDE DEF timed
  <2>1. QED
    BY <1>2, <1>3 DEF SelfTransfer
<1>5. /\ DOMAIN plausible = DOMAIN read /\ plausible.amount = read.amount
      /\ plausible.balance = read.balance
  <2> HIDE DEF named
  <2>1. QED
    BY <1>2, <1>4
<1>6. Tidied({Delivered[l]}, "balance", read) = BalancePlaceholder("balance", plausible)
  BY DEF Tidied
<1>7. BalancePlaceholder("balance", plausible).amount
        = IF plausible.balance = {} THEN plausible.amount ELSE {0}
  <2> HIDE DEF plausible
  <2>1. QED
    BY <1>2, <1>5 DEF BalancePlaceholder
<1>8. QED
  BY <1>5, <1>6, <1>7

(* What the ledger is given, and the letters on record. *)
Earned(res) ==
  /\ res.as = "transaction" =>
       /\ "debited" \in Subject[res.letter] \cup HeadOf[res.letter] \cup TailOf[res.letter]
       /\ "failed" \notin Subject[res.letter] \cup HeadOf[res.letter]
  /\ res.as = "balance" /\ res.amount \ {0} # {} =>
       \E read \in Reading[res.letter] : read.balance = {} /\ res.amount = read.amount

Desked ==
  /\ DOMAIN desk = {"poll", "scan"}
  /\ \A r \in {"poll", "scan"} :
       /\ desk[r].at \in {"idle", "headers", "body"}
       /\ desk[r].at # "idle" => desk[r].letter \in Letters
       /\ desk[r].at = "body" => LetIn(desk[r].letter)

Dismissed == Unjudged /\ \A row \in ignored \cup batch.ignored : LetIn(row.letter)

Recorded ==
  /\ DOMAIN held = Letters /\ \A l \in Letters : held[l] # "no" => LetIn(l)
  /\ \A l \in stored : LetIn(l)

Handed == \A res \in handed : LetIn(res.letter) /\ Earned(res)

Gated == Desked /\ Dismissed /\ Recorded /\ Handed

LEMMA InitGated == GatesInit => Gated
<1> SUFFICES ASSUME GatesInit PROVE Gated
  OBVIOUS
<1>1. Desked
  BY DEF GatesInit, Desked, NothingInHand
<1>2. Dismissed
  BY DEF GatesInit, Dismissed, Unjudged, NothingNoted
<1>3. Recorded /\ Handed
  BY DEF GatesInit, Recorded, Handed
<1>4. QED
  BY <1>1, <1>2, <1>3 DEF Gated

LEMMA GatedIsEnough == Gated => OnlyMovedMoney
<1> SUFFICES ASSUME Gated PROVE OnlyMovedMoney
  OBVIOUS
<1>1. \A l \in Letters : OnRecord(l) => LetIn(l)
  BY DEF Gated, Dismissed, Recorded, OnRecord
<1>2. QED
  BY <1>1 DEF Gated, Handed, Earned, LetIn, OnlyMovedMoney

(* Notes that dismiss only letters vouched for leave it so. *)
LEMMA NotesAreStored ==
  ASSUME Dismissed, NEW notes, StoreNotes(notes), \A row \in notes.ignored : LetIn(row.letter)
  PROVE  Unjudged' /\ \A row \in ignored' : LetIn(row.letter)
<1>1. suspects' = RecordRejectionCandidates(suspects, notes.sighted)
  BY DEF StoreNotes
<1>2. Unjudged'
  <2> SUFFICES ASSUME NEW d \in Domains
               PROVE  suspects'[d].status \in {"none", "pending"}
    BY DEF Unjudged
  <2>1. suspects[d].status \in {"none", "pending"}
    BY DEF Dismissed, Unjudged
  <2>2. \/ suspects'[d] = suspects[d]
        \/ suspects'[d].status = "pending"
    BY <1>1 DEF RecordRejectionCandidates
  <2>3. QED
    BY <2>1, <2>2
<1>3. QED
  BY <1>2 DEF StoreNotes, Dismissed

LEMMA NoteKeepsDismissed ==
  ASSUME Dismissed, NEW r, NEW sighted, NEW turned, NEW passed,
         Note(r, sighted, turned, passed), \A row \in passed : LetIn(row.letter)
  PROVE  Dismissed'
<1> DEFINE notes == [sighted |-> sighted, turned |-> turned, ignored |-> passed]
<1>1. CASE r = "scan"
  <2>1. Collect(notes)
    BY <1>1 DEF Note
  <2>2. batch'.ignored = batch.ignored \cup passed /\ ignored' = ignored /\ suspects' = suspects
    BY <2>1 DEF Collect
  <2>3. QED
    BY <2>2 DEF Dismissed, Unjudged
<1>2. CASE r # "scan"
  <2>1. StoreNotes(notes) /\ batch' = batch
    BY <1>2 DEF Note
  <2>2. \A row \in notes.ignored : LetIn(row.letter)
    OBVIOUS
  <2>3. Unjudged' /\ \A row \in ignored' : LetIn(row.letter)
    BY <2>1, <2>2, NotesAreStored
  <2>4. QED
    BY <2>1, <2>3 DEF Dismissed
<1>3. QED
  BY <1>1, <1>2

(* One who is done with a letter has none in hand. *)
LEMMA DoneKeepsDesked ==
  ASSUME Desked, NEW r \in {"poll", "scan"}, Done(r)
  PROVE  Desked'
BY DEF Desked, Done, NothingInHand

LEMMA JudgeSenderGated ==
  ASSUME Gated, NEW r \in {"poll", "scan"}, JudgeSender(r)
  PROVE  Gated'
<1> DEFINE l       == desk[r].letter
           verdict == EvaluateMetadataGate(l)
           turned  == verdict.kind \in {"unverified", "spoof"}
           sighted == [domain |-> CHOOSE d \in AddressDomain(l) : TRUE, kind |-> verdict.kind,
                       candidate |-> turned /\ SubjectLooksLikeTransaction(l)]
           notice  == IF AddressDomain(l) = {} THEN <<>> ELSE <<sighted>>
<1>1. l \in Letters
  BY DEF JudgeSender, Gated, Desked
<1>2. UNCHANGED <<held, handed, stored>>
  BY DEF JudgeSender
<1>3. Recorded' /\ Handed'
  BY <1>2 DEF Gated, Recorded, Handed
<1>4. CASE turned
  <2>1. Done(r) /\ Note(r, notice, {<<l, verdict.kind>>}, {})
    BY <1>4 DEF JudgeSender
  <2>2. QED
    BY <1>3, <2>1, DoneKeepsDesked, NoteKeepsDismissed DEF Gated
<1>5. CASE ~ turned /\ verdict.kind = "noise"
  <2>1. Done(r) /\ Note(r, notice, {}, {})
    BY <1>5 DEF JudgeSender
  <2>2. QED
    BY <1>3, <2>1, DoneKeepsDesked, NoteKeepsDismissed DEF Gated
<1>6. CASE ~ turned /\ verdict.kind # "noise"
  <2>1. Prejudge(r, l, notice, verdict.bank)
    BY <1>6 DEF JudgeSender
  <2>2. verdict.kind \in {"transaction", "statement"}
    BY <1>1, <1>6, PassedIsVouched DEF Gated, Dismissed, Kinds
  <2>3. LetIn(l)
    BY <1>1, <2>2, PassedIsVouched DEF Gated, Dismissed
  <2>4. CASE MayBeTransactional(Classify(Subject[l], Snippet[l], {}))
    <3>1. /\ desk' = [desk EXCEPT ![r] = [at |-> "body", letter |-> l, bank |-> verdict.bank]]
          /\ Note(r, notice, {}, {})
      BY <2>1, <2>4 DEF Prejudge
    <3>2. Desked'
      <4> HIDE DEF l, verdict
      <4>1. QED
        BY <1>1, <2>3, <3>1 DEF Gated, Desked
    <3>3. QED
      BY <1>3, <3>1, <3>2, NoteKeepsDismissed DEF Gated
  <2>5. CASE ~ MayBeTransactional(Classify(Subject[l], Snippet[l], {}))
    <3>1. /\ Done(r)
          /\ \/ Note(r, notice, {}, {IgnoredRow(l)})
             \/ \E fast : Note(r, notice, {<<l, fast>>}, {})
      BY <2>1, <2>5 DEF Prejudge
    <3>2. IgnoredRow(l).letter = l
      BY DEF IgnoredRow
    <3>3. \A row \in {IgnoredRow(l)} : LetIn(row.letter)
      BY <2>3, <3>2
    <3>4. Dismissed'
      <4>1. CASE Note(r, notice, {}, {IgnoredRow(l)})
        BY <3>3, <4>1, NoteKeepsDismissed DEF Gated
      <4>2. CASE \E fast : Note(r, notice, {<<l, fast>>}, {})
        BY <4>2, NoteKeepsDismissed DEF Gated
      <4>3. QED
        BY <3>1, <4>1, <4>2
    <3>5. QED
      BY <1>3, <3>1, <3>4, DoneKeepsDesked DEF Gated
  <2>6. QED
    BY <2>4, <2>5
<1>7. QED
  BY <1>4, <1>5, <1>6

(* What a reading yields is earned, and an entry is of a letter vouched    *)
(* for.                                                                    *)
LEMMA EntryKeepsRecorded ==
  ASSUME Recorded, UNCHANGED stored, NEW l \in Letters, LetIn(l),
         NEW reason, NEW eligible, RecordUnassigned(l, reason, eligible)
  PROVE  Recorded'
BY DEF Recorded, RecordUnassigned

LEMMA HandKeepsHanded ==
  ASSUME Handed, NEW l, NEW as, NEW amount, NEW bank, Hand(l, as, amount, bank), LetIn(l),
         Earned([letter |-> l, as |-> as, amount |-> amount, bank |-> bank])
  PROVE  Handed'
<1>1. [letter |-> l, as |-> as, amount |-> amount, bank |-> bank].letter = l
  OBVIOUS
<1>2. QED
  BY <1>1 DEF Handed, Hand

LEMMA ReadingIsEarned ==
  ASSUME NEW l \in Letters, NEW read \in Reading[l], NEW bank,
         NEW class \in {"transaction", "balance"},
         class = ContentClass(l)
  PROVE  Earned([letter |-> l, as |-> class, amount |-> Tidied({Delivered[l]}, class, read).amount,
                 bank |-> bank])
<1> DEFINE res == [letter |-> l, as |-> class, amount |-> Tidied({Delivered[l]}, class, read).amount,
                   bank |-> bank]
<1>1. /\ res.letter = l /\ res.as = class
      /\ res.amount = Tidied({Delivered[l]}, class, read).amount
  OBVIOUS
<1>2. res.as = "transaction" =>
        /\ "debited" \in Subject[l] \cup HeadOf[l] \cup TailOf[l]
        /\ "failed" \notin Subject[l] \cup HeadOf[l]
  BY <1>1, TransactionIsSettled DEF ContentClass
<1>3. res.as = "balance" /\ res.amount \ {0} # {} =>
        read.balance = {} /\ res.amount = read.amount
  <2>1. ASSUME res.as = "balance"
        PROVE  res.amount = IF read.balance = {} THEN read.amount ELSE {0}
    BY <1>1, <2>1, TidiedAmount
  <2> HIDE DEF res
  <2>2. QED
    BY <2>1
<1> HIDE DEF res
<1>4. Earned(res)
  BY <1>1, <1>2, <1>3 DEF Earned
<1>5. QED
  BY <1>4 DEF res

LEMMA JudgeContentGated ==
  ASSUME Gated, NEW r \in {"poll", "scan"}, JudgeContent(r)
  PROVE  Gated'
<1> DEFINE l     == desk[r].letter
           class == ContentClass(l)
<1>1. l \in Letters /\ LetIn(l)
  BY DEF JudgeContent, Gated, Desked
<1>2. Done(r) /\ UNCHANGED stored
  BY DEF JudgeContent
<1>3. Desked'
  BY <1>2, DoneKeepsDesked DEF Gated
<1>4. ASSUME UNCHANGED held PROVE Recorded'
  BY <1>2, <1>4 DEF Gated, Recorded
<1>5. ASSUME UNCHANGED handed PROVE Handed'
  BY <1>5 DEF Gated, Handed
<1>6. ASSUME UNCHANGED <<batch, suspects, ignored>> PROVE Dismissed'
  BY <1>6 DEF Gated, Dismissed, Unjudged
<1>7. CASE UNCHANGED <<held, handed>> /\ \E turned : Note(r, <<>>, turned, {})
  BY <1>3, <1>4, <1>5, <1>7, NoteKeepsDismissed DEF Gated
<1>8. CASE UNCHANGED <<held, handed>> /\ Note(r, <<>>, {}, {IgnoredRow(l)})
  <2>1. \A row \in {IgnoredRow(l)} : LetIn(row.letter)
    BY <1>1 DEF IgnoredRow
  <2>2. QED
    BY <1>3, <1>4, <1>5, <1>8, <2>1, NoteKeepsDismissed DEF Gated
<1>9. CASE /\ class \in {"statement", "registration", "cancellation"}
           /\ Hand(l, class, {}, desk[r].bank)
           /\ UNCHANGED <<batch, suspects, ignored, held>>
  <2>1. Earned([letter |-> l, as |-> class, amount |-> {}, bank |-> desk[r].bank])
    <3> HIDE DEF class
    <3>1. QED
      BY <1>9 DEF Earned
  <2>2. Handed'
    BY <1>1, <1>9, <2>1, HandKeepsHanded DEF Gated
  <2>3. QED
    BY <1>3, <1>4, <1>6, <1>9, <2>2 DEF Gated
<1>10. CASE class \in {"transaction", "balance"} /\ TakeReading(r, l, class)
  <2>1. PICK read \in Reading[l] :
          LET tidied == Tidied({Delivered[l]}, class, read)
              reason == Gate3FailureReason(tidied)
          IN \/ /\ Hand(l, class, tidied.amount, desk[r].bank)
                /\ UNCHANGED <<batch, suspects, ignored, held>>
             \/ /\ Note(r, <<>>, {<<l, reason>>}, {}) /\ UNCHANGED handed
                /\ \E llm \in BOOLEAN : RecordUnassigned(l, reason, llm)
    <3> HIDE DEF l, class
    <3>1. QED
      BY <1>10 DEF TakeReading
  <2> DEFINE tidied == Tidied({Delivered[l]}, class, read)
             reason == Gate3FailureReason(tidied)
  <2>2. CASE /\ Hand(l, class, tidied.amount, desk[r].bank)
             /\ UNCHANGED <<batch, suspects, ignored, held>>
    <3>1. Earned([letter |-> l, as |-> class, amount |-> tidied.amount, bank |-> desk[r].bank])
      BY <1>1, <1>10, ReadingIsEarned
    <3>2. Handed'
      BY <1>1, <2>2, <3>1, HandKeepsHanded DEF Gated
    <3>3. QED
      BY <1>3, <1>4, <1>6, <2>2, <3>2 DEF Gated
  <2>3. CASE /\ Note(r, <<>>, {<<l, reason>>}, {}) /\ UNCHANGED handed
             /\ \E llm \in BOOLEAN : RecordUnassigned(l, reason, llm)
    <3>1. Recorded'
      BY <1>1, <1>2, <2>3, EntryKeepsRecorded DEF Gated
    <3>2. Dismissed'
      BY <2>3, NoteKeepsDismissed DEF Gated
    <3>3. QED
      BY <1>3, <1>5, <2>3, <3>1, <3>2 DEF Gated
  <2>4. QED
    BY <2>1, <2>2, <2>3
<1>11. CASE NothingRead(r, l)
  <2>1. PICK reason : /\ Note(r, <<>>, {<<l, reason>>}, {})
                      /\ RecordUnassigned(l, reason, TRUE) /\ UNCHANGED handed
    <3> HIDE DEF l
    <3>1. QED
      BY <1>11 DEF NothingRead
  <2>2. Recorded'
    BY <1>1, <1>2, <2>1, EntryKeepsRecorded DEF Gated
  <2>3. Dismissed'
    BY <2>1, NoteKeepsDismissed DEF Gated
  <2>4. QED
    BY <1>3, <1>5, <2>1, <2>2, <2>3 DEF Gated
<1>12. QED
  <2>1. \/ UNCHANGED <<held, handed>> /\ \E turned : Note(r, <<>>, turned, {})
        \/ UNCHANGED <<held, handed>> /\ Note(r, <<>>, {}, {IgnoredRow(l)})
        \/ /\ class \in {"statement", "registration", "cancellation"}
           /\ Hand(l, class, {}, desk[r].bank)
           /\ UNCHANGED <<batch, suspects, ignored, held>>
        \/ class \in {"transaction", "balance"} /\ TakeReading(r, l, class)
        \/ NothingRead(r, l)
    BY DEF JudgeContent
  <2>2. QED
    BY <1>7, <1>8, <1>9, <1>10, <1>11, <2>1

LEMMA GatedStep == Gated /\ [GatesNext]_gateVars => Gated'
<1> SUFFICES ASSUME Gated, [GatesNext]_gateVars PROVE Gated'
  OBVIOUS
<1>1. DOMAIN desk = {"poll", "scan"}
  BY DEF Gated, Desked
<1>2. ASSUME UNCHANGED <<suspects, ignored, batch>> PROVE Dismissed'
  BY <1>2 DEF Gated, Dismissed, Unjudged
<1>3. ASSUME UNCHANGED <<held, stored>> PROVE Recorded'
  BY <1>3 DEF Gated, Recorded
<1>4. ASSUME UNCHANGED handed PROVE Handed'
  BY <1>4 DEF Gated, Handed
<1>5. ASSUME UNCHANGED desk PROVE Desked'
  BY <1>5 DEF Gated, Desked
<1>6. ASSUME NEW r \in {"poll", "scan"}, NEW l \in Letters, PickUp(r, l) PROVE Gated'
  <2>1. desk' = [desk EXCEPT ![r] = [at |-> "headers", letter |-> l, bank |-> "none"]]
    BY <1>6 DEF PickUp
  <2>2. Desked'
    BY <2>1 DEF Gated, Desked
  <2>3. UNCHANGED <<suspects, ignored, batch, held, stored, handed>>
    BY <1>6 DEF PickUp
  <2>4. QED
    BY <1>2, <1>3, <1>4, <2>2, <2>3 DEF Gated
<1>7. ASSUME NEW r \in {"poll", "scan"}, PutBack(r) PROVE Gated'
  <2>1. Done(r) /\ UNCHANGED <<suspects, ignored, batch, held, stored, handed>>
    BY <1>7 DEF PutBack
  <2>2. QED
    BY <1>2, <1>3, <1>4, <2>1, DoneKeepsDesked DEF Gated
<1>8. CASE FlushBatch
  <2>1. /\ StoreNotes(batch) /\ batch' = NothingNoted
        /\ UNCHANGED <<desk, held, stored, handed>>
    BY <1>8 DEF FlushBatch
  <2>2. Unjudged' /\ \A row \in ignored' : LetIn(row.letter)
    <3>1. \A row \in batch.ignored : LetIn(row.letter)
      BY DEF Gated, Dismissed
    <3>2. QED
      BY <2>1, <3>1, NotesAreStored DEF Gated
  <2>3. Dismissed'
    BY <2>1, <2>2 DEF Dismissed, NothingNoted
  <2>4. QED
    BY <1>3, <1>4, <1>5, <2>1, <2>3 DEF Gated
<1>9. CASE LoseBatch
  <2>1. batch' = NothingNoted /\ UNCHANGED <<desk, suspects, ignored, held, stored, handed>>
    BY <1>9 DEF LoseBatch
  <2>2. Dismissed'
    BY <2>1 DEF Gated, Dismissed, Unjudged, NothingNoted
  <2>3. QED
    BY <1>3, <1>4, <1>5, <2>1, <2>2 DEF Gated
<1>10. CASE PurgeExpired
  <2>1. ignored' \subseteq ignored /\ UNCHANGED <<desk, batch, suspects, held, stored, handed>>
    BY <1>10 DEF PurgeExpired
  <2>2. Dismissed'
    BY <2>1 DEF Gated, Dismissed, Unjudged
  <2>3. QED
    BY <1>3, <1>4, <1>5, <2>1, <2>2 DEF Gated
<1>11. CASE QuitReading
  <2>1. /\ desk' = [r \in DOMAIN desk |-> NothingInHand] /\ batch' = NothingNoted
        /\ UNCHANGED <<suspects, ignored, held, stored, handed>>
    BY <1>11 DEF QuitReading
  <2>2. Desked'
    BY <1>1, <2>1 DEF Desked, NothingInHand
  <2>3. Dismissed'
    BY <2>1 DEF Gated, Dismissed, Unjudged, NothingNoted
  <2>4. QED
    BY <1>3, <1>4, <2>1, <2>2, <2>3 DEF Gated
<1>12. ASSUME NEW res \in handed, StoreHanded(res) PROVE Gated'
  <2>1. stored' = stored \cup {res.letter} /\ UNCHANGED <<desk, batch, suspects, ignored, held, handed>>
    BY <1>12 DEF StoreHanded
  <2>2. LetIn(res.letter)
    BY DEF Gated, Handed
  <2>3. Recorded'
    BY <2>1, <2>2 DEF Gated, Recorded
  <2>4. QED
    BY <1>2, <1>4, <1>5, <2>1, <2>3 DEF Gated
<1>13. ASSUME NEW d \in Domains, RevertOverride(d) \/ \E b \in UserBanks : ReportWrongBank(d, b)
       PROVE  Gated'
  <2>1. UNCHANGED <<desk, batch, suspects, ignored, held, stored, handed>>
    BY <1>13 DEF RevertOverride, ReportWrongBank
  <2>2. QED
    BY <1>2, <1>3, <1>4, <1>5, <2>1 DEF Gated
<1>14. CASE UNCHANGED gateVars
  BY <1>2, <1>3, <1>4, <1>5, <1>14 DEF gateVars, Gated
<1>15. QED
  BY <1>1, <1>6, <1>7, <1>8, <1>9, <1>10, <1>11, <1>12, <1>13, <1>14,
     JudgeSenderGated, JudgeContentGated DEF GatesNext

(* However polls and scans overlap, a quit or a lost batch intervenes, and *)
(* whatever the user reports about a domain, only a payment that happened  *)
(* and whose sender is vouched for reaches the ledger, and only letters    *)
(* vouched for are on record (message_processor.rs:163-662).               *)
THEOREM OnlyMovedMoneyIsBooked == GatesSpec => []OnlyMovedMoney
<1>1. GatesInit => Gated
  BY InitGated
<1>2. Gated /\ [GatesNext]_gateVars => Gated'
  BY GatedStep
<1>3. Gated => OnlyMovedMoney
  BY GatedIsEnough
<1>4. QED
  BY <1>1, <1>2, <1>3, PTL DEF GatesSpec
-----------------------------------------------------------------------------
(* The types of keys, copies and launches.  What a backup leaves behind is *)
(* no more than the retention allows.                                      *)
LEMMA LatestIsShort ==
  ASSUME NEW s \in Seq(Sealed), NEW f \in Sealed, Len(s) <= Retained
  PROVE  Len(Latest(Append(s, f))) <= Retained
<1> DEFINE all == Append(s, f)
<1>1. all \in Seq(Sealed) /\ Len(all) = Len(s) + 1 /\ Retained \in Nat \ {0}
  BY CustodyAssumption
<1>2. CASE Len(all) > Retained
  <2>1. Latest(all) = Tail(all) /\ Len(Tail(all)) = Len(all) - 1
    BY <1>1, <1>2 DEF Latest
  <2> QED BY <1>1, <2>1
<1>3. CASE ~ (Len(all) > Retained)
  BY <1>1, <1>3 DEF Latest
<1> QED BY <1>2, <1>3

(* The rest of the types: what is beside the keys and the copies.          *)
CustodyRest ==
  /\ phrase \in Keys \cup {NoKey} /\ minted \subseteq Keys /\ marker \in Machines \cup {NoKey}
  /\ Len(kept) <= Retained
  /\ stage \in {"off", "opening", "rekeyed", "opened", "migrating", "running", "wiping"}
  /\ parted \in {"no", "cleared", "older", "deleted"} /\ harm \in 0..MaxHarm

LEMMA CustodyRestStep ==
  ASSUME CustodyInv, CustodyRest, [CustodyNext]_custodyVars
  PROVE  CustodyRest'
<1>1. ASSUME BaseKey PROVE keychain' \in Keys /\ minted' \subseteq Keys
  BY <1>1, BaseKeyIsKept DEF BaseKey, CustodyInv, CustodyRest
<1>2. machine \in Machines /\ kept \in Seq(Sealed)
  BY DEF CustodyInv, CustodyTypes
<1>3. CASE StartUp
  BY <1>1, <1>3 DEF StartUp, CustodyRest, copies
<1>4. CASE OpenFile
  BY <1>4 DEF OpenFile, CustodyRest, secrets, copies
<1>5. CASE BackUpFirst
  <2>1. file \in Sealed
    BY <1>5 DEF BackUpFirst, CustodyInv, Launching, Own
  <2>2. Len(kept') <= Retained
    BY <1>2, <1>5, <2>1, LatestIsShort DEF BackUpFirst, CreatePreMigrationBackup, CustodyRest
  <2> QED BY <1>5, <2>2 DEF BackUpFirst, CustodyRest, secrets
<1>6. CASE ReplaceCorrupted
  BY <1>6 DEF ReplaceCorrupted, RestoreBackupFile, CustodyRest, secrets, copies
<1>7. ASSUME NEW ok \in BOOLEAN, MarkMachine(ok) \/ Migrate(ok) PROVE CustodyRest'
  BY <1>2, <1>7 DEF MarkMachine, Migrate, RestoreBackupFile, CustodyRest, secrets, copies
<1>8. CASE WriteDownPhrase \/ BackUpDaily \/ RestoreDaily
  BY <1>1, <1>8 DEF WriteDownPhrase, BackUpDaily, RestoreDaily, CustodyRest, copies
<1>9. CASE DeleteKey
  BY <1>9 DEF DeleteKey, CustodyRest, copies
<1>10. CASE DeleteFiles
  <2>1. Len(<<>>) <= Retained
    BY CustodyAssumption
  <2> QED BY <1>10, <2>1 DEF DeleteFiles, CustodyRest, secrets
<1>11. ASSUME NEW k \in Keys, EnterPhrase(k) PROVE CustodyRest'
  BY <1>11 DEF EnterPhrase, CustodyRest, copies
<1>12. ASSUME NEW m \in Machines, StopRunning \/ ClearKeychain \/ Corrupt \/ MoveTo(m)
       PROVE  CustodyRest'
  BY <1>12, CustodyAssumption
     DEF StopRunning, ClearKeychain, Corrupt, MoveTo, Harm, CustodyRest, secrets, copies
<1>13. CASE UNCHANGED custodyVars
  BY <1>13 DEF custodyVars, secrets, copies, CustodyRest
<1>14. StopRunning \/ ClearKeychain \/ Corrupt => CustodyRest'
  BY <1>2, <1>12
<1> QED BY <1>3, <1>4, <1>5, <1>6, <1>7, <1>8, <1>9, <1>10, <1>11, <1>12, <1>13, <1>14
       DEF CustodyNext, LaunchStep, OwnerStep, Fate

(* Keys, copies and launches keep their types, and no more copies are kept *)
(* than the retention allows (create_pre_migration_backup, db/mod.rs).     *)
THEOREM CustodyTypeCorrect == CustodySpec => []CustodyTypeOK
<1>1. CustodyInit => CustodyRest
  BY CustodyAssumption DEF CustodyInit, CustodyRest
<1>2. CustodyInv /\ [CustodyNext]_custodyVars => CustodyInv'
  BY LaunchPreserves, OwnerPreserves, FatePreserves, StutterPreserves DEF CustodyNext
<1>3. CustodyInv /\ CustodyRest => CustodyTypeOK
  BY ElementOfSeq, LenProperties DEF CustodyInv, CustodyTypes, CustodyRest, CustodyTypeOK
<1> QED BY InitCustodyInv, CustodyRestStep, <1>1, <1>2, <1>3, PTL DEF CustodySpec

-----------------------------------------------------------------------------
(* The rest of the sidecar's types.                                        *)

ModelFile == [size : 0..Whole, sound : BOOLEAN, marked : BOOLEAN]
Transfer  == [on : {"nothing", "file", "removed"}, model : SUBSET Models]

FileTypes == files \in [Models -> ModelFile] /\ transfers \in [Transfers -> Transfer]

ServerState == server.state \in {"not_started", "starting", "ready", "cooling", "failed"}

LEMMA RemovedTypes ==
  ASSUME FileTypes, NEW m
  PROVE  Removed(m) \in [Transfers -> Transfer]
BY DEF FileTypes, Removed, Transfer

LEMMA FileTypesStep ==
  ASSUME FileTypes, [SidecarNext]_sidecarVars
  PROVE  FileTypes'
<1>1. /\ NoFile \in ModelFile /\ Idle \in Transfer /\ Whole \in Nat
      /\ files \in [Models -> ModelFile] /\ transfers \in [Transfers -> Transfer]
  BY SidecarAssumption DEF NoFile, Idle, ModelFile, Transfer, FileTypes
<1>2. ASSUME NEW m \in Models, NEW f \in ModelFile, files' = [files EXCEPT ![m] = f]
      PROVE  files' \in [Models -> ModelFile]
  BY <1>1, <1>2
<1>3. ASSUME NEW t \in Transfers, NEW m \in Models, StartDownload(t, m) PROVE FileTypes'
  <2>1. PICK size \in 0..Whole, sound \in BOOLEAN :
          files' = [files EXCEPT ![m] = [size |-> size, marked |-> files[m].marked, sound |-> sound]]
    <3>1. PICK resumed \in BOOLEAN :
            files' = [files EXCEPT ![m] =
              [size |-> IF resumed THEN files[m].size ELSE 0, marked |-> files[m].marked,
               sound |-> Writing(m) = {} /\ (files[m].sound \/ ~resumed)]]
      BY <1>3 DEF StartDownload
    <3>2. (IF resumed THEN files[m].size ELSE 0) \in 0..Whole
      BY <1>1 DEF ModelFile
    <3>3. (Writing(m) = {} /\ (files[m].sound \/ ~resumed)) \in BOOLEAN
      OBVIOUS
    <3> QED BY <3>1, <3>2, <3>3, Zenon
  <2>2. [size |-> size, marked |-> files[m].marked, sound |-> sound] \in ModelFile
    BY <1>1 DEF ModelFile
  <2>3. files' \in [Models -> ModelFile]
    BY <1>2, <2>1, <2>2
  <2>4. [on |-> "file", model |-> {m}] \in Transfer
    BY DEF Transfer
  <2>5. transfers' \in [Transfers -> Transfer]
    BY <1>1, <1>3, <2>4 DEF StartDownload
  <2> QED BY <2>3, <2>5 DEF FileTypes
<1>4. ASSUME NEW t \in Transfers, Receive(t) PROVE FileTypes'
  <2>1. PICK m \in transfers[t].model :
          /\ files[m].size < Whole
          /\ \E sound \in BOOLEAN :
               files' = [files EXCEPT ![m].size = files[m].size + 1, ![m].sound = sound]
          /\ transfers' = transfers
    BY <1>4, Zenon DEF Receive
  <2>2. m \in Models /\ files[m] \in ModelFile
    BY <1>1, <2>1 DEF Transfer
  <2>3. PICK sound \in BOOLEAN :
          files' = [files EXCEPT ![m].size = files[m].size + 1, ![m].sound = sound]
    BY <2>1
  <2>4. files[m].size + 1 \in 0..Whole
    BY <1>1, <2>1, <2>2 DEF ModelFile
  <2>5. PICK longer \in [Models -> ModelFile] : longer = [files EXCEPT ![m].size = files[m].size + 1]
    BY <1>1, <2>2, <2>4 DEF ModelFile
  <2>6. [longer EXCEPT ![m].sound = sound] \in [Models -> ModelFile]
    BY <2>2, <2>3, <2>5 DEF ModelFile
  <2>7. files' = [longer EXCEPT ![m].sound = sound]
    BY <2>3, <2>5
  <2> QED BY <1>1, <2>1, <2>6, <2>7 DEF FileTypes
<1>5. ASSUME NEW t \in Transfers, FinishDownload(t) PROVE FileTypes'
  <2>1. PICK m \in transfers[t].model, hashed \in BOOLEAN :
          IF hashed
          THEN /\ files' = [files EXCEPT ![m].marked = TRUE]
               /\ transfers' = [transfers EXCEPT ![t] = Idle]
          ELSE /\ files' = [files EXCEPT ![m] = [NoFile EXCEPT !.marked = files[m].marked]]
               /\ transfers' = [Removed(m) EXCEPT ![t] = Idle]
    BY <1>5 DEF FinishDownload
  <2>2. m \in Models /\ files[m] \in ModelFile
    BY <1>1 DEF Transfer
  <2>3. [files[m] EXCEPT !.marked = TRUE] \in ModelFile
        /\ [NoFile EXCEPT !.marked = files[m].marked] \in ModelFile
    BY <1>1, <2>2 DEF ModelFile
  <2>4. Removed(m) \in [Transfers -> Transfer]
    BY RemovedTypes
  <2>5. files' \in [Models -> ModelFile]
    BY <1>2, <2>1, <2>2, <2>3
  <2>6. transfers' \in [Transfers -> Transfer]
    BY <1>1, <2>1, <2>4
  <2> QED BY <2>5, <2>6 DEF FileTypes
<1>6. ASSUME NEW t \in Transfers, BreakDownload(t) PROVE FileTypes'
  BY <1>1, <1>6 DEF BreakDownload, FileTypes
<1>7. ASSUME NEW m \in Models, DeleteModel(m) \/ CancelDownload(m) PROVE FileTypes'
  <2>1. Removed(m) \in [Transfers -> Transfer]
    BY RemovedTypes
  <2>2. files' = [files EXCEPT ![m] = NoFile]
    BY <1>7 DEF DeleteModel, CancelDownload
  <2>3. transfers' \in [Transfers -> Transfer]
    BY <1>1, <1>7, <2>1 DEF DeleteModel, CancelDownload
  <2> QED BY <1>1, <1>2, <2>2, <2>3 DEF FileTypes
<1>8. ASSUME UNCHANGED <<files, transfers>> PROVE FileTypes'
  BY <1>8 DEF FileTypes
<1>9. ASSUME NEW m \in Models, SetActive(m) PROVE UNCHANGED <<files, transfers>>
  BY <1>9 DEF SetActive
<1>10. ASSUME NEW n, SetSlots(n) PROVE UNCHANGED <<files, transfers>>
  BY <1>10 DEF SetSlots, files_
<1>11. ASSUME NEW c \in Calls, LetThrough(c) \/ Launch(c) \/ Acquire(c) \/ Answer(c)
       PROVE  UNCHANGED <<files, transfers>>
  BY <1>11 DEF LetThrough, Launch, Acquire, Answer, files_
<1>12. ASSUME NEW s, Spawn(s) \/ BecomeReady(s) \/ FailStart(s) \/ Die(s)
       PROVE  UNCHANGED <<files, transfers>>
  BY <1>12 DEF Spawn, BecomeReady, FailStart, Die, files_
<1>13. CoolDown \/ Shutdown \/ UNCHANGED sidecarVars => UNCHANGED <<files, transfers>>
  BY DEF CoolDown, Shutdown, sidecarVars, files_
<1> QED BY <1>3, <1>4, <1>5, <1>6, <1>7, <1>8, <1>9, <1>10, <1>11, <1>12, <1>13 DEF SidecarNext

LEMMA ServerStateStep ==
  ASSUME ServerTypes, ServerState, [SidecarNext]_sidecarVars
  PROVE  ServerState'
<1> DEFINE States == {"not_started", "starting", "ready", "cooling", "failed"}
<1>1. DOMAIN server = {"state", "model", "slots", "at", "permits"}
  BY DEF ServerTypes
<1>2. ASSUME UNCHANGED server PROVE ServerState'
  BY <1>2 DEF ServerState
<1>3. ASSUME NEW t \in Transfers, Receive(t) \/ FinishDownload(t) \/ BreakDownload(t)
      PROVE  UNCHANGED server
  BY <1>3 DEF Receive, FinishDownload, BreakDownload, server_
<1>4. ASSUME NEW m \in Models, DeleteModel(m) \/ SetActive(m) \/ CancelDownload(m)
      PROVE  UNCHANGED server
  BY <1>4 DEF DeleteModel, SetActive, CancelDownload, server_
<1>5. ASSUME NEW m \in Models, NEW t \in Transfers, StartDownload(t, m) PROVE UNCHANGED server
  BY <1>5 DEF StartDownload, server_
<1>6. ASSUME NEW n, SetSlots(n) PROVE UNCHANGED server
  BY <1>6 DEF SetSlots, server_
<1>7. ASSUME NEW c \in Calls, LetThrough(c) \/ Acquire(c) \/ Answer(c) PROVE UNCHANGED server
  BY <1>7 DEF LetThrough, Acquire, Answer, server_
<1>8. ASSUME NEW c \in Calls, Launch(c) PROVE ServerState'
  <2>1. server' = [server EXCEPT !.state = "starting",
                                 !.at = IF server.state = "ready" THEN 0 ELSE server.at]
    BY <1>8 DEF Launch
  <2> QED BY <1>1, <2>1 DEF ServerState
<1>9. ASSUME NEW s, Spawn(s) \/ Die(s) PROVE UNCHANGED server
  BY <1>9 DEF Spawn, Die
<1>10. ASSUME NEW s, BecomeReady(s) PROVE ServerState'
  BY <1>10 DEF BecomeReady, ServerState
<1>11. ASSUME NEW s, FailStart(s) PROVE ServerState'
  BY <1>1, <1>11 DEF FailStart, ServerState
<1>12. CoolDown \/ Shutdown => ServerState'
  BY <1>1 DEF CoolDown, Shutdown, ServerState
<1>13. UNCHANGED sidecarVars => UNCHANGED server
  BY DEF sidecarVars
<1> QED BY <1>2, <1>3, <1>4, <1>5, <1>6, <1>7, <1>8, <1>9, <1>10, <1>11, <1>12, <1>13 DEF SidecarNext

(* No download writes past a model's size, and no process or measurement   *)
(* is of a start that never was (download_model, start_server_task).       *)
THEOREM SidecarTypeCorrect == SidecarSpec => []SidecarTypeOK
<1>1. SidecarInit => FileTypes /\ ServerState
  <2>1. NoFile \in ModelFile /\ Downloaded \in ModelFile /\ Idle \in Transfer
    BY SidecarAssumption DEF NoFile, Downloaded, Idle, ModelFile, Transfer
  <2> QED BY <2>1 DEF SidecarInit, FileTypes, ServerState
<1>2. SidecarInv /\ FileTypes /\ ServerState => SidecarTypeOK
  BY DEF SidecarInv, ServerTypes, FileTypes, ServerState, ModelFile, Transfer, SidecarTypeOK
<1>3. SidecarInv => ServerTypes
  BY DEF SidecarInv
<1> QED BY SidecarStarts, SidecarStep, FileTypesStep, ServerStateStep, <1>1, <1>2, <1>3, PTL
       DEF SidecarSpec
-----------------------------------------------------------------------------
(* The rest of the types of the alerts.                                    *)
TaskRest(t) ==
  /\ t.phase \in {"none", "pick", "gauge", "look", "record", "over"}
  /\ t.scopes \in Seq(Scopes) /\ t.levels \in Seq(LevelSet) /\ t.unsent \subseteq Crossings
  /\ t.phase \in {"look", "record"} => t.scopes # <<>>
  /\ t.phase = "record" => t.levels # <<>>

AlertRest ==
  /\ today \in 0..LastDay /\ crashes \in 0..MaxCrashes
  /\ standing \in [Debits -> {"absent", "booked", "contested", "deleted"}]
  /\ flagged \subseteq Debits /\ offline \subseteq Debits
  /\ alerts \subseteq [scope : Scopes, level : LevelSet, on : 0..LastDay]
  /\ \A s \in Statements : TaskRest(checks[s])

LEMMA QuotientGrows ==
  ASSUME NEW d \in Nat, NEW e \in Nat, d <= e, NEW n \in Nat \ {0}
  PROVE  d \div n \in 0 .. (e \div n)
<1> DEFINE q == d \div n
           r == e \div n
<1>1. q \in Int /\ r \in Int /\ 0 <= q
  OBVIOUS
<1>2. n * q <= d /\ e < n * r + n /\ n * q \in Int /\ n * r \in Int
  OBVIOUS
<1> HIDE DEF q, r
<1>3. ASSUME r + 1 <= q PROVE FALSE
  <2>1. n * (r + 1) <= n * q
    BY <1>1, <1>3
  <2>2. n * (r + 1) = n * r + n
    BY <1>1
  <2> QED BY <1>2, <2>1, <2>2
<1>4. q \in 0 .. r
  BY <1>1, <1>3
<1> QED BY <1>4 DEF q, r

LEMMA LevelsReachedTypes ==
  ASSUME NEW scope, NEW p
  PROVE  LevelsReached(scope, p) \in Seq(LevelSet)
<1> DEFINE reached == {i \in DOMAIN Levels : 100 * SpendInMonth(scope, p) >= Levels[i] * Limit[scope]}
<1>1. Levels \in Seq(LevelSet) /\ DOMAIN Levels = 1 .. Len(Levels) /\ Len(Levels) \in Nat
  BY AlertsAssumption DEF LevelSet, ToSet
<1>2. reached \subseteq 1 .. Len(Levels)
  BY <1>1
<1>3. IsFiniteSet(1 .. Len(Levels)) /\ Cardinality(1 .. Len(Levels)) = Len(Levels)
  BY <1>1, FS_Interval
<1>4. Cardinality(reached) \in 0 .. Len(Levels)
  BY <1>2, <1>3, FS_Subset, FS_CardinalityType
<1> HIDE DEF reached
<1>5. SubSeq(Levels, 1, Cardinality(reached)) \in Seq(LevelSet)
  BY <1>1, <1>4
<1> QED BY <1>5 DEF LevelsReached, reached

(* A task takes the next step of its types.                                *)
LEMMA TaskStepTypes ==
  ASSUME AlertInv, AlertRest, NEW s \in Statements, NEW t, TaskRest(t), Task(s, t)
  PROVE  \A u \in Statements : TaskRest(checks[u])'
<1>1. \A r : TaskRest(r)' <=> TaskRest(r)
  BY DEF TaskRest
<1>2. \A u \in Statements : checks'[u] = IF u = s THEN t ELSE checks[u]
  BY DEF Task, AlertInv, AlertTypes
<1> QED BY <1>1, <1>2 DEF AlertRest

LEMMA TaskKeepsTypes ==
  ASSUME AlertInv, AlertRest, NEW s \in Statements, AlertTask(s)
  PROVE  AlertRest'
<1> DEFINE t == checks[s]
           ended == [NotSpawned EXCEPT !.phase = "over"]
<1>1. TaskOK(t) /\ TaskRest(t)
  BY DEF AlertInv, AlertTypes, AlertRest
<1>2. TaskRest(ended)
  BY DEF TaskRest, NotSpawned
<1>3. TaskRest(NextLine(t))
  BY <1>1 DEF TaskRest, TaskOK, TaskFields, NextLine
<1>4. UNCHANGED <<today, standing, offline, crashes>>
  BY DEF AlertTask, Pick, Gauge, Look, RecordAlert, Conclude, Fail, bookings
<1>5. t.todo # <<>> => Looking(s) \in Debits
  BY <1>1 DEF TaskOK, Looking
<1>6. CASE Pick(s)
  <2>1. CASE t.todo # <<>> /\ ~(Looking(s) \in flagged \/ standing[Looking(s)] = "absent")
    <3>1. PICK q : q = (IF CategoryOf[Looking(s)] = NoCategory THEN <<>> ELSE <<CategoryOf[Looking(s)]>>)
                         \o <<Global>>
      OBVIOUS
    <3>2. q \in Seq(Scopes)
      BY <1>5, <2>1, <3>1 DEF Scopes
    <3>3. PICK r : r = [t EXCEPT !.phase = "gauge", !.scopes = q]
      OBVIOUS
    <3>4. Task(s, r)
      BY <1>6, <2>1, <3>1, <3>3 DEF Pick
    <3>5. TaskRest(r)
      BY <1>1, <3>2, <3>3 DEF TaskRest, TaskOK, TaskFields
    <3> QED BY <1>4, <1>6, <3>4, <3>5, TaskStepTypes DEF AlertRest, Pick
  <2>2. Task(s, ended) \/ Task(s, NextLine(t)) \/ (t.todo # <<>> /\ ~(Looking(s) \in flagged \/ standing[Looking(s)] = "absent"))
    BY <1>6 DEF Pick
  <2> QED BY <1>2, <1>3, <1>4, <1>6, <2>1, <2>2, TaskStepTypes DEF AlertRest, Pick
<1>7. CASE Gauge(s)
  <2>1. PICK q : q = LevelsReached(Head(t.scopes), Looking(s))
    OBVIOUS
  <2>2. PICK r : r = [t EXCEPT !.phase = "look", !.levels = q]
    OBVIOUS
  <2>3. Task(s, r)
    BY <1>7, <2>1, <2>2 DEF Gauge
  <2>4. TaskRest(r)
    BY <1>1, <1>7, <2>1, <2>2, LevelsReachedTypes DEF TaskRest, TaskOK, TaskFields, Gauge
  <2> QED BY <1>4, <1>7, <2>3, <2>4, TaskStepTypes DEF AlertRest, Gauge
<1>8. CASE Look(s)
  <2> DEFINE passed == [t EXCEPT !.phase = "gauge", !.scopes = Tail(t.scopes)]
             known  == [t EXCEPT !.levels = Tail(t.levels)]
             found  == [t EXCEPT !.phase = "record"]
  <2>1. /\ t.phase = "look"
        /\ \/ t.levels = <<>> /\ Task(s, passed)
           \/ t.levels # <<>> /\ (Task(s, known) \/ Task(s, found))
    BY <1>8 DEF Look
  <2>2. TaskRest(passed) /\ (t.levels # <<>> => TaskRest(known) /\ TaskRest(found))
    BY <1>1, <2>1 DEF TaskRest, TaskOK, TaskFields
  <2> QED BY <1>4, <1>8, <2>1, <2>2, TaskStepTypes DEF AlertRest, Look
<1>9. CASE RecordAlert(s)
  <2>1. PICK k : k = <<Head(t.scopes), Head(t.levels), Month(DayOf[Looking(s)])>>
    OBVIOUS
  <2>2. PICK r : r = [t EXCEPT !.phase = "look", !.levels = Tail(t.levels), !.unsent = t.unsent \cup {k}]
    OBVIOUS
  <2>3. /\ Task(s, r) /\ UNCHANGED flagged /\ t.phase = "record"
        /\ alerts' = alerts \cup {[scope |-> k[1], level |-> k[2], on |-> today]}
    BY <1>9, <2>1, <2>2 DEF RecordAlert
  <2>4. k[1] \in Scopes /\ k[2] \in LevelSet
    BY <1>1, <2>1, <2>3 DEF TaskRest
  <2>5. Month(DayOf[Looking(s)]) \in Months
    <3>1. DayOf[Looking(s)] \in Nat /\ DayOf[Looking(s)] <= today
      <4>1. t.todo \in Seq(Debits) /\ t.todo # <<>> /\ \A i \in 1 .. Len(t.todo) : DayOf[t.todo[i]] <= today
        BY <1>1, <2>3 DEF TaskOK
      <4>2. Looking(s) = t.todo[1] /\ 1 \in 1 .. Len(t.todo)
        BY <4>1 DEF Looking
      <4> QED BY <1>5, <4>1, <4>2, AlertsAssumption
    <3>2. DayOf[Looking(s)] <= LastDay /\ LastDay \in Nat /\ MonthLength \in Nat \ {0}
      BY <3>1, AlertsAssumption DEF AlertRest
    <3> QED BY <3>1, <3>2, QuotientGrows DEF Month, Months
  <2>6. k \in Crossings
    BY <2>1, <2>4, <2>5 DEF Crossings
  <2>7. TaskRest(r)
    BY <1>1, <2>2, <2>3, <2>6 DEF TaskRest, TaskOK, TaskFields
  <2>8. [scope |-> k[1], level |-> k[2], on |-> today] \in [scope : Scopes, level : LevelSet, on : 0..LastDay]
    BY <2>4 DEF AlertRest
  <2> QED BY <1>4, <2>3, <2>7, <2>8, TaskStepTypes DEF AlertRest
<1>10. CASE Conclude(s)
  <2>1. Task(s, NextLine(t)) /\ UNCHANGED alerts /\ t.phase = "gauge"
        /\ (flagged' = flagged \/ flagged' = flagged \cup {Looking(s)})
    BY <1>10 DEF Conclude
  <2>2. flagged' \subseteq Debits
    BY <1>1, <1>5, <2>1 DEF AlertRest, TaskOK
  <2> QED BY <1>3, <1>4, <2>1, <2>2, TaskStepTypes DEF AlertRest
<1>11. CASE Fail(s)
  BY <1>2, <1>4, <1>11, TaskStepTypes DEF AlertRest, Fail
<1> QED BY <1>6, <1>7, <1>8, <1>9, <1>10, <1>11 DEF AlertTask

LEMMA AlertRestStep ==
  ASSUME AlertInv, AlertRest, [AlertsNext]_alertVars
  PROVE  AlertRest'
<1>1. \A t : TaskRest(t)' <=> TaskRest(t)
  BY DEF TaskRest
<1>2. ASSUME NEW s \in Statements, CommitLines(s) PROVE AlertRest'
  <2>1. PICK r : r = [NotSpawned EXCEPT !.phase = "pick", !.todo = LinesOf[s]]
    OBVIOUS
  <2>2. TaskRest(r)
    BY <2>1 DEF TaskRest, NotSpawned
  <2>3. Task(s, r)
    BY <1>2, <2>1 DEF CommitLines
  <2>4. standing' \in [Debits -> {"absent", "booked", "contested", "deleted"}]
    BY <1>2 DEF CommitLines, AlertRest
  <2> QED BY <1>2, <2>2, <2>3, <2>4, TaskStepTypes DEF CommitLines, AlertRest
<1>3. ASSUME NEW p \in Debits, BookFromMail(p) \/ Settle(p) PROVE AlertRest'
  BY <1>1, <1>3 DEF BookFromMail, Settle, AlertRest
<1>4. CASE WarnOffline
  BY <1>1, <1>4 DEF WarnOffline, AlertRest, bookings
<1>5. CASE NextDay
  <2>1. today' \in 0..LastDay
    BY <1>5, AlertsAssumption DEF NextDay, AlertRest
  <2> QED BY <1>1, <1>5, <2>1 DEF NextDay, AlertRest
<1>6. CASE QuitAlerts
  <2>1. PICK ended : ended = [NotSpawned EXCEPT !.phase = "over"]
    OBVIOUS
  <2>2. TaskRest(ended)
    BY <2>1 DEF TaskRest, NotSpawned
  <2>3. \A s \in Statements : checks'[s] = ended \/ checks'[s] = checks[s]
    BY <1>6, <2>1 DEF QuitAlerts
  <2>4. crashes' \in 0..MaxCrashes
    BY <1>6, AlertsAssumption DEF QuitAlerts, AlertRest
  <2> QED BY <1>1, <1>6, <2>2, <2>3, <2>4 DEF QuitAlerts, AlertRest, bookings
<1>7. CASE UNCHANGED alertVars
  BY <1>1, <1>7 DEF alertVars, bookings, AlertRest
<1> QED BY <1>2, <1>3, <1>4, <1>5, <1>6, <1>7, TaskKeepsTypes DEF AlertsNext

(* What is recorded and announced is of a scope, a level and a month, of a *)
(* day that has come (check_threshold_bands, record_threshold_fired).      *)
THEOREM AlertsTypeCorrect == AlertsSpec => []AlertsTypeOK
<1>1. AlertsInit => AlertRest
  <2> SUFFICES ASSUME AlertsInit PROVE AlertRest
    OBVIOUS
  <2>1. TaskRest(NotSpawned)
    BY DEF TaskRest, NotSpawned
  <2> QED BY <2>1, AlertsAssumption DEF AlertsInit, AlertRest
<1>2. AlertInv /\ AlertRest => AlertsTypeOK
  BY DEF AlertInv, AlertTypes, AlertRest, TaskRest, Crossings, AlertsTypeOK
<1> QED BY AlertsStart, AlertsStep, AlertRestStep, <1>1, <1>2, PTL DEF AlertsSpec
-----------------------------------------------------------------------------
(* The rest of the types of the gates.                                     *)
IgnoredRows == [letter : Letters, until : Nat]

Noting ==
  /\ ignored \subseteq IgnoredRows /\ batch.ignored \subseteq IgnoredRows /\ clock \in Nat
  /\ \E S : batch.sighted \in Seq(S)
  /\ \A d \in Domains : /\ sightings[d].seen \in Nat /\ sightings[d].passed \in Nat
                        /\ sightings[d].passed <= sightings[d].seen

Entered ==
  /\ \A l \in enriching : l \in Letters /\ held[l] # "no"
  /\ stored \subseteq Letters /\ \A res \in handed : res.letter \in Letters

LEMMA SightingsCount ==
  ASSUME Noting, NEW S, NEW notes \in Seq(S), sightings' = RecordSightings(sightings, notes),
         NEW d \in Domains
  PROVE  /\ sightings'[d].seen \in Nat /\ sightings'[d].passed \in Nat
         /\ sightings'[d].passed <= sightings'[d].seen
<1> DEFINE mine   == {n \in DOMAIN notes : notes[n].domain = d}
           passed == {n \in mine : notes[n].kind \in {"transaction", "statement", "noise"}}
<1>1. CASE mine = {}
  <2>1. sightings'[d] = sightings[d]
    BY <1>1 DEF RecordSightings
  <2> QED BY <2>1 DEF Noting
<1>2. CASE mine # {}
  <2>1. IsFiniteSet(1 .. Len(notes)) /\ mine \subseteq 1 .. Len(notes) /\ passed \subseteq mine
    BY FS_Interval
  <2>2. IsFiniteSet(mine) /\ Cardinality(mine) \in Nat /\ Cardinality(passed) \in Nat
        /\ Cardinality(passed) <= Cardinality(mine)
    <3> HIDE DEF mine, passed
    <3> QED BY <2>1, FS_Subset, FS_CardinalityType
  <2>3. sightings'[d] = [seen |-> sightings[d].seen + Cardinality(mine), last |-> notes[Max(mine)].kind,
                         passed |-> sightings[d].passed + Cardinality(passed)]
    BY <1>2 DEF RecordSightings
  <2> HIDE DEF mine, passed
  <2>4. sightings'[d].seen = sightings[d].seen + Cardinality(mine)
        /\ sightings'[d].passed = sightings[d].passed + Cardinality(passed)
    BY <2>3
  <2> QED BY <2>2, <2>4 DEF Noting
<1> QED BY <1>1, <1>2

LEMMA IgnoredRowType ==
  ASSUME Noting, NEW l \in Letters
  PROVE  IgnoredRow(l) \in IgnoredRows
BY GatesAssumption DEF Noting, IgnoredRow, IgnoredRows

LEMMA NoteTypes ==
  ASSUME Noting, NEW r, NEW S, NEW sighted \in Seq(S), NEW turned, NEW passed \in SUBSET IgnoredRows,
         Note(r, sighted, turned, passed), UNCHANGED clock
  PROVE  Noting'
<1> DEFINE notes == [sighted |-> sighted, turned |-> turned, ignored |-> passed]
<1>1. CASE r = "scan"
  <2>1. Collect(notes)
    BY <1>1 DEF Note
  <2>2. /\ batch'.sighted = batch.sighted \o sighted /\ batch'.ignored = batch.ignored \cup passed
        /\ UNCHANGED <<sightings, ignored>>
    BY <2>1 DEF Collect
  <2>3. PICK T : batch.sighted \in Seq(T)
    BY DEF Noting
  <2>4. batch.sighted \in Seq(S \cup T) /\ sighted \in Seq(S \cup T)
    BY <2>3
  <2>5. batch'.sighted \in Seq(S \cup T)
    BY <2>2, <2>4
  <2> QED BY <2>2, <2>5 DEF Noting
<1>2. CASE r # "scan"
  <2>1. StoreNotes(notes) /\ batch' = batch
    BY <1>2 DEF Note
  <2>2. sightings' = RecordSightings(sightings, sighted) /\ ignored' = ignored \cup passed
    BY <2>1 DEF StoreNotes
  <2> QED BY <2>1, <2>2, SightingsCount DEF Noting
<1> QED BY <1>1, <1>2

LEMMA FlushTypes == ASSUME Noting, FlushBatch PROVE Noting'
<1>1. /\ sightings' = RecordSightings(sightings, batch.sighted) /\ ignored' = ignored \cup batch.ignored
      /\ batch' = NothingNoted /\ UNCHANGED clock
  BY DEF FlushBatch, StoreNotes
<1>2. PICK S : batch.sighted \in Seq(S)
  BY DEF Noting
<1>3. batch'.sighted \in Seq(S) /\ batch'.ignored = {}
  BY <1>1 DEF NothingNoted
<1> QED BY <1>1, <1>2, <1>3, SightingsCount DEF Noting

LEMMA SenderTypes ==
  ASSUME Gated, Noting, NEW r \in {"poll", "scan"}, JudgeSender(r)
  PROVE  Noting'
<1> DEFINE l       == desk[r].letter
           verdict == EvaluateMetadataGate(l)
           turned  == verdict.kind \in {"unverified", "spoof"}
           sighted == [domain |-> CHOOSE d \in AddressDomain(l) : TRUE, kind |-> verdict.kind,
                       candidate |-> turned /\ SubjectLooksLikeTransaction(l)]
           notice  == IF AddressDomain(l) = {} THEN <<>> ELSE <<sighted>>
<1>1. l \in Letters /\ UNCHANGED clock
  BY DEF JudgeSender, Gated, Desked
<1>2. notice \in Seq({sighted})
  <2>1. \A x : <<>> \in Seq({x}) /\ <<x>> \in Seq({x})
    OBVIOUS
  <2> HIDE DEF sighted
  <2> QED BY <2>1, Zenon
<1>4. \E t : Note(r, notice, t, {}) \/ Note(r, notice, t, {IgnoredRow(l)})
  BY DEF JudgeSender, Prejudge
<1>5. {} \in SUBSET IgnoredRows /\ {IgnoredRow(l)} \in SUBSET IgnoredRows
  BY <1>1, IgnoredRowType
<1> HIDE DEF notice
<1> QED BY <1>1, <1>2, <1>4, <1>5, NoteTypes

LEMMA ContentTypes ==
  ASSUME Gated, Noting, Entered, NEW r \in {"poll", "scan"}, JudgeContent(r)
  PROVE  Noting' /\ Entered'
<1> DEFINE l     == desk[r].letter
           class == ContentClass(l)
<1>1. l \in Letters /\ UNCHANGED <<clock, stored>> /\ DOMAIN held = Letters
  BY DEF JudgeContent, Gated, Desked, Recorded
<1>2. <<>> \in Seq({}) /\ {} \in SUBSET IgnoredRows /\ {IgnoredRow(l)} \in SUBSET IgnoredRows
  BY <1>1, IgnoredRowType
<1>3. ASSUME NEW t, Note(r, <<>>, t, {}) \/ Note(r, <<>>, t, {IgnoredRow(l)}) PROVE Noting'
  BY <1>1, <1>2, <1>3, NoteTypes
<1>4. ASSUME UNCHANGED <<batch, sightings, ignored>> PROVE Noting'
  BY <1>1, <1>4 DEF Noting
<1>5. ASSUME NEW as, NEW amount, NEW bank, Hand(l, as, amount, bank), UNCHANGED <<held, enriching>>
      PROVE  Entered'
  <2> DEFINE res == [letter |-> l, as |-> as, amount |-> amount, bank |-> bank]
  <2>1. res.letter = l /\ handed' = handed \cup {res}
    BY <1>5 DEF Hand
  <2> HIDE DEF res, l
  <2> QED BY <1>1, <1>5, <2>1 DEF Entered
<1>6. ASSUME NEW reason, reason # "no", NEW eligible, RecordUnassigned(l, reason, eligible), UNCHANGED handed
      PROVE  Entered'
  BY <1>1, <1>6 DEF RecordUnassigned, Entered
<1>7. ASSUME UNCHANGED <<held, enriching, handed>> PROVE Entered'
  BY <1>1, <1>7 DEF Entered
<1>8. CASE /\ UNCHANGED <<held, enriching, handed>>
           /\ \E t : Note(r, <<>>, t, {}) \/ Note(r, <<>>, t, {IgnoredRow(l)})
  BY <1>3, <1>7, <1>8
<1>9. CASE /\ Hand(l, class, {}, desk[r].bank)
           /\ UNCHANGED <<batch, sightings, ignored, held, enriching>>
  BY <1>4, <1>5, <1>9
<1>10. CASE TakeReading(r, l, class)
  <2>1. PICK read \in Reading[l] :
          LET tidied == Tidied({Delivered[l]}, class, read)
              reason == Gate3FailureReason(tidied)
          IN \/ /\ Hand(l, class, tidied.amount, desk[r].bank)
                /\ UNCHANGED <<batch, sightings, ignored, held, enriching>>
             \/ /\ Note(r, <<>>, {<<l, reason>>}, {}) /\ UNCHANGED handed
                /\ \E llm \in BOOLEAN : RecordUnassigned(l, reason, llm)
    <3> HIDE DEF l, class
    <3> QED BY <1>10 DEF TakeReading
  <2>2. Gate3FailureReason(Tidied({Delivered[l]}, class, read)) # "no"
    BY DEF Gate3FailureReason
  <2> HIDE DEF l, class
  <2> QED BY <1>3, <1>4, <1>5, <1>6, <2>1, <2>2
<1>11. CASE NothingRead(r, l)
  <2>1. PICK reason \in {"pending_llm_enrichment", "extraction_failed"} :
          Note(r, <<>>, {<<l, reason>>}, {}) /\ RecordUnassigned(l, reason, TRUE) /\ UNCHANGED handed
    <3> HIDE DEF l
    <3> QED BY <1>11 DEF NothingRead
  <2> QED BY <1>3, <1>6, <2>1
<1>12. \/ UNCHANGED <<held, enriching, handed>> /\ \E t : Note(r, <<>>, t, {}) \/ Note(r, <<>>, t, {IgnoredRow(l)})
       \/ Hand(l, class, {}, desk[r].bank) /\ UNCHANGED <<batch, sightings, ignored, held, enriching>>
       \/ TakeReading(r, l, class) \/ NothingRead(r, l)
  BY DEF JudgeContent
<1> QED BY <1>8, <1>9, <1>10, <1>11, <1>12

LEMMA GatesTypesStep ==
  ASSUME Gated, Noting, Entered, [GatesNext]_gateVars
  PROVE  Noting' /\ Entered'
<1>1. DOMAIN desk = {"poll", "scan"}
  BY DEF Gated, Desked
<1>2. ASSUME UNCHANGED <<batch, sightings, ignored, clock>> PROVE Noting'
  BY <1>2 DEF Noting
<1>3. ASSUME UNCHANGED <<held, enriching, handed, stored>> PROVE Entered'
  BY <1>3 DEF Entered
<1>4. ASSUME NEW r \in {"poll", "scan"}, JudgeSender(r) PROVE Noting' /\ Entered'
  BY <1>3, <1>4, SenderTypes DEF JudgeSender
<1>5. ASSUME NEW r \in {"poll", "scan"}, PutBack(r) \/ \E l \in Letters : PickUp(r, l)
      PROVE  Noting' /\ Entered'
  BY <1>2, <1>3, <1>5 DEF PutBack, PickUp
<1>6. CASE FlushBatch
  BY <1>3, <1>6, FlushTypes DEF FlushBatch
<1>7. CASE LoseBatch \/ QuitReading
  <2>1. batch' = NothingNoted /\ UNCHANGED <<sightings, ignored, clock>>
    BY <1>7 DEF LoseBatch, QuitReading
  <2>2. batch'.sighted \in Seq({}) /\ batch'.ignored = {}
    BY <2>1 DEF NothingNoted
  <2> QED BY <1>3, <1>7, <2>1, <2>2 DEF Noting, LoseBatch, QuitReading
<1>8. CASE PurgeExpired
  <2>1. clock' \in Nat /\ ignored' \subseteq ignored /\ UNCHANGED <<batch, sightings>>
    BY <1>8 DEF PurgeExpired, Noting
  <2> QED BY <1>3, <1>8, <2>1 DEF Noting, PurgeExpired
<1>9. ASSUME NEW res \in handed, StoreHanded(res) PROVE Noting' /\ Entered'
  BY <1>2, <1>9 DEF StoreHanded, Entered
<1>10. ASSUME NEW d \in Domains, RevertOverride(d) \/ \E b \in UserBanks : ReportWrongBank(d, b)
       PROVE  Noting' /\ Entered'
  BY <1>2, <1>3, <1>10 DEF RevertOverride, ReportWrongBank
<1>11. CASE UNCHANGED gateVars
  BY <1>2, <1>3, <1>11 DEF gateVars
<1> QED BY <1>1, <1>4, <1>5, <1>6, <1>7, <1>8, <1>9, <1>10, <1>11, ContentTypes DEF GatesNext

(* No domain passed more often than it was seen, and a letter waits for    *)
(* the background layer only with its entry parked (record_sighting,       *)
(* record_unassigned).                                                     *)
THEOREM GatesTypeCorrect == GatesSpec => []GatesTypeOK
<1>1. GatesInit => Noting /\ Entered
  <2> SUFFICES ASSUME GatesInit PROVE Noting /\ Entered
    OBVIOUS
  <2>1. batch.sighted \in Seq({}) /\ batch.ignored = {}
    BY DEF GatesInit, NothingNoted
  <2> QED BY <2>1 DEF GatesInit, Noting, Entered
<1>2. Gated /\ Noting /\ Entered => GatesTypeOK
  BY DEF Gated, Desked, Noting, Entered, IgnoredRows, GatesTypeOK
<1> QED BY InitGated, GatedStep, GatesTypesStep, <1>1, <1>2, PTL DEF GatesSpec
===============================================================================
