------------------------------ MODULE KeyCustody ------------------------------
(***************************************************************************)
(* Who can open the database: the base key in the keychain, the key that   *)
(* is derived from it and the machine (src/src-tauri/src/db/crypto.rs),    *)
(* the launch with its backup and migrations (db/mod.rs, lib.rs), backups  *)
(* and their return, the recovery phrase and the deletion of the account   *)
(* (commands).                                                             *)
(*                                                                         *)
(* A sealed file is the base key and the machine its key was derived from, *)
(* and whether it passes the integrity check.  The user may clear the      *)
(* keychain and move to another machine; what the file holds is data.      *)
(***************************************************************************)
EXTENDS Integers, Sequences, TLC

CONSTANTS Keys,       \* base keys that may be generated
          Machines,   \* hardware UUIDs
          NoKey,      \* an empty keychain, a file, marker or phrase that is not there
          Retained,   \* PRE_MIGRATION_BACKUP_RETENTION
          MaxHarm     \* bound: cleared keychains, moves and corruptions

ASSUME CustodyAssumption ==
  NoKey \notin Keys \cup Machines /\ Retained \in Nat \ {0} /\ MaxHarm \in Nat

VARIABLES keychain,  \* the base key of the keychain
          machine,   \* the hardware UUID of this machine
          marker,    \* hw_uuid_marker.txt
          file,      \* finance.db
          daily,     \* backups/finance.db.daily.bak
          kept,      \* finance.db.bak.<time>, oldest first
          phrase,    \* the base key whose recovery phrase the user wrote down
          minted,    \* base keys generated so far
          stage,     \* how far the application has come
          parted,    \* history: how the file came to be without its key, "no" if it did not
          harm       \* bound

secrets     == <<keychain, phrase, minted>>
copies      == <<daily, kept>>
custodyVars == <<secrets, machine, marker, file, copies, stage, parted, harm>>

Sealed == [key : Keys, on : Machines, sound : BOOLEAN]

CustodyInit ==
  /\ keychain = NoKey /\ phrase = NoKey /\ minted = {}
  /\ machine \in Machines /\ marker = NoKey
  /\ file = NoKey /\ daily = NoKey /\ kept = <<>>
  /\ stage = "off" /\ parted = "no" /\ harm = 0

Opens(sealed, key) == sealed # NoKey /\ sealed.key = key /\ sealed.on = machine

(* get_or_create_base_key, which every derivation of the key begins with.  *)
BaseKey ==
  IF keychain # NoKey THEN UNCHANGED <<keychain, minted>>
  ELSE \E k \in Keys \ minted : keychain' = k /\ minted' = minted \cup {k}

-----------------------------------------------------------------------------
(* The launch, whose steps may each be the last.                           *)

StartUp ==
  /\ stage = "off"
  /\ BaseKey
  /\ stage' = "opening"
  /\ UNCHANGED <<phrase, machine, marker, file, copies, parted, harm>>

(* Only the file's own key opens it; a file of another machine is sealed   *)
(* anew, and any other ends the launch with KeyMismatch.                   *)
Moved ==
  file # NoKey /\ marker \notin {NoKey, machine} /\ file.key = keychain /\ file.on = marker

OpenFile ==
  /\ stage = "opening"
  /\ CASE file = NoKey ->
            /\ file' = [key |-> keychain, on |-> machine, sound |-> TRUE]
            /\ stage' = "opened"
       [] Opens(file, keychain) -> stage' = "opened" /\ UNCHANGED file
       [] Moved -> file' = [file EXCEPT !.on = machine] /\ stage' = "rekeyed"
       [] OTHER -> stage' = "off" /\ UNCHANGED file
  /\ UNCHANGED <<secrets, machine, marker, copies, parted, harm>>

MarkMachine(ok) ==
  /\ stage = "rekeyed"
  /\ marker' = IF ok THEN machine ELSE marker
  /\ stage' = "opened"
  /\ UNCHANGED <<secrets, machine, file, copies, parted, harm>>

Latest(backups) == IF Len(backups) > Retained THEN Tail(backups) ELSE backups

(* A copy that does not open or is not sound would stop the migration; one *)
(* of a sound file, made with its key, is neither.                         *)
CreatePreMigrationBackup == kept' = Latest(Append(kept, file))

BackUpFirst ==
  /\ stage = "opened" /\ file.sound
  /\ CreatePreMigrationBackup
  /\ stage' = "migrating"
  /\ UNCHANGED <<secrets, machine, marker, file, daily, parted, harm>>

(* At a launch a backup is copied over the file, which is not atomic: cut  *)
(* short, it leaves an empty file, which opens as a new one, or the first  *)
(* pages of the backup; no block that is copied is shorter than a page.    *)
TornCopies(backup) == {NoKey, [backup EXCEPT !.sound = FALSE]}

RestoreBackupFile(backup) ==
  /\ \/ file' = backup /\ stage' = "opening"
     \/ file' \in TornCopies(backup) /\ stage' = "off"
  /\ parted' = IF file' = NoKey THEN "no" ELSE IF Opens(backup, keychain) THEN parted ELSE "older"

(* A corrupted file is replaced by the daily backup, unverified, or the    *)
(* application exits.                                                      *)
ReplaceCorrupted ==
  /\ stage = "opened" /\ ~file.sound
  /\ \/ daily # NoKey /\ RestoreBackupFile(daily)
     \/ stage' = "off" /\ UNCHANGED <<file, parted>>
  /\ UNCHANGED <<secrets, machine, marker, copies, harm>>

(* The migrations succeed; or they fail, and the user has the backup put   *)
(* back or the application exits.                                          *)
Migrate(ok) ==
  /\ stage = "migrating"
  /\ IF ok THEN marker' = machine /\ stage' = "running" /\ UNCHANGED <<file, parted>>
     ELSE /\ UNCHANGED marker
          /\ \/ RestoreBackupFile(kept[Len(kept)])
             \/ stage' = "off" /\ UNCHANGED <<file, parted>>
  /\ UNCHANGED <<secrets, machine, copies, harm>>

-----------------------------------------------------------------------------
(* The running application.                                                *)

WriteDownPhrase ==
  /\ stage = "running"
  /\ BaseKey
  /\ phrase' = keychain'
  /\ UNCHANGED <<machine, marker, file, copies, stage, parted, harm>>

(* Regression: any phrase with a valid checksum is taken. *)
EnterPhraseUnverified(k) ==
  /\ stage = "running"
  /\ keychain' = k
  /\ UNCHANGED <<phrase, minted, machine, marker, file, copies, stage, parted, harm>>

(* A phrase replaces the key in the keychain only if it opens the file.    *)
EnterPhrase(k) ==
  /\ stage = "running" /\ Opens(file, k)
  /\ keychain' = k
  /\ parted' = "no"
  /\ UNCHANGED <<phrase, minted, machine, marker, file, copies, stage, harm>>

BackUpDaily ==
  /\ stage = "running"
  /\ daily' = file
  /\ BaseKey
  /\ UNCHANGED <<phrase, machine, marker, file, kept, stage, parted, harm>>

(* Regression: the backup is put back without opening it first. *)
RestoreUnverified ==
  /\ stage = "running" /\ daily # NoKey
  /\ file' = daily
  /\ stage' = "off"
  /\ UNCHANGED <<secrets, machine, marker, copies, parted, harm>>

VerifyBackupIntegrity(backup, key) == Opens(backup, key) /\ backup.sound

(* The daily backup is put back once it opened and passed the check.       *)
RestoreDaily ==
  /\ stage = "running" /\ daily # NoKey
  /\ BaseKey
  /\ IF VerifyBackupIntegrity(daily, keychain')
     THEN file' = daily /\ stage' = "off"
     ELSE UNCHANGED <<file, stage>>
  /\ UNCHANGED <<phrase, machine, marker, copies, parted, harm>>

(* The key goes first, then the files.                                     *)
DeleteKey ==
  /\ stage = "running"
  /\ keychain' = NoKey /\ stage' = "wiping" /\ parted' = "deleted"
  /\ UNCHANGED <<phrase, minted, machine, marker, file, copies, harm>>

DeleteFiles ==
  /\ stage = "wiping"
  /\ file' = NoKey /\ daily' = NoKey /\ kept' = <<>>
  /\ stage' = "off" /\ parted' = "no"
  /\ UNCHANGED <<secrets, machine, marker, harm>>

StopRunning ==
  /\ stage # "off"
  /\ stage' = "off"
  /\ UNCHANGED <<secrets, machine, marker, file, copies, parted, harm>>

-----------------------------------------------------------------------------
(* What happens to the machine.                                            *)

Harm == harm < MaxHarm /\ harm' = harm + 1

(* Not during the seconds of a launch, which has derived its key already.  *)
ClearKeychain ==
  /\ Harm
  /\ stage \in {"off", "running"} /\ keychain # NoKey
  /\ keychain' = NoKey
  /\ parted' = IF file # NoKey /\ parted = "no" THEN "cleared" ELSE parted
  /\ UNCHANGED <<phrase, minted, machine, marker, file, copies, stage>>

(* The user moves on only once the application ran on this machine.        *)
MoveTo(m) ==
  /\ Harm
  /\ stage = "off" /\ marker = machine /\ m # machine
  /\ machine' = m
  /\ UNCHANGED <<secrets, marker, file, copies, stage, parted>>

Corrupt ==
  /\ Harm
  /\ file # NoKey /\ file.sound
  /\ file' = [file EXCEPT !.sound = FALSE]
  /\ UNCHANGED <<secrets, machine, marker, copies, stage, parted>>

-----------------------------------------------------------------------------
LaunchStep == StartUp \/ OpenFile \/ BackUpFirst \/ ReplaceCorrupted
              \/ \E ok \in BOOLEAN : MarkMachine(ok) \/ Migrate(ok)

OwnerStep == WriteDownPhrase \/ BackUpDaily \/ RestoreDaily \/ DeleteKey \/ DeleteFiles
             \/ \E k \in Keys : EnterPhrase(k)

Fate == StopRunning \/ ClearKeychain \/ Corrupt \/ \E m \in Machines : MoveTo(m)

CustodyNext == LaunchStep \/ OwnerStep \/ Fate

CustodySpec == CustodyInit /\ [][CustodyNext]_custodyVars

(* The user launches the application again, some launch is not cut short   *)
(* and migrates, and whoever has a phrase enters it where it is asked for. *)
Perseverance ==
  /\ WF_custodyVars(StartUp) /\ SF_custodyVars(OpenFile) /\ SF_custodyVars(BackUpFirst)
  /\ SF_custodyVars(MarkMachine(TRUE)) /\ SF_custodyVars(Migrate(TRUE))
  /\ SF_custodyVars(ReplaceCorrupted)
  /\ SF_custodyVars(phrase # NoKey /\ EnterPhrase(phrase))

-----------------------------------------------------------------------------
CustodyTypeOK ==
  /\ {keychain, phrase} \subseteq Keys \cup {NoKey} /\ minted \subseteq Keys
  /\ machine \in Machines /\ marker \in Machines \cup {NoKey}
  /\ {file, daily} \subseteq Sealed \cup {NoKey}
  /\ Len(kept) <= Retained /\ \A n \in DOMAIN kept : kept[n] \in Sealed
  /\ stage \in {"off", "opening", "rekeyed", "opened", "migrating", "running", "wiping"}
  /\ parted \in {"no", "cleared", "older", "deleted"} /\ harm \in 0..MaxHarm

(* Whatever a launch, a move, a phrase, a backup that is put back or a     *)
(* crash between their steps leaves behind, the next launch can open: the  *)
(* file is sealed with the key of the keychain, for this machine or for    *)
(* the one the marker names (try_migrate_hardware_uuid,                    *)
(* restore_base_key_from_phrase, db_restore_backup).  It may be parted     *)
(* from its key only by its user, or by a daily backup of an older machine *)
(* that replaces a corrupted file.                                         *)
StaysOpenable ==
  file # NoKey => parted # "no" \/ (file.key = keychain /\ file.on \in {machine, marker})

(* Who wrote down the phrase of a file that no longer opens gets it to     *)
(* open again (the message of KeyMismatch in lib.rs: "To recover your      *)
(* data, use Settings -> Recovery Phrase after the app restarts").         *)
PhraseRecovers ==
  (parted = "cleared" /\ phrase = file.key /\ file.on = machine) ~>
    (parted # "cleared" \/ phrase # file.key)
=============================================================================
