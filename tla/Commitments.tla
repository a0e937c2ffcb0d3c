------------------------------ MODULE Commitments ------------------------------
(***************************************************************************)
(* Instruments and what recurs on them: mandates that mails register and   *)
(* cancel (src/src-tauri/src/extraction/mandate_extractor.rs, the mandate  *)
(* worker of ingestion/queues.rs), payments detected as recurring          *)
(* (extraction/recurring_detector.rs), both in db/recurring_payments.rs,   *)
(* the bill of a card (statements/bill_classifier.rs) and the user's own   *)
(* edits (db/instruments.rs, commands/data.rs).                            *)
(*                                                                         *)
(* An instrument is its natural key.  A mandate mail is its kind, its bank *)
(* and the card, merchant and reference that could be read from it; the    *)
(* payments counted are those of similar amounts.  The payment of nothing  *)
(* that the worker sends on from every mandate mail has no time of its     *)
(* event: with an instrument the engine refuses it (fetch_candidates) and  *)
(* the record is rolled back, without one it waits, and in neither case is *)
(* it booked or counted.  That leaves no trace by which a mail would be    *)
(* known again: it may come in any number of times.                        *)
(***************************************************************************)
EXTENDS Integers, FiniteSets, Sequences, SequencesExt, TLC

CONSTANTS Cards, Merchants, References,
          IssuerOf,    \* the bank of a card
          Unread,      \* a card, a reference or a bank that could not be read; a mail
                       \* with half of a card's key resolves to no card of its bank
          Mails,       \* [kind, card, bank, merchant, ref]
          MinOccurrences, \* payments that make a habit
          MaxPaid,     \* bound: payments of a merchant on a card
          MaxOutages   \* bound: the application quits or has no connection to the database

ASSUME CommitmentsAssumption ==
  /\ Unread \notin Cards \cup References
  /\ \A m \in Mails : /\ m.kind \in {"registration", "cancellation"} /\ m.merchant \in Merchants
                      /\ m.card \in Cards \cup {Unread} /\ m.ref \in References \cup {Unread}
  /\ MinOccurrences \in Nat \ {0} /\ MaxPaid \in Nat /\ MaxOutages \in Nat

VARIABLES cards,       \* "unknown", "live" or "archived"
          bill,        \* statement_due_date and its amounts: is there a bill?
          draft,       \* the card whose row an edit has read
          rows,        \* recurring_payments
          inbox,       \* mandate jobs waiting for the worker
          unresolved,  \* unresolved_mandate_cancellations
          paid,        \* similar payments of a merchant on a card
          outages      \* bound

instruments    == <<cards, bill, draft>>
mandates       == <<inbox, unresolved>>
commitmentVars == <<instruments, rows, mandates, paid, outages>>

CommitmentsInit ==
  /\ cards = [c \in Cards |-> "unknown"] /\ bill = [c \in Cards |-> FALSE] /\ draft = Unread
  /\ rows = <<>>
  /\ inbox = {} /\ unresolved = {}
  /\ paid = [p \in Cards \X Merchants |-> 0]
  /\ outages = 0

RowsOf(card, merchant) == {n \in DOMAIN rows : rows[n].card = card /\ rows[n].merchant = merchant}
Active(some) == {n \in some : rows[n].active}

-----------------------------------------------------------------------------
(* Instruments.                                                            *)

(* The key of an archived instrument stays taken, and resolving it fails.  *)
Usable(card)  == IF card = Unread \/ cards[card] = "archived" THEN Unread ELSE card
Resolve(card) == cards' = IF Usable(card) = Unread THEN cards ELSE [cards EXCEPT ![card] = "live"]

InsertInstrument(card) == cards' = [cards EXCEPT ![card] = "live"]

CreateInstrument(card) ==
  /\ cards[card] = "unknown"
  /\ InsertInstrument(card)
  /\ UNCHANGED <<bill, draft, rows, mandates, paid, outages>>

ArchiveInstrument(card) ==
  /\ cards[card] = "live"
  /\ cards' = [cards EXCEPT ![card] = "archived"]
  /\ UNCHANGED <<bill, draft, rows, mandates, paid, outages>>

(* An edit reads the row and writes every column of it back, the archived  *)
(* flag included, and the bill as it was read or as the user enters it.    *)
ReadInstrument(card) ==
  /\ draft = Unread /\ cards[card] = "live"
  /\ draft' = card
  /\ UNCHANGED <<cards, bill, rows, mandates, paid, outages>>

UpdateInstrument(card, due) ==
  cards' = [cards EXCEPT ![card] = "live"] /\ bill' = [bill EXCEPT ![card] = due]

WriteInstrument ==
  /\ draft # Unread
  /\ \E due \in BOOLEAN : UpdateInstrument(draft, due)
  /\ draft' = Unread
  /\ UNCHANGED <<rows, mandates, paid, outages>>

(* A committed statement resolves its card; it bears an upcoming bill if   *)
(* its period is recent and its due date is ahead.                         *)
CommitBill(card, upcoming) ==
  /\ cards[card] # "archived"
  /\ Resolve(card)
  /\ bill' = IF upcoming THEN [bill EXCEPT ![card] = TRUE] ELSE bill
  /\ UNCHANGED <<draft, rows, mandates, paid, outages>>

-----------------------------------------------------------------------------
(* Mandates.                                                               *)

(* A mail names its card by type, issuer and number; by its issuer alone   *)
(* it means the bank's only card there is, if there is only one.           *)
OnlyCardOf(bank, card) == {c \in Cards : IssuerOf[c] = bank /\ cards[c] = "live"} = {card}

CardOf(m) ==
  IF m.card # Unread THEN Usable(m.card)
  ELSE IF \E c \in Cards : OnlyCardOf(m.bank, c) THEN CHOOSE c \in Cards : OnlyCardOf(m.bank, c)
  ELSE Unread

Arrive(m) ==
  /\ m \notin inbox
  /\ inbox' = inbox \cup {m}
  /\ UNCHANGED <<instruments, rows, unresolved, paid, outages>>

(* A registration replaces the declared arrangement of its pair, cancelled *)
(* or not, or adds one next to what was inferred.                          *)
RegisterMandate(m) ==
  /\ m \in inbox /\ m.kind = "registration"
  /\ inbox' = inbox \ {m}
  /\ Resolve(CardOf(m))
  /\ LET declared == {n \in RowsOf(CardOf(m), m.merchant) : rows[n].source = "explicit"}
         row == [card |-> CardOf(m), merchant |-> m.merchant, source |-> "explicit",
                 ref |-> m.ref, active |-> TRUE]
     IN  rows' = IF CardOf(m) = Unread THEN rows
                 ELSE IF declared = {} THEN Append(rows, row)
                 ELSE [n \in DOMAIN rows |-> IF n \in declared THEN row ELSE rows[n]]
  /\ UNCHANGED <<bill, draft, unresolved, paid, outages>>

(* The active arrangements of the reference or, if it has none, of the     *)
(* pair of card and merchant.                                              *)
Candidates(m) ==
  LET named == {n \in Active(DOMAIN rows) : m.ref # Unread /\ rows[n].ref = m.ref}
  IN  IF named # {} THEN named
      ELSE IF CardOf(m) = Unread THEN {}
      ELSE Active(RowsOf(CardOf(m), m.merchant))

InsertUnresolved(m) == unresolved' = unresolved \cup {m}

CancelMandate(m) ==
  /\ m \in inbox /\ m.kind = "cancellation"
  /\ inbox' = inbox \ {m}
  /\ Resolve(CardOf(m))
  /\ IF Cardinality(Candidates(m)) = 1
     THEN /\ rows' = [n \in DOMAIN rows |-> IF n \in Candidates(m)
                                            THEN [rows[n] EXCEPT !.active = FALSE] ELSE rows[n]]
          /\ UNCHANGED unresolved
     ELSE InsertUnresolved(m) /\ UNCHANGED rows
  /\ UNCHANGED <<bill, draft, paid, outages>>

(* Without a connection a job is gone, and with the application all are.   *)
Outage ==
  /\ outages < MaxOutages /\ inbox # {}
  /\ outages' = outages + 1
  /\ inbox' \in {inbox \ {m} : m \in inbox} \cup {{}}
  /\ UNCHANGED <<instruments, rows, unresolved, paid>>

-----------------------------------------------------------------------------
(* A payment is booked, and its detection, in one transaction, looks for   *)
(* enough others like it.  It brings up to date whatever arrangement there *)
(* is of the pair, without touching its status, or infers one.             *)

Inferred(card, merchant) ==
  [card |-> card, merchant |-> merchant, source |-> "inferred", ref |-> Unread, active |-> TRUE]

(* Regression: a cancelled arrangement does not count as there. *)
DetectUnlessActive(card, merchant) ==
  rows' = IF paid'[<<card, merchant>>] < MinOccurrences \/ Active(RowsOf(card, merchant)) # {}
          THEN rows ELSE Append(rows, Inferred(card, merchant))

Detect(card, merchant) ==
  rows' = IF paid'[<<card, merchant>>] < MinOccurrences \/ RowsOf(card, merchant) # {}
          THEN rows ELSE Append(rows, Inferred(card, merchant))

Pay(card, merchant) ==
  /\ paid[<<card, merchant>>] < MaxPaid /\ cards[card] # "archived"
  /\ paid' = [paid EXCEPT ![<<card, merchant>>] = @ + 1]
  /\ Resolve(card)
  /\ Detect(card, merchant)
  /\ UNCHANGED <<bill, draft, mandates, outages>>

CommitmentsNext ==
  \/ \E m \in Mails : Arrive(m) \/ RegisterMandate(m) \/ CancelMandate(m)
  \/ \E c \in Cards : CreateInstrument(c) \/ ArchiveInstrument(c) \/ ReadInstrument(c)
  \/ \E c \in Cards, upcoming \in BOOLEAN : CommitBill(c, upcoming)
  \/ \E c \in Cards, m \in Merchants : Pay(c, m)
  \/ WriteInstrument \/ Outage

CommitmentsSpec == CommitmentsInit /\ [][CommitmentsNext]_commitmentVars

-----------------------------------------------------------------------------
CommitmentsTypeOK ==
  /\ cards \in [Cards -> {"unknown", "live", "archived"}]
  /\ bill \in [Cards -> BOOLEAN] /\ draft \in Cards \cup {Unread}
  /\ rows \in Seq([card : Cards, merchant : Merchants, source : {"explicit", "inferred"},
                   ref : References \cup {Unread}, active : BOOLEAN])
  /\ inbox \subseteq Mails /\ unresolved \subseteq Mails
  /\ paid \in [Cards \X Merchants -> 0..MaxPaid] /\ outages \in 0..MaxOutages

(* Once all arrangements of a card and a merchant are cancelled, only a    *)
(* mail that registers one anew makes one active: neither the payments     *)
(* that are still booked nor the order of the mails bring it back          *)
(* (mark_cancelled, detect_and_update_recurring).                          *)
CancelledStaysCancelled ==
  [][\A c \in Cards, m \in Merchants :
       (/\ RowsOf(c, m) # {} /\ Active(RowsOf(c, m)) = {}
        /\ \E n \in DOMAIN rows' : rows'[n].card = c /\ rows'[n].merchant = m /\ rows'[n].active)
       => \E mail \in inbox \ inbox' :
            mail.kind = "registration" /\ CardOf(mail) = c /\ mail.merchant = m]_rows
=============================================================================
