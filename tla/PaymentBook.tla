----------------------------- MODULE PaymentBook -----------------------------
(***************************************************************************)
(* What the ledger promises, without saying how it scores, merges or asks: *)
(* a book of payments kept from papers - an alert, a line of a statement,  *)
(* a note of the user's - that come in any order.  A paper is filed once,  *)
(* under an entry it fits, or opens an entry of its own unless one that    *)
(* carries its reference is there already; when in doubt the user is       *)
(* asked.  From then on only the user, and only about papers there was     *)
(* doubt about, moves a paper, and only the user corrects an entry.        *)
(***************************************************************************)
EXTENDS Integers, Sequences

CONSTANTS
  Papers,   \* the papers that may come in
  Says,     \* per paper: instrument, amount, direction, time and reference
  Window,   \* how far the time of a paper may lie from that of its entry
  Near,     \* within less than this, one reference means one payment
  None      \* no reference

VARIABLES
  received, \* papers that came in
  waiting,  \* those of them that have yet to be looked at
  asked,    \* papers the user was asked about
  offered,  \* per paper: the entries the user may choose
  under,    \* per paper: the entry it is filed under, or 0
  book,     \* the entries
  cut       \* the program has died in the middle of something

vars == <<received, waiting, asked, offered, under, book, cut>>
desk == <<received, waiting, asked, offered>>

Apart(a, b) == IF a < b THEN b - a ELSE a - b

SameKind(a, b) ==
  a.instrument = b.instrument /\ a.amount = b.amount /\ a.direction = b.direction

Fits(a, b) == SameKind(a, b) /\ Apart(a.time, b.time) <= Window

(* One payment beyond doubt. *)
SameReference(a, b) ==
  /\ SameKind(a, b) /\ Apart(a.time, b.time) < Near
  /\ a.reference # None /\ a.reference = b.reference

EntryOf(p) ==
  [instrument |-> Says[p].instrument, amount |-> Says[p].amount,
   direction |-> Says[p].direction, time |-> Says[p].time, reference |-> Says[p].reference,
   counted |-> TRUE]

Counted == {n \in DOMAIN book : book[n].counted}

Init ==
  /\ received = {} /\ waiting = {} /\ asked = {} /\ offered = [p \in Papers |-> {}]
  /\ under = [p \in Papers |-> 0] /\ book = <<>> /\ cut = FALSE

-----------------------------------------------------------------------------
(* The clerk looks at a paper that has no place yet, once, unless the      *)
(* program dies before the paper is off the desk.                          *)
TakeUp(p) ==
  /\ under[p] = 0 /\ (p \in received => p \in waiting)
  /\ received' = received \cup {p}
  /\ waiting' \in {waiting, waiting \ {p}}
  /\ p \in waiting' => cut'

Keep(p) ==
  /\ p \notin received
  /\ received' = received \cup {p} /\ waiting' = waiting \cup {p}
  /\ UNCHANGED <<asked, offered, under, book>>

(* The entry keeps what it says, but for a reference it may take over.     *)
File(p, n) ==
  /\ TakeUp(p)
  /\ n \in Counted /\ Fits(Says[p], book[n])
  /\ under' = [under EXCEPT ![p] = n]
  /\ \E r \in {book[n].reference, Says[p].reference} : book' = [book EXCEPT ![n].reference = r]
  /\ UNCHANGED <<asked, offered>>

Write(p) ==
  /\ book' = Append(book, EntryOf(p))
  /\ under' = [under EXCEPT ![p] = Len(book) + 1]

Enter(p) ==
  /\ TakeUp(p)
  /\ \A n \in Counted : ~SameReference(Says[p], book[n])
  /\ Write(p)
  /\ UNCHANGED <<asked, offered>>

(* What is offered fits, or it is only pointed out that there is doubt.    *)
Ask(p) ==
  /\ TakeUp(p)
  /\ asked' = asked \cup {p}
  /\ \E choice \in SUBSET {n \in Counted : Fits(Says[p], book[n])} :
       offered' = [offered EXCEPT ![p] = @ \cup choice]
  /\ UNCHANGED <<under, book>>

Settle(p) ==
  /\ p \in waiting /\ under[p] # 0
  /\ waiting' = waiting \ {p}
  /\ UNCHANGED <<received, asked, offered, under, book>>

-----------------------------------------------------------------------------
(* The user. *)

Choose(p, n) ==
  /\ p \in asked /\ n \in offered[p]
  /\ under' = [under EXCEPT ![p] = n]
  /\ UNCHANGED <<desk, book>>

Separate(p) == p \in asked /\ Write(p) /\ UNCHANGED desk

(* Cut short, a verdict may leave an entry that no paper stands under.     *)
HalfSeparate(p) ==
  /\ p \in asked /\ cut'
  /\ book' = Append(book, EntryOf(p))
  /\ UNCHANGED <<desk, under>>

Correct(n) ==
  /\ n \in Counted
  /\ Len(book') = Len(book) /\ \A m \in DOMAIN book \ {n} : book'[m] = book[m]
  /\ book'[n].counted /\ book'[n].reference = book[n].reference
  /\ UNCHANGED <<desk, under>>

Remove(n) ==
  /\ n \in Counted
  /\ book' = [book EXCEPT ![n].counted = FALSE]
  /\ UNCHANGED <<desk, under>>

Die == cut' /\ UNCHANGED <<desk, under, book>>

-----------------------------------------------------------------------------
Clerk(p) == Keep(p) \/ Enter(p) \/ Ask(p) \/ Settle(p) \/ \E n \in Counted : File(p, n)

Verdict(p) == Separate(p) \/ HalfSeparate(p) \/ \E n \in offered[p] : Choose(p, n)

Next ==
  /\ cut' \in BOOLEAN /\ (cut => cut')
  /\ \/ \E p \in Papers : Clerk(p) \/ Verdict(p)
     \/ \E n \in Counted : Correct(n) \/ Remove(n)
     \/ Die

Spec == Init /\ [][Next]_vars
=============================================================================
