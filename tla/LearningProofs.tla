----------------------------- MODULE LearningProofs -----------------------------
(***************************************************************************)
(* Proofs about what is learned from mails: the merchants that names lead  *)
(* to (MerchantNames), the clean-up that renames payments                  *)
(* (MerchantCleanup), and the rules made of corrections and what they do   *)
(* to the extraction ladder (RuleLearning, Extraction).  Each is proved    *)
(* about for every value of its constants.                                 *)
(***************************************************************************)
EXTENDS RuleLearning, MerchantCleanup, FiniteSetTheorems, TLAPS

MerchantRow == [source : {"system", "user"}, deleted : BOOLEAN]

(* Every alias leads to a live merchant, and a name that was resolved is   *)
(* an alias of the merchant it led to.                                     *)
NamesInv ==
  /\ \A n \in DOMAIN merchants : n # <<>> /\ merchants[n] \in MerchantRow
  /\ \A n \in DOMAIN aliases : n # <<>> /\ aliases[n] \in LiveMerchants
  /\ \A n \in DOMAIN resolved : n \in DOMAIN aliases /\ resolved[n] = aliases[n]

LEMMA NamesStart == MerchantsInit => NamesInv
  BY NamesAssumption DEF MerchantsInit, NamesInv, MerchantRow, LiveMerchants, Nobody

(* Where a name leads: to a live merchant, or to one it will name itself.  *)
LEMMA LeadsSomewhere ==
  ASSUME NamesInv, NEW n, Leads(n) # Nobody
  PROVE  /\ n # <<>>
         /\ Leads(n) \in LiveMerchants \/ (Leads(n) = n /\ n \notin DOMAIN merchants)
         /\ n \in DOMAIN aliases => Leads(n) = aliases[n]
<1>1. n # <<>>
  BY DEF Leads
<1>2. SelectByAlias(n) # Nobody => n \in DOMAIN aliases /\ SelectByAlias(n) = aliases[n]
  BY DEF SelectByAlias
<1>3. n \in DOMAIN aliases => SelectByAlias(n) = aliases[n] /\ SelectByAlias(n) # Nobody
  BY DEF SelectByAlias, NamesInv, LiveMerchants, Nobody
<1>4. BestMatch(n) # Nobody => BestMatch(n) \in LiveMerchants
  BY DEF BestMatch
<1>5. n \in DOMAIN aliases => aliases[n] \in LiveMerchants
  BY DEF NamesInv
<1> QED BY <1>1, <1>2, <1>3, <1>4, <1>5 DEF Leads

(* A descriptor that is resolved becomes an alias of what it led to, unless *)
(* it was one already.                                                     *)
LEMMA NormalizeKeeps ==
  ASSUME NamesInv, NEW n, NormalizeMerchant(n)
  PROVE  NamesInv'
<1>1. CASE Leads(n) = Nobody
  BY <1>1 DEF NormalizeMerchant, merchantVars, NamesInv, LiveMerchants
<1>2. CASE Leads(n) # Nobody
  <2>1. PICK m : m = Leads(n)
    OBVIOUS
  <2>2. /\ n # <<>>
        /\ m \in LiveMerchants \/ (m = n /\ n \notin DOMAIN merchants)
        /\ n \in DOMAIN aliases => m = aliases[n]
    BY <1>2, <2>1, LeadsSomewhere
  <2>3. /\ IF m \in LiveMerchants THEN UNCHANGED merchants ELSE InsertMerchant(m, "system")
        /\ InsertAlias(n, m) /\ resolved' = Upserted(resolved, {n}, m)
    BY <1>2, <2>1 DEF NormalizeMerchant
  <2>4. /\ \A k \in DOMAIN merchants' : k # <<>> /\ merchants'[k] \in MerchantRow
        /\ m \in LiveMerchants' /\ LiveMerchants \subseteq LiveMerchants'
    <3>1. CASE m \in LiveMerchants
      BY <2>3, <3>1 DEF NamesInv, LiveMerchants
    <3>2. CASE m \notin LiveMerchants
      <4>1. PICK row : row = [source |-> "system", deleted |-> FALSE]
        OBVIOUS
      <4>2. row \in MerchantRow /\ ~row.deleted
        BY <4>1 DEF MerchantRow
      <4>3. m # <<>> /\ m \notin DOMAIN merchants /\ merchants' = InsertIgnored(merchants, m, row)
        <5>1. InsertMerchant(m, "system")
          BY <2>3, <3>2
        <5>2. m = n
          BY <2>2, <3>2
        <5> QED BY <2>2, <3>2, <4>1, <5>1, <5>2 DEF InsertMerchant
      <4>4. /\ DOMAIN merchants' = DOMAIN merchants \cup {m} /\ merchants'[m] = row
            /\ \A k \in DOMAIN merchants : merchants'[k] = merchants[k]
        BY <4>3 DEF InsertIgnored
      <4>5. m \in LiveMerchants' /\ LiveMerchants \subseteq LiveMerchants'
        BY <4>2, <4>4 DEF LiveMerchants
      <4>6. \A k \in DOMAIN merchants' : k # <<>> /\ merchants'[k] \in MerchantRow
        BY <4>2, <4>3, <4>4 DEF NamesInv
      <4> QED BY <4>5, <4>6
    <3> QED BY <3>1, <3>2
  <2>5. /\ DOMAIN aliases' = DOMAIN aliases \cup {n} /\ aliases'[n] = m
        /\ \A k \in DOMAIN aliases : aliases'[k] = aliases[k]
    BY <2>2, <2>3 DEF InsertAlias, InsertIgnored
  <2>6. /\ DOMAIN resolved' = DOMAIN resolved \cup {n} /\ resolved'[n] = m
        /\ \A k \in DOMAIN resolved \ {n} : resolved'[k] = resolved[k]
    BY <2>3 DEF Upserted
  <2>7. \A k \in DOMAIN aliases' : k # <<>> /\ aliases'[k] \in LiveMerchants'
    <3>1. \A k \in DOMAIN aliases : k # <<>> /\ aliases[k] \in LiveMerchants
      BY DEF NamesInv
    <3>2. \A k \in DOMAIN aliases : k # <<>> /\ aliases'[k] \in LiveMerchants'
      BY <2>4, <2>5, <3>1
    <3> QED BY <2>2, <2>4, <2>5, <3>2
  <2>8. \A k \in DOMAIN resolved' : k \in DOMAIN aliases' /\ resolved'[k] = aliases'[k]
    BY <2>5, <2>6 DEF NamesInv
  <2> QED BY <2>4, <2>7, <2>8 DEF NamesInv
<1> QED BY <1>1, <1>2

(* What the user names adds a merchant under a name that no alias has.     *)
LEMMA UserKeeps ==
  ASSUME NamesInv, NEW n, UserMerchant(n)
  PROVE  NamesInv'
<1>1. CASE UNCHANGED <<merchants, aliases>>
  BY <1>1 DEF UserMerchant, NamesInv, LiveMerchants
<1>2. CASE ~(UNCHANGED <<merchants, aliases>>)
  <2>1. PICK row : row = [source |-> "user", deleted |-> FALSE]
    OBVIOUS
  <2>2. row \in MerchantRow /\ ~row.deleted
    BY <2>1 DEF MerchantRow
  <2>3. /\ n # <<>> /\ SelectByAlias(n) = Nobody /\ n \notin DOMAIN merchants /\ UNCHANGED resolved
        /\ merchants' = InsertIgnored(merchants, n, row) /\ aliases' = InsertIgnored(aliases, n, n)
    BY <1>2, <2>1 DEF UserMerchant, InsertMerchant, InsertAlias
  <2>4. n \notin DOMAIN aliases
    BY <2>3 DEF SelectByAlias, NamesInv, LiveMerchants, Nobody
  <2>5. /\ DOMAIN merchants' = DOMAIN merchants \cup {n} /\ merchants'[n] = row
        /\ \A k \in DOMAIN merchants : merchants'[k] = merchants[k]
    BY <2>3 DEF InsertIgnored
  <2>6. /\ DOMAIN aliases' = DOMAIN aliases \cup {n} /\ aliases'[n] = n
        /\ \A k \in DOMAIN aliases : aliases'[k] = aliases[k]
    BY <2>3, <2>4 DEF InsertIgnored
  <2>7. n \in LiveMerchants' /\ LiveMerchants \subseteq LiveMerchants'
    BY <2>2, <2>5 DEF LiveMerchants
  <2> QED BY <2>2, <2>3, <2>5, <2>6, <2>7 DEF NamesInv
<1> QED BY <1>1, <1>2

(* The clean-up's claims move aliases and what was resolved together.      *)
LEMMA ClaimsKeep ==
  ASSUME NamesInv, NEW claimed, <<>> \notin claimed, NEW name, ResolveCanonicalMerchant(name),
         UpsertAliases(claimed, name), resolved' = Upserted(resolved, claimed, name)
  PROVE  NamesInv'
<1>1. PICK row : row = [source |-> "user", deleted |-> FALSE]
  OBVIOUS
<1>2. row \in MerchantRow /\ ~row.deleted
  BY <1>1 DEF MerchantRow
<1>3. name # <<>> /\ merchants' = Upserted(merchants, {name}, row) /\ aliases' = Upserted(aliases, claimed, name)
  BY <1>1 DEF ResolveCanonicalMerchant, UpsertAliases
<1>4. /\ DOMAIN merchants' = DOMAIN merchants \cup {name} /\ merchants'[name] = row
      /\ \A k \in DOMAIN merchants \ {name} : merchants'[k] = merchants[k]
  BY <1>3 DEF Upserted
<1>5. name \in LiveMerchants' /\ LiveMerchants \subseteq LiveMerchants'
  BY <1>2, <1>4 DEF LiveMerchants
<1>6. /\ DOMAIN aliases' = DOMAIN aliases \cup claimed /\ \A k \in claimed : aliases'[k] = name
      /\ \A k \in DOMAIN aliases \ claimed : aliases'[k] = aliases[k]
  BY <1>3 DEF Upserted
<1>7. /\ DOMAIN resolved' = DOMAIN resolved \cup claimed /\ \A k \in claimed : resolved'[k] = name
      /\ \A k \in DOMAIN resolved \ claimed : resolved'[k] = resolved[k]
  BY DEF Upserted
<1>8. \A k \in DOMAIN merchants' : k # <<>> /\ merchants'[k] \in MerchantRow
  BY <1>2, <1>3, <1>4 DEF NamesInv
<1>9. \A k \in DOMAIN aliases' : k # <<>> /\ aliases'[k] \in LiveMerchants'
  BY <1>5, <1>6 DEF NamesInv
<1>10. \A k \in DOMAIN resolved' : k \in DOMAIN aliases' /\ resolved'[k] = aliases'[k]
  BY <1>6, <1>7 DEF NamesInv
<1> QED BY <1>8, <1>9, <1>10 DEF NamesInv

(* With the merchants that are removed go the aliases that led to them.    *)
LEMMA RemovalKeeps ==
  ASSUME NamesInv, RemoveImplausible
  PROVE  NamesInv'
<1>1. PICK gone : /\ gone \subseteq LiveMerchants /\ SoftDelete(gone) /\ DeleteAliases(gone)
                  /\ resolved' = [n \in {k \in DOMAIN resolved : resolved[k] \notin gone} |-> resolved[n]]
  BY DEF RemoveImplausible
<1>2. /\ DOMAIN merchants' = DOMAIN merchants
      /\ \A n \in DOMAIN merchants \ gone : merchants'[n] = merchants[n]
  BY <1>1 DEF SoftDelete
<1>3. \A n \in gone : merchants'[n] = [merchants[n] EXCEPT !.deleted = TRUE]
  BY <1>1 DEF SoftDelete, LiveMerchants
<1>4. \A n \in DOMAIN merchants : n # <<>> /\ merchants'[n] \in MerchantRow
  <2> SUFFICES ASSUME NEW n \in DOMAIN merchants PROVE n # <<>> /\ merchants'[n] \in MerchantRow
    OBVIOUS
  <2>1. n # <<>> /\ merchants[n] \in MerchantRow
    BY DEF NamesInv
  <2>2. [merchants[n] EXCEPT !.deleted = TRUE] \in MerchantRow
    BY <2>1 DEF MerchantRow
  <2> QED BY <1>2, <1>3, <2>1, <2>2
<1>5. LiveMerchants \ gone \subseteq LiveMerchants'
  BY <1>2 DEF LiveMerchants
<1> QED BY <1>1, <1>2, <1>4, <1>5 DEF DeleteAliases, NamesInv

(* Whoever touches no merchant keeps every name its own.                   *)
LEMMA NamesUntouched ==
  ASSUME NamesInv, UNCHANGED merchantVars
  PROVE  NamesInv'
  BY DEF merchantVars, NamesInv, LiveMerchants

LEMMA NamesStep == NamesInv /\ [CleanupNext]_cleanupVars => NamesInv'
<1> SUFFICES ASSUME NamesInv, [CleanupNext]_cleanupVars PROVE NamesInv'
  OBVIOUS
<1>1. ASSUME NEW p \in Payments, BookPayment(p) PROVE NamesInv'
  BY <1>1, NormalizeKeeps DEF BookPayment
<1>2. ASSUME NEW p \in Payments, NEW n \in UserNames, UserRenames(p, n) PROVE NamesInv'
  BY <1>2, UserKeeps DEF UserRenames
<1>3. ASSUME NEW h \in hands, NameMerchant(h) PROVE NamesInv'
  <2>1. PICK r, claimed : /\ ResolveCanonicalMerchant(StripNoise(r.name)) /\ <<>> \notin claimed
                          /\ UpsertAliases(claimed, StripNoise(r.name))
                          /\ resolved' = Upserted(resolved, claimed, StripNoise(r.name))
    BY <1>3 DEF NameMerchant
  <2> QED BY <2>1, ClaimsKeep
<1>4. CASE RemoveMerchants
  BY <1>4, RemovalKeeps DEF RemoveMerchants
<1>5. ASSUME NEW h \in hands, DropAnswer(h) \/ LearnRule(h) \/ Record(h) \/ Rename(h) PROVE NamesInv'
  BY <1>5, NamesUntouched DEF DropAnswer, LearnRule, Record, Rename
<1>6. ASSUME NEW c \in corrections, RevertCorrection(c) \/ RevertInterrupted(c) PROVE NamesInv'
  BY <1>6, NamesUntouched DEF RevertCorrection, RevertInterrupted
<1>7. ASSUME NEW c \in todo, TakeCandidate(c) PROVE NamesInv'
  BY <1>7, NamesUntouched DEF TakeCandidate
<1>8. CASE Start \/ Cancel \/ Finish \/ Exit \/ UNCHANGED cleanupVars
  BY <1>8, NamesUntouched DEF Start, Cancel, Finish, Exit, cleanupVars
<1>9. ASSUME NEW p \in Payments, NEW n, MergeEvidence(p, n) PROVE NamesInv'
  BY <1>9, NormalizeKeeps DEF MergeEvidence
<1> QED BY <1>1, <1>2, <1>3, <1>4, <1>5, <1>6, <1>7, <1>8, <1>9 DEF CleanupNext

(* SameMerchantAgain, for any texts, merchants and payments and any number *)
(* of runs: a name that was resolved leads to the same merchant ever after, *)
(* whatever merchants come and go, unless the clean-up claims the name     *)
(* (normalize_merchant_sync, upsert of aliases in apply_correction).       *)
THEOREM NameKeepsItsMerchant == CleanupSpec => []SameMerchantAgain
<1>1. CleanupInit => NamesInv
  BY NamesStart DEF CleanupInit
<1>2. NamesInv => SameMerchantAgain
  <2> SUFFICES ASSUME NamesInv, NEW n \in DOMAIN resolved PROVE Leads(n) = resolved[n]
    BY DEF SameMerchantAgain
  <2>1. n \in DOMAIN aliases /\ n # <<>> /\ aliases[n] \in LiveMerchants /\ aliases[n] # Nobody
    BY DEF NamesInv, LiveMerchants, Nobody
  <2> QED BY <2>1 DEF Leads, SelectByAlias, NamesInv
<1> QED BY <1>1, <1>2, NamesStep, PTL DEF CleanupSpec

-----------------------------------------------------------------------------
(* Whose the tickets of a run are: a candidate waits or is in one pair of  *)
(* hands, and none outlives its run.                                       *)
TicketsApart ==
  /\ \A c, d \in todo : c.payment = d.payment => c = d
  /\ \A h, g \in hands : h.c.payment = g.c.payment => h = g
  /\ \A c \in todo, h \in hands : c.payment # h.c.payment
  /\ ~running => todo = {} /\ hands = {}

CleanupTypes ==
  /\ booked = [p \in Payments |-> booked[p]] /\ names = [p \in Payments |-> names[p]]
  /\ \A c \in corrections : c.payment \in Booked /\ DOMAIN c = {"payment", "run", "old", "new", "status"}
  /\ \A c \in todo : c.payment \in Booked
  /\ \A h \in hands : /\ h.c.payment \in Booked /\ DOMAIN h = {"c", "run", "answer", "step"}
                      /\ h.step # "ask" => \E n : h.answer = {n}

(* A ticket of a payment that the user did not touch carries the parser's  *)
(* name and stands for the first correction of it; once that is recorded,  *)
(* for this one.                                                           *)
TicketSound(p) ==
  /\ \A c \in todo : c.payment = p => Applied_(p) = {} /\ c.name = booked[p]
  /\ \A h \in hands : h.c.payment = p =>
       IF h.step = "rename" THEN \E c \in Applied_(p) : h.answer = {c.new}
       ELSE Applied_(p) = {} /\ h.c.name = booked[p]

NameSound(p) ==
  /\ \A c, d \in Applied_(p) : c = d
  /\ \A c \in Applied_(p) : c.old = booked[p]
  /\ names[p] \in {booked[p]} \cup {c.new : c \in Applied_(p)}

CleanupInv ==
  /\ CleanupTypes /\ TicketsApart
  /\ \A p \in Payments \ touched : TicketSound(p) /\ NameSound(p)

LEMMA CleanupStarts == CleanupInit => CleanupInv
  BY DEF CleanupInit, CleanupInv, CleanupTypes, TicketsApart, TicketSound, NameSound, Applied_

(* A payment that is booked has no ticket and no correction.               *)
LEMMA BookingPreserves ==
  ASSUME CleanupInv, NEW p \in Payments, BookPayment(p)
  PROVE  CleanupInv'
<1>1. /\ p \notin Booked /\ UNCHANGED <<touched, corrections, running, todo, hands>>
      /\ names' = [names EXCEPT ![p] = booked'[p]]
  BY DEF BookPayment
<1>2. /\ \A q \in Payments : q # p => booked'[q] = booked[q] /\ names'[q] = names[q]
      /\ booked' = [q \in Payments |-> booked'[q]] /\ names' = [q \in Payments |-> names'[q]]
      /\ names'[p] = booked'[p]
  BY <1>1 DEF BookPayment, CleanupInv, CleanupTypes
<1>3. Booked \subseteq Booked'
  BY <1>1, <1>2 DEF Booked
<1>4. Applied_(p) = {}
  BY <1>1 DEF Applied_, CleanupInv, CleanupTypes
<1>5. \A q : Applied_(q)' = Applied_(q)
  BY <1>1 DEF Applied_
<1>6. CleanupTypes' /\ TicketsApart'
  BY <1>1, <1>2, <1>3 DEF CleanupInv, CleanupTypes, TicketsApart
<1>7. ASSUME NEW q \in Payments \ touched' PROVE TicketSound(q)' /\ NameSound(q)'
  <2>1. CASE q = p
    <3>1. (\A c \in todo : c.payment # p) /\ (\A h \in hands : h.c.payment # p)
      BY <1>1 DEF CleanupInv, CleanupTypes
    <3> QED BY <1>1, <1>2, <1>4, <1>5, <2>1, <3>1 DEF TicketSound, NameSound
  <2>2. CASE q # p
    <3>1. TicketSound(q) /\ NameSound(q)
      BY <1>1, <1>7 DEF CleanupInv
    <3> QED BY <1>1, <1>2, <1>5, <2>2, <3>1, <1>7 DEF TicketSound, NameSound
  <2> QED BY <2>1, <2>2
<1> QED BY <1>6, <1>7 DEF CleanupInv

(* What is merged into a payment names it, or finds it selected or         *)
(* corrected, and then it is no longer the clean-up's alone.               *)
LEMMA MergePreserves ==
  ASSUME CleanupInv, NEW p \in Payments, NEW n, MergeEvidence(p, n)
  PROVE  CleanupInv'
<1>1. /\ p \in Booked /\ UNCHANGED <<corrections, running, todo, hands>>
      /\ touched \subseteq touched' /\ names'[p] # Unnamed
      /\ \/ p \in touched' /\ UNCHANGED booked
         \/ /\ booked' = [booked EXCEPT ![p] = names'[p]]
            /\ Applied_(p) = {} /\ \A c \in todo : c.payment # p
            /\ \A h \in hands : h.c.payment # p
  BY DEF MergeEvidence
<1>2. PICK shown, merchant : names' = [names EXCEPT ![p] = [shown |-> shown, merchant |-> merchant]]
  BY DEF MergeEvidence
<1>3. /\ \A q \in Payments : q # p => booked'[q] = booked[q] /\ names'[q] = names[q]
      /\ names' = [q \in Payments |-> names'[q]]
  BY <1>1, <1>2 DEF CleanupInv, CleanupTypes
<1>4. booked' = [q \in Payments |-> booked'[q]] /\ (p \in touched' \/ booked'[p] = names'[p])
  BY <1>1 DEF CleanupInv, CleanupTypes
<1>5. Booked \subseteq Booked'
  BY <1>1, <1>3, <1>4 DEF Booked
<1>6. CleanupTypes' /\ TicketsApart'
  BY <1>1, <1>3, <1>4, <1>5 DEF CleanupInv, CleanupTypes, TicketsApart
<1>7. \A q : Applied_(q)' = Applied_(q)
  BY <1>1 DEF Applied_
<1>8. ASSUME NEW q \in Payments \ touched' PROVE TicketSound(q)' /\ NameSound(q)'
  <2>1. TicketSound(q) /\ NameSound(q)
    BY <1>1, <1>8 DEF CleanupInv
  <2>2. CASE q = p
    BY <1>1, <1>4, <1>7, <1>8, <2>2 DEF TicketSound, NameSound
  <2>3. CASE q # p
    BY <1>1, <1>3, <1>7, <2>1, <2>3 DEF TicketSound, NameSound
  <2> QED BY <2>2, <2>3
<1> QED BY <1>6, <1>8 DEF CleanupInv

(* Who is selected was not corrected, and so is named as it was booked.    *)
LEMMA StartPreserves ==
  ASSUME CleanupInv, Start
  PROVE  CleanupInv'
<1>1. /\ hands = {} /\ todo' = SelectCandidates /\ running'
      /\ UNCHANGED <<booked, names, touched, corrections, hands>>
  BY DEF Start, CleanupInv, TicketsApart
<1>2. \A c \in todo' : c.payment \in Booked /\ c.name = names[c.payment] /\ Applied_(c.payment) = {}
      /\ c = [payment |-> c.payment, name |-> names[c.payment]]
  BY <1>1 DEF SelectCandidates
<1>3. CleanupTypes' /\ TicketsApart'
  <2>1. Booked' = Booked
    BY <1>1 DEF Booked
  <2>2. CleanupTypes'
    BY <1>1, <1>2, <2>1 DEF CleanupInv, CleanupTypes
  <2>3. TicketsApart'
    <3>1. hands' = {} /\ running'
      BY <1>1
    <3>2. \A c, d \in todo' : c.payment = d.payment => c = d
      BY <1>2
    <3> QED BY <3>1, <3>2 DEF TicketsApart
  <2> QED BY <2>2, <2>3
<1>4. \A q : Applied_(q)' = Applied_(q)
  BY <1>1 DEF Applied_
<1>5. ASSUME NEW q \in Payments \ touched' PROVE TicketSound(q)' /\ NameSound(q)'
  <2>1. NameSound(q)
    BY <1>1, <1>5 DEF CleanupInv
  <2> QED BY <1>1, <1>2, <1>4, <2>1 DEF NameSound, TicketSound
<1> QED BY <1>3, <1>5 DEF CleanupInv

(* Fewer tickets, and nothing else.                                        *)
LEMMA FewerTicketsPreserve ==
  ASSUME CleanupInv, UNCHANGED <<booked, names, corrections>>, touched \subseteq touched',
         todo' \subseteq todo, hands' \subseteq hands, running' \/ (todo' = {} /\ hands' = {})
  PROVE  CleanupInv'
<1>1. \A q : Applied_(q)' = Applied_(q)
  BY DEF Applied_
<1>2. CleanupTypes' /\ TicketsApart'
  BY DEF CleanupInv, CleanupTypes, TicketsApart, Booked
<1>3. ASSUME NEW q \in Payments \ touched' PROVE TicketSound(q)' /\ NameSound(q)'
  <2>1. TicketSound(q) /\ NameSound(q)
    BY <1>3 DEF CleanupInv
  <2> QED BY <1>1, <2>1 DEF TicketSound, NameSound
<1> QED BY <1>2, <1>3 DEF CleanupInv

(* A ticket changes hands.                                                 *)
LEMMA TakePreserves ==
  ASSUME CleanupInv, NEW c \in todo, TakeCandidate(c)
  PROVE  CleanupInv'
<1>1. UNCHANGED <<booked, names, touched, corrections, running>> /\ running /\ todo' = todo \ {c}
  BY DEF TakeCandidate
<1>2. CASE UNCHANGED hands
  BY <1>1, <1>2, FewerTicketsPreserve
<1>3. CASE ~(UNCHANGED hands)
  <2>1. PICK h : h = [c |-> c, run |-> runs, answer |-> {}, step |-> "ask"]
    OBVIOUS
  <2>2. h.c = c /\ h.step = "ask" /\ DOMAIN h = {"c", "run", "answer", "step"} /\ hands' = hands \cup {h}
    BY <1>3, <2>1 DEF TakeCandidate
  <2>3. CleanupTypes' /\ TicketsApart'
    <3>1. CleanupTypes'
      BY <1>1, <2>2 DEF CleanupInv, CleanupTypes, Booked
    <3>2. TicketsApart'
      BY <1>1, <2>2 DEF CleanupInv, TicketsApart
    <3> QED BY <3>1, <3>2
  <2>4. \A q : Applied_(q)' = Applied_(q)
    BY <1>1 DEF Applied_
  <2>5. ASSUME NEW q \in Payments \ touched' PROVE TicketSound(q)' /\ NameSound(q)'
    <3>1. TicketSound(q) /\ NameSound(q)
      BY <1>1, <2>5 DEF CleanupInv
    <3> QED BY <1>1, <2>2, <2>4, <3>1 DEF TicketSound, NameSound
  <2> QED BY <2>3, <2>5 DEF CleanupInv
<1> QED BY <1>2, <1>3

(* A worker that goes on with its candidate before the change is recorded. *)
LEMMA WorkPreserves ==
  ASSUME CleanupInv, NEW h \in hands, NEW g, g.c = h.c, DOMAIN g = {"c", "run", "answer", "step"},
         h.step # "rename", g.step # "rename", g.step # "ask" => \E n : g.answer = {n},
         hands' = (hands \ {h}) \cup {g},
         UNCHANGED <<booked, names, touched, corrections, running, todo>>
  PROVE  CleanupInv'
<1>1. CleanupTypes' /\ TicketsApart'
  <2>1. CleanupTypes'
    BY DEF CleanupInv, CleanupTypes, Booked
  <2>2. TicketsApart'
    BY DEF CleanupInv, TicketsApart
  <2> QED BY <2>1, <2>2
<1>2. \A q : Applied_(q)' = Applied_(q)
  BY DEF Applied_
<1>3. ASSUME NEW q \in Payments \ touched' PROVE TicketSound(q)' /\ NameSound(q)'
  <2>1. TicketSound(q) /\ NameSound(q)
    BY <1>3 DEF CleanupInv
  <2> QED BY <1>2, <2>1 DEF TicketSound, NameSound
<1> QED BY <1>1, <1>3 DEF CleanupInv

(* The first correction of a payment is recorded over the name it was      *)
(* booked under.                                                           *)
LEMMA RecordPreservesNames ==
  ASSUME CleanupInv, NEW h \in hands, Record(h)
  PROVE  CleanupInv'
<1> DEFINE p == h.c.payment
<1>1. /\ UNCHANGED <<booked, names, touched, running, todo>> /\ h.step = "record"
      /\ DOMAIN h = {"c", "run", "answer", "step"} /\ p \in Booked
  BY DEF Record, CleanupInv, CleanupTypes
<1>2. PICK n : h.answer = {n}
  BY <1>1 DEF CleanupInv, CleanupTypes
<1>3. PICK d : d = [payment |-> h.c.payment, run |-> h.run, old |-> h.c.name, new |-> n, status |-> "applied"]
  OBVIOUS
<1>4. /\ DOMAIN d = {"payment", "run", "old", "new", "status"} /\ d.payment = p /\ d.new = n
      /\ d.old = h.c.name /\ d.status = "applied"
  BY <1>3
<1>5. corrections' = corrections \cup {d}
  BY <1>2, <1>3 DEF Record
<1>6. PICK g : g = [h EXCEPT !.step = "rename"]
  OBVIOUS
<1>7. /\ g.c = h.c /\ g.answer = {n} /\ g.step = "rename" /\ DOMAIN g = DOMAIN h
      /\ hands' = (hands \ {h}) \cup {g}
  BY <1>1, <1>2, <1>6 DEF Record
<1>8. CleanupTypes' /\ TicketsApart'
  <2>1. CleanupTypes'
    BY <1>1, <1>4, <1>5, <1>7 DEF CleanupInv, CleanupTypes, Booked
  <2>2. TicketsApart'
    BY <1>1, <1>7 DEF CleanupInv, TicketsApart
  <2> QED BY <2>1, <2>2
<1>9. (\A q : q # p => Applied_(q)' = Applied_(q)) /\ Applied_(p)' = Applied_(p) \cup {d}
  BY <1>4, <1>5 DEF Applied_
<1>10. ASSUME NEW q \in Payments \ touched' PROVE TicketSound(q)' /\ NameSound(q)'
  <2>1. TicketSound(q) /\ NameSound(q)
    BY <1>1, <1>10 DEF CleanupInv
  <2>2. CASE q = p
    <3>1. Applied_(p) = {} /\ h.c.name = booked[p]
      BY <1>1, <2>1, <2>2 DEF TicketSound
    <3>2. Applied_(p)' = {d}
      BY <1>9, <3>1
    <3>3. NameSound(p)'
      BY <1>1, <1>4, <2>1, <2>2, <3>1, <3>2 DEF NameSound
    <3>4. TicketSound(p)'
      BY <1>1, <1>4, <1>7, <3>2 DEF TicketSound, CleanupInv, TicketsApart
    <3> QED BY <2>2, <3>3, <3>4
  <2>3. CASE q # p
    BY <1>1, <1>7, <1>9, <2>1, <2>3 DEF TicketSound, NameSound
  <2> QED BY <2>2, <2>3
<1> QED BY <1>8, <1>10 DEF CleanupInv

(* A payment is renamed as its correction says.                            *)
LEMMA RenamePreserves ==
  ASSUME CleanupInv, NEW h \in hands, Rename(h)
  PROVE  CleanupInv'
<1> DEFINE p == h.c.payment
<1>1. /\ UNCHANGED <<booked, touched, corrections, running, todo>> /\ h.step = "rename"
      /\ hands' = hands \ {h} /\ p \in Payments
  BY DEF Rename, CleanupInv, CleanupTypes, Booked
<1>2. PICK n \in h.answer : names' = [names EXCEPT ![p] = n]
  BY DEF Rename
<1>3. /\ names' = [q \in Payments |-> names'[q]] /\ names'[p] = n
      /\ \A q \in Payments : q # p => names'[q] = names[q]
  BY <1>1, <1>2 DEF CleanupInv, CleanupTypes
<1>4. CleanupTypes' /\ TicketsApart'
  BY <1>1, <1>3 DEF CleanupInv, CleanupTypes, TicketsApart, Booked
<1>5. \A q : Applied_(q)' = Applied_(q)
  BY <1>1 DEF Applied_
<1>6. ASSUME NEW q \in Payments \ touched' PROVE TicketSound(q)' /\ NameSound(q)'
  <2>1. TicketSound(q) /\ NameSound(q)
    BY <1>1, <1>6 DEF CleanupInv
  <2>2. q = p => \E c \in Applied_(p) : h.answer = {c.new}
    BY <1>1, <2>1 DEF TicketSound
  <2>3. names'[q] \in {booked[q]} \cup {c.new : c \in Applied_(q)}
    BY <1>2, <1>3, <2>1, <2>2 DEF NameSound
  <2> QED BY <1>1, <1>5, <2>1, <2>3 DEF TicketSound, NameSound
<1> QED BY <1>4, <1>6 DEF CleanupInv

(* The correction in force is taken back; whoever is about to rename the   *)
(* payment all the same counts as the user who did so.                     *)
LEMMA RevertPreserves ==
  ASSUME CleanupInv, NEW c \in corrections, RevertCorrection(c)
  PROVE  CleanupInv'
<1> DEFINE p == c.payment
<1>1. /\ UNCHANGED <<booked, running, todo, hands>> /\ c.status = "applied" /\ touched \subseteq touched'
      /\ p \in Payments /\ names' = [names EXCEPT ![p] = c.old]
      /\ DOMAIN c = {"payment", "run", "old", "new", "status"}
  BY DEF RevertCorrection, CleanupInv, CleanupTypes, Booked
<1>2. PICK d : d = [c EXCEPT !.status = "reverted"]
  OBVIOUS
<1>3. /\ d.payment = p /\ d.status = "reverted" /\ DOMAIN d = DOMAIN c
      /\ corrections' = (corrections \ {c}) \cup {d}
  BY <1>1, <1>2 DEF RevertCorrection
<1>4. /\ names' = [q \in Payments |-> names'[q]] /\ names'[p] = c.old
      /\ \A q \in Payments : q # p => names'[q] = names[q]
  BY <1>1 DEF CleanupInv, CleanupTypes
<1>5. CleanupTypes' /\ TicketsApart'
  BY <1>1, <1>3, <1>4 DEF CleanupInv, CleanupTypes, TicketsApart, Booked
<1>6. (\A q : q # p => Applied_(q)' = Applied_(q)) /\ Applied_(p)' = Applied_(p) \ {c} /\ c \in Applied_(p)
  BY <1>1, <1>3 DEF Applied_
<1>7. p \notin touched' => \A h \in hands : h.c.payment = p => h.step # "rename"
  BY DEF RevertCorrection
<1>8. ASSUME NEW q \in Payments \ touched' PROVE TicketSound(q)' /\ NameSound(q)'
  <2>1. TicketSound(q) /\ NameSound(q)
    BY <1>1, <1>8 DEF CleanupInv
  <2>2. CASE q = p
    <3>1. Applied_(p)' = {} /\ names'[p] = booked[p]
      BY <1>4, <1>6, <2>1, <2>2 DEF NameSound
    <3>2. (\A k \in todo : k.payment # p) /\ (\A h \in hands : h.c.payment # p)
      BY <1>6, <1>7, <1>8, <2>1, <2>2 DEF TicketSound
    <3>3. TicketSound(p)'
      BY <1>1, <3>2 DEF TicketSound
    <3>4. NameSound(p)'
      BY <1>1, <3>1 DEF NameSound
    <3> QED BY <2>2, <3>3, <3>4
  <2>3. CASE q # p
    BY <1>1, <1>4, <1>6, <2>1, <2>3 DEF TicketSound, NameSound
  <2> QED BY <2>2, <2>3
<1> QED BY <1>5, <1>8 DEF CleanupInv

(* A revert that was cut short leaves the correction and the old name.     *)
LEMMA InterruptionPreserves ==
  ASSUME CleanupInv, NEW c \in corrections, RevertInterrupted(c)
  PROVE  CleanupInv'
<1> DEFINE p == c.payment
<1>1. /\ UNCHANGED <<booked, corrections, touched>> /\ c.status = "applied" /\ todo' = {} /\ hands' = {}
      /\ p \in Payments /\ names' = [names EXCEPT ![p] = c.old]
  BY DEF RevertInterrupted, CleanupInv, CleanupTypes, Booked
<1>2. /\ names' = [q \in Payments |-> names'[q]] /\ names'[p] = c.old
      /\ \A q \in Payments : q # p => names'[q] = names[q]
  BY <1>1 DEF CleanupInv, CleanupTypes
<1>3. CleanupTypes' /\ TicketsApart'
  BY <1>1, <1>2 DEF CleanupInv, CleanupTypes, TicketsApart, Booked
<1>4. (\A q : Applied_(q)' = Applied_(q)) /\ c \in Applied_(p)
  BY <1>1 DEF Applied_
<1>5. ASSUME NEW q \in Payments \ touched' PROVE TicketSound(q)' /\ NameSound(q)'
  <2>1. NameSound(q)
    BY <1>1, <1>5 DEF CleanupInv
  <2>2. TicketSound(q)'
    BY <1>1 DEF TicketSound
  <2>3. NameSound(q)'
    BY <1>1, <1>2, <1>4, <2>1 DEF NameSound
  <2> QED BY <2>2, <2>3
<1> QED BY <1>3, <1>5 DEF CleanupInv

(* What the user renames is no longer the clean-up's.                      *)
LEMMA UserRenamePreserves ==
  ASSUME CleanupInv, NEW p \in Payments, NEW n, UserRenames(p, n)
  PROVE  CleanupInv'
<1>1. /\ UNCHANGED <<booked, corrections, running, todo, hands>> /\ touched' = touched \cup {p}
      /\ \A q \in Payments : q # p => names'[q] = names[q]
      /\ names' = [q \in Payments |-> names'[q]]
  BY DEF UserRenames, CleanupInv, CleanupTypes
<1>2. CleanupTypes' /\ TicketsApart'
  BY <1>1 DEF CleanupInv, CleanupTypes, TicketsApart, Booked
<1>3. \A q : Applied_(q)' = Applied_(q)
  BY <1>1 DEF Applied_
<1>4. ASSUME NEW q \in Payments \ touched' PROVE TicketSound(q)' /\ NameSound(q)'
  <2>1. TicketSound(q) /\ NameSound(q) /\ names'[q] = names[q]
    BY <1>1, <1>4 DEF CleanupInv
  <2> QED BY <1>1, <1>3, <2>1 DEF TicketSound, NameSound
<1> QED BY <1>2, <1>4 DEF CleanupInv

LEMMA CleanupStep == CleanupInv /\ [CleanupNext]_cleanupVars => CleanupInv'
<1> SUFFICES ASSUME CleanupInv, [CleanupNext]_cleanupVars PROVE CleanupInv'
  OBVIOUS
<1>1. CASE Cancel \/ Finish \/ Exit \/ RemoveMerchants \/ UNCHANGED cleanupVars
  BY <1>1, FewerTicketsPreserve
     DEF Cancel, Finish, Exit, RemoveMerchants, cleanupVars, CleanupInv, TicketsApart
<1>2. ASSUME NEW h \in hands, DropAnswer(h) PROVE CleanupInv'
  BY <1>2, FewerTicketsPreserve DEF DropAnswer, CleanupInv, TicketsApart
<1>3. ASSUME NEW h \in hands, NameMerchant(h) PROVE CleanupInv'
  <2>1. DOMAIN h = {"c", "run", "answer", "step"} /\ h.step = "ask"
    BY <1>3 DEF NameMerchant, CleanupInv, CleanupTypes
  <2>2. PICK n, g : g = [h EXCEPT !.answer = {n}, !.step = "learn"] /\ hands' = (hands \ {h}) \cup {g}
    BY <1>3 DEF NameMerchant
  <2>3. g.c = h.c /\ DOMAIN g = DOMAIN h /\ g.answer = {n} /\ g.step = "learn"
    BY <2>1, <2>2
  <2>4. UNCHANGED <<booked, names, touched, corrections, running, todo>>
    BY <1>3 DEF NameMerchant
  <2> QED BY <2>1, <2>2, <2>3, <2>4, WorkPreserves
<1>4. ASSUME NEW h \in hands, LearnRule(h) PROVE CleanupInv'
  <2>1. DOMAIN h = {"c", "run", "answer", "step"} /\ h.step = "learn" /\ \E n : h.answer = {n}
    BY <1>4 DEF LearnRule, CleanupInv, CleanupTypes
  <2>2. PICK g : g = [h EXCEPT !.step = "record"] /\ hands' = (hands \ {h}) \cup {g}
    BY <1>4 DEF LearnRule
  <2>3. g.c = h.c /\ DOMAIN g = DOMAIN h /\ g.answer = h.answer /\ g.step = "record"
    BY <2>1, <2>2
  <2>4. UNCHANGED <<booked, names, touched, corrections, running, todo>>
    BY <1>4 DEF LearnRule
  <2> QED BY <2>1, <2>2, <2>3, <2>4, WorkPreserves
<1> QED
  BY <1>1, <1>2, <1>3, <1>4, BookingPreserves, StartPreserves, TakePreserves, RecordPreservesNames,
     RenamePreserves, RevertPreserves, InterruptionPreserves, UserRenamePreserves, MergePreserves
     DEF CleanupNext

(* Of any payment, whoever renamed it, there is one correction at most,    *)
(* and none as long as the next is not recorded.                           *)
OneCorrection(p) ==
  /\ \A c, d \in Applied_(p) : c = d
  /\ \A c \in todo : c.payment = p => Applied_(p) = {}
  /\ \A h \in hands : h.c.payment = p /\ h.step # "rename" => Applied_(p) = {}

Once == \A p \in Payments : OneCorrection(p)

(* Tickets come and go, but none goes back to before it was recorded.      *)
LEMMA OnceKept ==
  ASSUME CleanupInv, Once, UNCHANGED corrections,
         \A c \in todo' : c \in todo \/ Applied_(c.payment) = {},
         \A g \in hands' : \/ g.step = "rename"
                           \/ g.c \in todo
                           \/ \E h \in hands : h.c = g.c /\ h.step # "rename"
  PROVE  Once'
<1>1. \A q : Applied_(q)' = Applied_(q)
  BY DEF Applied_
<1>2. ASSUME NEW p \in Payments PROVE OneCorrection(p)'
  BY <1>1 DEF Once, OneCorrection
<1> QED BY <1>2 DEF Once

LEMMA OnceRecorded ==
  ASSUME CleanupInv, Once, NEW h \in hands, Record(h)
  PROVE  Once'
<1> DEFINE p == h.c.payment
<1>1. /\ UNCHANGED todo /\ h.step = "record" /\ p \in Payments
      /\ DOMAIN h = {"c", "run", "answer", "step"}
  BY DEF Record, CleanupInv, CleanupTypes, Booked
<1>2. PICK n : h.answer = {n}
  BY <1>1 DEF CleanupInv, CleanupTypes
<1>3. PICK d : d = [payment |-> h.c.payment, run |-> h.run, old |-> h.c.name, new |-> n, status |-> "applied"]
  OBVIOUS
<1>4. corrections' = corrections \cup {d} /\ d.payment = p
  BY <1>2, <1>3 DEF Record
<1>5. PICK g : g = [h EXCEPT !.step = "rename"]
  OBVIOUS
<1>6. g.c = h.c /\ g.step = "rename" /\ hands' = (hands \ {h}) \cup {g}
  BY <1>1, <1>5 DEF Record
<1>7. Applied_(p) = {} /\ Applied_(p)' \subseteq {d}
  BY <1>1, <1>4 DEF Once, OneCorrection, Applied_
<1>8. \A q : q # p => Applied_(q)' = Applied_(q)
  BY <1>4 DEF Applied_
<1>9. (\A c \in todo : c.payment # p) /\ (\A k \in hands : k.c.payment = p => k = h)
  BY DEF CleanupInv, TicketsApart
<1>10. ASSUME NEW q \in Payments PROVE OneCorrection(q)'
  BY <1>1, <1>6, <1>7, <1>8, <1>9 DEF Once, OneCorrection
<1> QED BY <1>10 DEF Once

LEMMA OnceTakenBack ==
  ASSUME CleanupInv, Once, NEW c \in corrections, RevertCorrection(c)
  PROVE  Once'
<1>1. UNCHANGED <<todo, hands>>
  BY DEF RevertCorrection
<1>2. DOMAIN c = {"payment", "run", "old", "new", "status"}
  BY DEF CleanupInv, CleanupTypes
<1>3. PICK d : d = [c EXCEPT !.status = "reverted"]
  OBVIOUS
<1>4. d.status = "reverted" /\ corrections' = (corrections \ {c}) \cup {d}
  BY <1>2, <1>3 DEF RevertCorrection
<1>5. \A q : Applied_(q)' \subseteq Applied_(q)
  BY <1>4 DEF Applied_
<1> QED BY <1>1, <1>5 DEF Once, OneCorrection

LEMMA OnceStep == CleanupInv /\ Once /\ [CleanupNext]_cleanupVars => Once'
<1> SUFFICES ASSUME CleanupInv, Once, [CleanupNext]_cleanupVars PROVE Once'
  OBVIOUS
<1>1. ASSUME UNCHANGED corrections, todo' \subseteq todo, hands' \subseteq hands PROVE Once'
  BY <1>1, OnceKept
<1>2. CASE Cancel \/ Finish \/ Exit \/ RemoveMerchants \/ UNCHANGED cleanupVars
  BY <1>1, <1>2 DEF Cancel, Finish, Exit, RemoveMerchants, cleanupVars
<1>3. ASSUME NEW p \in Payments, NEW n, BookPayment(p) \/ UserRenames(p, n) \/ MergeEvidence(p, n)
      PROVE  Once'
  BY <1>1, <1>3 DEF BookPayment, UserRenames, MergeEvidence
<1>4. ASSUME NEW h \in hands, DropAnswer(h) \/ Rename(h) PROVE Once'
  BY <1>1, <1>4 DEF DropAnswer, Rename
<1>5. CASE Start
  <2>1. hands' = {} /\ UNCHANGED corrections
    BY <1>5 DEF Start, CleanupInv, TicketsApart
  <2>2. \A c \in todo' : Applied_(c.payment) = {}
    BY <1>5 DEF Start, SelectCandidates
  <2> QED BY <2>1, <2>2, OnceKept
<1>6. ASSUME NEW c \in todo, TakeCandidate(c) PROVE Once'
  <2>1. PICK h : h = [c |-> c, run |-> runs, answer |-> {}, step |-> "ask"]
    OBVIOUS
  <2>2. h.c = c /\ hands' \subseteq hands \cup {h} /\ todo' \subseteq todo /\ UNCHANGED corrections
    BY <1>6, <2>1 DEF TakeCandidate
  <2> QED BY <2>2, OnceKept
<1>7. ASSUME NEW h \in hands, NameMerchant(h) \/ LearnRule(h) PROVE Once'
  <2>1. DOMAIN h = {"c", "run", "answer", "step"}
    BY DEF CleanupInv, CleanupTypes
  <2>2. PICK n, g : /\ g \in {[h EXCEPT !.answer = {n}, !.step = "learn"], [h EXCEPT !.step = "record"]}
                    /\ hands' = (hands \ {h}) \cup {g}
    BY <1>7 DEF NameMerchant, LearnRule
  <2>3. g.c = h.c
    BY <2>1, <2>2
  <2>4. h.step # "rename" /\ UNCHANGED <<corrections, todo>>
    BY <1>7 DEF NameMerchant, LearnRule
  <2> QED BY <2>2, <2>3, <2>4, OnceKept
<1>8. ASSUME NEW h \in hands, Record(h) PROVE Once'
  BY <1>8, OnceRecorded
<1>9. ASSUME NEW c \in corrections, RevertCorrection(c) \/ RevertInterrupted(c) PROVE Once'
  BY <1>1, <1>9, OnceTakenBack DEF RevertInterrupted
<1> QED BY <1>2, <1>3, <1>4, <1>5, <1>6, <1>7, <1>8, <1>9 DEF CleanupNext

(* CleanupReversible, for any payments, answers, names of later evidence   *)
(* and number of runs: no order of runs, cancellations, quits, merges and  *)
(* reverts corrects a payment twice, or records, of one that nobody else   *)
(* renamed meanwhile, another name to go back to than its evidence gave    *)
(* (select_candidates, apply_correction, revert_correction).               *)
THEOREM EveryChangeRevertible == CleanupSpec => []CleanupReversible
<1>1. CleanupInv /\ Once => CleanupReversible
  <2> SUFFICES ASSUME CleanupInv, Once
               PROVE  CleanupReversible
    OBVIOUS
  <2>1. ASSUME NEW p \in Payments PROVE Cardinality(Applied_(p)) <= 1
    <3>1. Applied_(p) = {} \/ \E c : Applied_(p) = {c}
      BY DEF Once, OneCorrection
    <3>2. CASE Applied_(p) = {}
      BY <3>2, FS_EmptySet
    <3>3. ASSUME NEW c, Applied_(p) = {c} PROVE Cardinality(Applied_(p)) <= 1
      BY <3>3, FS_Singleton
    <3> QED BY <3>1, <3>2, <3>3
  <2>2. \A p \in Payments \ touched : NameSound(p)
    BY DEF CleanupInv
  <2> QED BY <2>1, <2>2 DEF CleanupReversible, NameSound
<1>2. CleanupInit => Once
  BY DEF CleanupInit, Once, OneCorrection, Applied_
<1> QED BY <1>1, <1>2, CleanupStarts, CleanupStep, OnceStep, PTL DEF CleanupSpec

-----------------------------------------------------------------------------
(* Rules.                                                                  *)

Fields == DOMAIN Carriers \cup OverrideFields

(* A lesson is about a field that can be learned; a date is learned as the *)
(* place of dates, and no date is fixed.                                   *)
Sighted(field, fixed, place) ==
  /\ Option(fixed)
  /\ field = "time" => fixed = {} /\ \A p \in place : p[1] = "date"

Lesson(job) == job.field \in Fields /\ Option(job.value)

Ruled(r) ==
  /\ DOMAIN r = {"id", "field", "template", "fixed", "place", "from", "status", "s", "f"}
  /\ r.id \in Int /\ r.field \in Fields /\ r.s \in Int /\ r.f \in Int
  /\ Sighted(r.field, r.fixed, r.place)

(* Every lesson on its way, and every rule made of one, is about a field   *)
(* of a payment, and a field of a template has one live rule.              *)
RulesInv ==
  /\ \E S : queue \in Seq(S) /\ \A job \in S : Lesson(job)
  /\ \A w \in worker : /\ DOMAIN w = {"job", "step", "fixed", "place"} /\ Lesson(w.job)
                       /\ Sighted(w.job.field, w.fixed, w.place)
  /\ \A r \in rules : Ruled(r)
  /\ OneLiveRule

(* With no lesson and no rule there is nothing to show.                    *)
LEMMA RulesStart == Init => RulesInv
<1> SUFFICES ASSUME Init PROVE RulesInv
  OBVIOUS
<1>1. queue \in Seq({})
  BY DEF Init
<1> QED BY <1>1 DEF Init, RulesInv, OneLiveRule

(* What is put in the queue is of lessons if what is added is.             *)
LEMMA EnqueueKeeps ==
  ASSUME NEW jobs, NEW S, queue \in Seq(S), \A job \in S : Lesson(job),
         NEW T, jobs \in Seq(T), \A job \in T : Lesson(job), Enqueue(jobs)
  PROVE  \E U : queue' \in Seq(U) /\ \A job \in U : Lesson(job)
<1>1. PICK U : U = S \cup T
  OBVIOUS
<1>2. queue \in Seq(U) /\ jobs \in Seq(U) /\ \A job \in U : Lesson(job)
  BY <1>1
<1>3. PICK all : all = queue \o jobs
  OBVIOUS
<1>4. all \in Seq(U) /\ Len(all) = Len(queue) + Len(jobs)
  BY <1>2, <1>3
<1>5. Min2(Capacity, Len(queue) + Len(jobs)) \in 0 .. Len(all)
  BY <1>2, <1>4, LearningAssumption DEF Min2
<1>6. queue' \in Seq(U)
  BY <1>3, <1>4, <1>5 DEF Enqueue
<1> QED BY <1>2, <1>6

(* So are the candidates of a template that drifted.                       *)
LEMMA DriftLessons ==
  ASSUME NEW i, NEW result, Optional(result)
  PROVE  \E T : DriftCandidates(i, result) \in Seq(T) /\ \A job \in T : Lesson(job)
<1>1. PICK T : T = {[msg |-> i, field |-> f, value |-> result[f], from |-> "drift_llm"] :
                      f \in {"merchant", "amount", "reference", "balance", "time"}}
  OBVIOUS
<1>2. \A job \in T : Lesson(job)
  BY <1>1 DEF Lesson, Fields, Carriers, Optional, ResultFields, Blank
<1> DEFINE Candidate(f) == IF result[f] = {} THEN <<>>
             ELSE <<[msg |-> i, field |-> f, value |-> result[f], from |-> "drift_llm"]>>
<1>3. \A f \in {"merchant", "amount", "reference", "balance", "time"} : Candidate(f) \in Seq(T)
  <2> SUFFICES ASSUME NEW f \in {"merchant", "amount", "reference", "balance", "time"}
               PROVE  Candidate(f) \in Seq(T)
    OBVIOUS
  <2>1. PICK job : job = [msg |-> i, field |-> f, value |-> result[f], from |-> "drift_llm"]
    OBVIOUS
  <2>2. job \in T
    BY <1>1, <2>1
  <2>3. <<job>> \in Seq(T) /\ <<>> \in Seq(T)
    BY <2>2
  <2>4. Candidate(f) = IF result[f] = {} THEN <<>> ELSE <<job>>
    BY <2>1
  <2> HIDE DEF Candidate
  <2> QED BY <2>3, <2>4
<1>4. DriftCandidates(i, result) = Candidate("merchant") \o Candidate("amount") \o Candidate("reference")
                                   \o Candidate("balance") \o Candidate("time")
  BY DEF DriftCandidates
<1> HIDE DEF Candidate
<1>5. DriftCandidates(i, result) \in Seq(T)
  BY <1>3, <1>4
<1> QED BY <1>2, <1>5

(* A correction only marks down the rule that failed.                      *)
LEMMA CorrectKeeps ==
  ASSUME RulesInv, NEW c \in DOMAIN Corrections, Correct(c)
  PROVE  RulesInv'
<1>1. PICK i, f, job, failed :
        /\ i = c[1] /\ f = c[2]
        /\ failed = {r \in LiveRules : r.field = f /\ r.template = Template(Text[i])}
        /\ job = [msg |-> i, field |-> f, value |-> Corrections[c], from |-> "user_edit"]
        /\ rules' = (rules \ failed) \cup {RecordFailure(r) : r \in failed}
        /\ Enqueue(<<job>>) /\ UNCHANGED worker
  BY DEF Correct
<1>2. Lesson(job)
  BY <1>1, LearningAssumption DEF Lesson, Fields
<1>3. <<job>> \in Seq({job}) /\ \A j \in {job} : Lesson(j)
  BY <1>2
<1>4. \E S : queue' \in Seq(S) /\ \A j \in S : Lesson(j)
  BY <1>1, <1>3, EnqueueKeeps DEF RulesInv
<1>5. \A r \in failed : /\ r \in rules /\ Ruled(r) /\ r.status \in Live
                        /\ r.field = f /\ r.template = Template(Text[i])
  BY <1>1 DEF LiveRules, RulesInv, Live
<1>6. ASSUME NEW r \in failed
      PROVE  Ruled(RecordFailure(r)) /\ RecordFailure(r).field = r.field
             /\ RecordFailure(r).template = r.template
  <2>1. PICK status : RecordFailure(r) = [r EXCEPT !.f = r.f + 1, !.status = status]
    BY DEF RecordFailure
  <2> QED BY <1>5, <2>1 DEF Ruled
<1>7. \A q, r \in failed : q = r
  BY <1>5 DEF RulesInv, OneLiveRule
<1>8. \A r \in rules' : Ruled(r)
  BY <1>1, <1>6 DEF RulesInv
<1>9. ASSUME NEW q \in rules', NEW r \in rules', q.status \in Live, r.status \in Live,
             q.field = r.field, q.template = r.template
      PROVE  q = r
  <2>1. CASE failed = {}
    BY <1>1, <1>9, <2>1 DEF RulesInv, OneLiveRule
  <2>2. CASE failed # {}
    <3>1. PICK old : old \in failed /\ failed = {old}
      BY <1>7, <2>2
    <3>2. PICK new : new = RecordFailure(old) /\ rules' = (rules \ {old}) \cup {new}
      BY <1>1, <3>1
    <3>3. new.field = old.field /\ new.template = old.template
      BY <1>6, <3>1, <3>2
    <3> QED BY <1>5, <1>9, <3>1, <3>2, <3>3 DEF RulesInv, OneLiveRule
  <2> QED BY <2>1, <2>2
<1> QED BY <1>1, <1>4, <1>8, <1>9 DEF RulesInv, OneLiveRule

LEMMA RevertKeeps ==
  ASSUME RulesInv, NEW r \in rules, Revert(r)
  PROVE  RulesInv'
<1>1. PICK off : off = [r EXCEPT !.status = "inactive"] /\ rules' = (rules \ {r}) \cup {off}
  BY DEF Revert
<1>2. Ruled(r)
  BY DEF RulesInv
<1>3. off.status = "inactive" /\ off.status \notin Live /\ Ruled(off)
  BY <1>1, <1>2 DEF Ruled, Live, Applied
<1>4. \A q \in rules' : Ruled(q)
  BY <1>1, <1>3 DEF RulesInv
<1>5. OneLiveRule'
  BY <1>1, <1>3 DEF RulesInv, OneLiveRule
<1> QED BY <1>4, <1>5 DEF Revert, RulesInv

LEMMA TakeKeeps ==
  ASSUME RulesInv, Take
  PROVE  RulesInv'
<1>1. PICK S : queue \in Seq(S) /\ \A job \in S : Lesson(job)
  BY DEF RulesInv
<1>2. queue # <<>> /\ queue' = Tail(queue) /\ UNCHANGED rules
      /\ worker' = {[job |-> Head(queue), step |-> "author", fixed |-> {}, place |-> {}]}
  BY DEF Take
<1>3. Head(queue) \in S /\ Tail(queue) \in Seq(S)
  BY <1>1, <1>2
<1>4. PICK w : w = [job |-> Head(queue), step |-> "author", fixed |-> {}, place |-> {}]
               /\ worker' = {w}
  BY <1>2
<1>5. DOMAIN w = {"job", "step", "fixed", "place"} /\ Lesson(w.job)
      /\ Sighted(w.job.field, w.fixed, w.place)
  BY <1>1, <1>3, <1>4 DEF Sighted, Option
<1> QED BY <1>1, <1>2, <1>3, <1>4, <1>5 DEF RulesInv, OneLiveRule

(* Where a date is to be learned, the place found is a place of dates.     *)
LEMMA PlaceOfDates ==
  ASSUME NEW job, job.field = "time", NEW p \in PlacesOf(job)
  PROVE  p[1] = "date"
<1>1. \A t : Shows(job, t) => Place(t)[1] = "date"
  BY DEF Shows, Carriers, Place
<1>2. ASSUME p \in Synthesized(job) PROVE p[1] = "date"
  <2>1. \E t : Shows(job, t) /\ p = Place(t)
    BY <1>2 DEF Synthesized, First
  <2> QED BY <1>1, <2>1
<1>3. ASSUME p \in ByModel(job) PROVE p[1] = "date"
  <2>1. \E t : Shows(job, t) /\ p = Place(t)
    BY <1>3 DEF ByModel
  <2> QED BY <1>1, <2>1
<1> QED BY <1>2, <1>3 DEF PlacesOf

LEMMA AuthorKeeps ==
  ASSUME RulesInv, Author
  PROVE  RulesInv'
<1>1. PICK w \in worker : /\ UNCHANGED <<rules, queue>>
        /\ \/ /\ w.job.field \in OverrideFields
              /\ worker' = {[w EXCEPT !.step = "check", !.fixed = w.job.value]}
           \/ /\ w.job.field \notin OverrideFields
              /\ \E p \in PlacesOf(w.job) : worker' = {[w EXCEPT !.step = "check", !.place = {p}]}
  BY DEF Author
<1>2. DOMAIN w = {"job", "step", "fixed", "place"} /\ Lesson(w.job)
      /\ Sighted(w.job.field, w.fixed, w.place)
  BY DEF RulesInv
<1>3. PICK v : worker' = {v} /\ DOMAIN v = {"job", "step", "fixed", "place"} /\ v.job = w.job
               /\ Sighted(w.job.field, v.fixed, v.place)
  <2>1. CASE w.job.field \in OverrideFields
    <3>1. w.job.field # "time"
      BY <2>1 DEF OverrideFields
    <3> QED BY <1>1, <1>2, <2>1, <3>1 DEF Sighted, Lesson
  <2>2. CASE w.job.field \notin OverrideFields
    <3>1. PICK p \in PlacesOf(w.job) : worker' = {[w EXCEPT !.step = "check", !.place = {p}]}
      BY <1>1, <2>2
    <3>2. w.job.field = "time" => p[1] = "date"
      BY PlaceOfDates
    <3>3. PICK v : v = [w EXCEPT !.step = "check", !.place = {p}]
      OBVIOUS
    <3>4. /\ DOMAIN v = DOMAIN w /\ v.job = w.job
          /\ v.fixed = w.fixed /\ v.place = {p}
      BY <1>2, <3>3
    <3>5. Sighted(w.job.field, v.fixed, v.place)
      BY <1>2, <3>2, <3>4 DEF Sighted
    <3> QED BY <1>2, <3>1, <3>3, <3>4, <3>5
  <2> QED BY <2>1, <2>2
<1> QED BY <1>1, <1>2, <1>3 DEF RulesInv, OneLiveRule

LEMMA CheckKeeps ==
  ASSUME RulesInv, Check
  PROVE  RulesInv'
<1>1. PICK w \in worker : /\ UNCHANGED <<rules, queue>>
        /\ worker' = IF RegressionCheck(w) THEN {[w EXCEPT !.step = "store"]} ELSE {}
  BY DEF Check
<1>2. DOMAIN w = {"job", "step", "fixed", "place"} /\ Lesson(w.job)
      /\ Sighted(w.job.field, w.fixed, w.place)
  BY DEF RulesInv
<1>3. PICK v : v = [w EXCEPT !.step = "store"]
  OBVIOUS
<1>4. DOMAIN v = DOMAIN w /\ v.job = w.job /\ v.fixed = w.fixed /\ v.place = w.place
  BY <1>2, <1>3
<1> QED BY <1>1, <1>2, <1>3, <1>4 DEF RulesInv, OneLiveRule

(* A rule stored takes the place of the live one of its field and template. *)
LEMMA StoreKeeps ==
  ASSUME RulesInv, Store
  PROVE  RulesInv'
<1>1. PICK w, id, new :
        /\ w \in worker
        /\ id \in (IF Replaced(w.job) = {} THEN Ids \ {r.id : r \in rules} ELSE {r.id : r \in Replaced(w.job)})
        /\ new = Variant(w, id) /\ rules' = (rules \ Replaced(w.job)) \cup {new}
        /\ worker' = {} /\ UNCHANGED queue
  BY DEF Store
<1>2. /\ DOMAIN w = {"job", "step", "fixed", "place"} /\ Lesson(w.job)
      /\ Sighted(w.job.field, w.fixed, w.place)
  BY <1>1 DEF RulesInv
<1>3. id \in Int
  BY <1>1, LearningAssumption DEF RulesInv, Ruled, Replaced
<1>4. new.field = w.job.field /\ new.template = Template(Text[w.job.msg]) /\ Ruled(new)
  BY <1>1, <1>2, <1>3 DEF Variant, Ruled, Lesson
<1>5. \A r \in rules' : Ruled(r)
  BY <1>1, <1>4 DEF RulesInv
<1>6. \A r \in rules : (r.status \in Live /\ r.field = new.field /\ r.template = new.template)
                         => r \in Replaced(w.job)
  BY <1>4 DEF Replaced
<1>7. OneLiveRule'
  BY <1>1, <1>6 DEF RulesInv, OneLiveRule
<1> QED BY <1>1, <1>5, <1>7 DEF RulesInv

(* What the model answers has one value in a field, or none.               *)
LEMMA AnswerOptional ==
  ASSUME NEW i \in Messages, NEW first \in Answers[i], NEW second \in Answers[i],
         NEW x \in Layer6(first, second, Text[i], Received[i])
  PROVE  Optional(x)
<1>1. PICK a \in Answers[i] : x = Parsed(a, Received[i])
  BY DEF Layer6
<1>2. PICK days : days = Fill(a.time, {[on |-> day, other |-> day] : day \in Received[i]})
  OBVIOUS
<1>3. Optional(a) /\ Option(Received[i])
  BY LearningAssumption
<1>4. Option(days)
  BY <1>2, <1>3 DEF Fill, Option, Optional, ResultFields, Blank
<1>5. x = [a EXCEPT !.method = "llm_layer6", !.time = days]
  BY <1>1, <1>2 DEF Parsed
<1>6. DOMAIN x = ResultFields /\ x.time = days /\ \A f \in ResultFields \ {"method", "time"} : x[f] = a[f]
  BY <1>3, <1>5 DEF Optional, ResultFields, Blank
<1> QED BY <1>3, <1>4, <1>6 DEF Optional

LEMMA RulesStep == RulesInv /\ [Next]_vars => RulesInv'
<1> SUFFICES ASSUME RulesInv, [Next]_vars PROVE RulesInv'
  OBVIOUS
<1>1. ASSUME NEW i \in Messages, Intake(i) PROVE RulesInv'
  BY <1>1 DEF Intake, RulesInv, OneLiveRule
<1>2. ASSUME NEW i \in Messages, Enrich(i) PROVE RulesInv'
  <2>1. UNCHANGED <<rules, worker>>
        /\ \/ UNCHANGED queue
           \/ \E answer : Optional(answer) /\ Enqueue(DriftCandidates(i, answer))
    BY <1>2, AnswerOptional DEF Enrich
  <2>2. \E S : queue' \in Seq(S) /\ \A job \in S : Lesson(job)
    <3>1. CASE UNCHANGED queue
      BY <3>1 DEF RulesInv
    <3>2. ASSUME NEW answer, Optional(answer), Enqueue(DriftCandidates(i, answer))
          PROVE  \E S : queue' \in Seq(S) /\ \A job \in S : Lesson(job)
      <4>1. PICK T : DriftCandidates(i, answer) \in Seq(T) /\ \A job \in T : Lesson(job)
        BY <3>2, DriftLessons
      <4>2. PICK S : queue \in Seq(S) /\ \A job \in S : Lesson(job)
        BY DEF RulesInv
      <4> QED BY <3>2, <4>1, <4>2, EnqueueKeeps
    <3> QED BY <2>1, <3>1, <3>2
  <2> QED BY <2>1, <2>2 DEF RulesInv, OneLiveRule
<1>3. ASSUME NEW c \in DOMAIN Corrections, Correct(c) PROVE RulesInv'
  BY <1>3, CorrectKeeps
<1>4. ASSUME NEW r \in rules, Revert(r) PROVE RulesInv'
  BY <1>4, RevertKeeps
<1>5. CASE Take \/ Author \/ Check \/ Store
  BY <1>5, TakeKeeps, AuthorKeeps, CheckKeeps, StoreKeeps
<1>6. CASE AuthorFails
  BY <1>6 DEF AuthorFails, RulesInv, OneLiveRule
<1>7. CASE Quit
  <2>1. queue' \in Seq({})
    BY <1>7 DEF Quit
  <2> QED BY <1>7, <2>1 DEF Quit, RulesInv, OneLiveRule
<1>8. CASE UNCHANGED vars
  BY <1>8 DEF vars, RulesInv, OneLiveRule
<1> QED BY <1>1, <1>2, <1>3, <1>4, <1>5, <1>6, <1>7, <1>8 DEF Next

(* A field of a template has one live rule, for all messages, templates    *)
(* and orders of corrections, candidates and reverts: upsert_variant       *)
(* replaces whatever rule is live, and nothing revives a retired one       *)
(* (db/field_rules.rs:123-205).                                            *)
THEOREM OneRuleAtATime == Spec => []OneLiveRule
<1>1. RulesInv => OneLiveRule
  BY DEF RulesInv
<1> QED BY <1>1, RulesStart, RulesStep, PTL DEF Spec

-----------------------------------------------------------------------------
(* What the ladder reads.                                                  *)

(* At most one date, of two readings.                                      *)
DateOption(S) == S \subseteq Dates /\ \A s, t \in S : s = t

(* What stands as a date in a text is one.                                 *)
Readable(text) ==
  /\ DOMAIN text = 1 .. Len(text)
  /\ \A n \in DOMAIN text : text[n].k = "date" => text[n].v \in Dates

(* What every layer returns: fields, a confidence and at most one date.    *)
Result(r) == DOMAIN r = ResultFields /\ r.conf \subseteq Int /\ DateOption(r.time)

LEMMA BlankIsResult ==
  ASSUME NEW method, NEW conf, conf \subseteq Int
  PROVE  Result(Blank(method, conf))
  BY DEF Result, ResultFields, Blank, DateOption

(* What a rule captures as a date is one; so is what the layers find.      *)
LEMMA DateOfRule ==
  ASSUME NEW text, Readable(text), NEW r, Ruled(r), r.field = "time"
  PROVE  DateOption(Capture(r, text))
<1>1. r.fixed = {} /\ \A p \in r.place : p[1] = "date"
  BY DEF Ruled, Sighted
<1>2. PICK Q : Q = {m \in DOMAIN text : {Place(text[m])} = r.place}
  OBVIOUS
<1>3. Capture(r, text) = {text[n].v : n \in {m \in Q : \A k \in 1 .. m - 1 : k \notin Q}}
  <2>1. First(text, LAMBDA t : {Place(t)} = r.place)
        = {text[n] : n \in {m \in DOMAIN text :
             /\ {Place(text[m])} = r.place
             /\ \A k \in 1 .. m - 1 : ~ ({Place(text[k])} = r.place)}}
    BY DEF First
  <2>2. {m \in DOMAIN text : /\ {Place(text[m])} = r.place
                            /\ \A k \in 1 .. m - 1 : ~ ({Place(text[k])} = r.place)}
        = {m \in Q : \A k \in 1 .. m - 1 : k \notin Q}
    <3>1. ASSUME NEW m \in DOMAIN text, NEW k \in 1 .. m - 1
          PROVE  k \in DOMAIN text
      BY DEF Readable
    <3> QED BY <1>2, <3>1
  <2>3. Capture(r, text) = {t.v : t \in {text[n] : n \in {m \in Q : \A k \in 1 .. m - 1 : k \notin Q}}}
    BY <1>1, <2>1, <2>2 DEF Capture, Value
  <2> QED BY <2>3
<1>4. \A n \in Q : n \in DOMAIN text /\ text[n].v \in Dates
  <2> SUFFICES ASSUME NEW n \in Q PROVE n \in DOMAIN text /\ text[n].v \in Dates
    OBVIOUS
  <2>1. n \in DOMAIN text /\ Place(text[n]) \in r.place
    BY <1>2
  <2>2. text[n].k = "date"
    BY <1>1, <2>1 DEF Place
  <2> QED BY <2>1, <2>2 DEF Readable
<1>5. ASSUME NEW v \in Capture(r, text), NEW u \in Capture(r, text)
      PROVE  u = v
  <2>1. PICK n \in Q : v = text[n].v /\ \A k \in 1 .. n - 1 : k \notin Q
    BY <1>3
  <2>2. PICK m \in Q : u = text[m].v /\ \A k \in 1 .. m - 1 : k \notin Q
    BY <1>3
  <2>3. m = n
    BY <1>4, <2>1, <2>2 DEF Readable
  <2> QED BY <2>1, <2>2, <2>3
<1> QED BY <1>3, <1>4, <1>5 DEF DateOption

LEMMA DateWritten ==
  ASSUME NEW text, Readable(text)
  PROVE  DateOption(Of(text, {"date"}))
<1>1. ASSUME NEW v \in Of(text, {"date"})
      PROVE  \E n \in DOMAIN text : /\ v = text[n].v /\ text[n].k = "date"
                                    /\ \A k \in 1 .. n - 1 : text[k].k # "date"
  BY <1>1 DEF Of, Value, First
<1>2. ASSUME NEW v \in Of(text, {"date"}), NEW u \in Of(text, {"date"})
      PROVE  u = v
  <2>1. PICK n \in DOMAIN text : /\ v = text[n].v /\ text[n].k = "date"
                                 /\ \A k \in 1 .. n - 1 : text[k].k # "date"
    BY <1>1
  <2>2. PICK m \in DOMAIN text : /\ u = text[m].v /\ text[m].k = "date"
                                 /\ \A k \in 1 .. m - 1 : text[k].k # "date"
    BY <1>1
  <2>3. m = n
    BY <2>1, <2>2 DEF Readable
  <2> QED BY <2>1, <2>2, <2>3
<1> QED BY <1>1, <1>2 DEF DateOption, Readable

LEMMA DateLabelled ==
  ASSUME NEW text, Readable(text)
  PROVE  DateOption(Value(text, LAMBDA t : t.k = "date" /\ t.at = "on"))
<1> DEFINE V == Value(text, LAMBDA t : t.k = "date" /\ t.at = "on")
<1>1. ASSUME NEW v \in V
      PROVE  \E n \in DOMAIN text : /\ v = text[n].v /\ text[n].k = "date" /\ text[n].at = "on"
                                    /\ \A k \in 1 .. n - 1 : ~ (text[k].k = "date" /\ text[k].at = "on")
  BY <1>1 DEF Value, First
<1>2. ASSUME NEW v \in V, NEW u \in V
      PROVE  u = v
  <2>1. PICK n \in DOMAIN text : /\ v = text[n].v /\ text[n].k = "date" /\ text[n].at = "on"
                                 /\ \A k \in 1 .. n - 1 : ~ (text[k].k = "date" /\ text[k].at = "on")
    BY <1>1
  <2>2. PICK m \in DOMAIN text : /\ u = text[m].v /\ text[m].k = "date" /\ text[m].at = "on"
                                 /\ \A k \in 1 .. m - 1 : ~ (text[k].k = "date" /\ text[k].at = "on")
    BY <1>1
  <2>3. m = n
    BY <2>1, <2>2 DEF Readable
  <2> QED BY <2>1, <2>2, <2>3
<1>3. \A v \in V : v \in Dates
  BY <1>1 DEF Readable
<1> QED BY <1>2, <1>3 DEF DateOption

(* Of two rules for a field one goes before the other, or they are the     *)
(* same.                                                                   *)
LEMMA OneWinner ==
  ASSUME NEW R, \A r \in R : Ruled(r), NEW f, NEW text,
         NEW a \in Winner(R, f, text), NEW b \in Winner(R, f, text)
  PROVE  a = b
<1> SUFFICES ASSUME a # b PROVE FALSE
  OBVIOUS
<1>1. Before(a, b, text) /\ Before(b, a, text) /\ Ruled(a) /\ Ruled(b)
  BY DEF Winner
<1>2. PICK x, y : x = a.s * (b.s + b.f) /\ y = b.s * (a.s + a.f)
  OBVIOUS
<1>3. x \in Int /\ y \in Int /\ a.s \in Int /\ b.s \in Int /\ a.id \in Int /\ b.id \in Int
  BY <1>1, <1>2 DEF Ruled
<1>4. \/ x > y
      \/ ~ (y > x) /\ a.s > b.s
      \/ ~ (y > x) /\ a.s = b.s /\ a.id < b.id
  BY <1>1, <1>2 DEF Before
<1>5. \/ y > x
      \/ ~ (x > y) /\ b.s > a.s
      \/ ~ (x > y) /\ b.s = a.s /\ b.id < a.id
  BY <1>1, <1>2 DEF Before
<1> QED BY <1>3, <1>4, <1>5

LEMMA LearnedIsResult ==
  ASSUME NEW R, \A r \in R : Ruled(r), NEW text, Readable(text), NEW x, Result(x)
  PROVE  /\ Result(ApplyLearnedFields(R, text, x))
         /\ ApplyLearnedFields(R, text, x).method = x.method
<1>1. PICK y : y = ApplyLearnedFields(R, text, x)
  OBVIOUS
<1>2. DOMAIN y = ResultFields /\ \A f \in ResultFields :
        y[f] = IF Winner(R, f, text) = {} THEN x[f] ELSE UNION {Capture(r, text) : r \in Winner(R, f, text)}
  BY <1>1 DEF ApplyLearnedFields, Result
<1>3. \A f : f \notin Fields => Winner(R, f, text) = {}
  BY DEF Winner, Ruled
<1>4. y.method = x.method /\ y.conf = x.conf
  BY <1>2, <1>3 DEF Fields, Carriers, OverrideFields, ResultFields, Blank
<1>5. DateOption(y.time)
  <2>1. y.time = IF Winner(R, "time", text) = {} THEN x.time
                 ELSE UNION {Capture(r, text) : r \in Winner(R, "time", text)}
    BY <1>2 DEF ResultFields, Blank
  <2>2. CASE Winner(R, "time", text) = {}
    BY <2>1, <2>2 DEF Result
  <2>3. ASSUME NEW w \in Winner(R, "time", text)
        PROVE  DateOption(y.time)
    <3>1. Ruled(w) /\ w.field = "time"
      BY DEF Winner
    <3>2. \A r \in Winner(R, "time", text) : r = w
      BY OneWinner
    <3>3. y.time = Capture(w, text)
      BY <2>1, <3>2
    <3> QED BY <3>1, <3>3, DateOfRule
  <2> QED BY <2>2, <2>3
<1> QED BY <1>1, <1>2, <1>4, <1>5 DEF Result

(* A result of a layer: learned rules filled it, or it comes from another. *)
Grounds(R, text, x) ==
  /\ Result(x)
  /\ x.method = "learned_fields" => \E b : Result(b) /\ x = ApplyLearnedFields(R, text, b)

LEMMA LearnedLayer ==
  ASSUME NEW R, \A r \in R : Ruled(r), NEW text, Readable(text), NEW x \in LearnedFieldLayer(R, text)
  PROVE  Grounds(R, text, x)
<1>1. PICK b : b = Blank("learned_fields", {95}) /\ x = ApplyLearnedFields(R, text, b)
  BY DEF LearnedFieldLayer
<1>2. Result(b)
  BY <1>1, BlankIsResult
<1> QED BY <1>1, <1>2, LearnedIsResult DEF Grounds

LEMMA MatchedIsResult ==
  ASSUME NEW R, NEW text, Readable(text), NEW n \in DOMAIN Patterns
  PROVE  Grounds(R, text, Matched(Patterns[n], text))
<1>1. PICK p : p = Patterns[n]
  OBVIOUS
<1>2. p.groups \subseteq DOMAIN Group /\ DateOption(p.fallback)
  BY <1>1, LearningAssumption DEF DateOption, Option
<1>3. PICK blank, captured :
        /\ blank = Blank("bank_templates", {95})
        /\ captured = [f \in DOMAIN blank |-> IF f \in p.groups THEN Of(text, Group[f]) ELSE blank[f]]
  OBVIOUS
<1>4. PICK x : x = [captured EXCEPT !.direction = {p.direction}, !.currency = {p.currency},
                                    !.time = Fill(captured.time, p.fallback),
                                    !.instrument = p.instrument]
  OBVIOUS
<1>5. Matched(p, text) = x
  BY <1>3, <1>4 DEF Matched
<1>6. DOMAIN blank = ResultFields /\ blank.method = "bank_templates" /\ blank.conf = {95} /\ blank.time = {}
  BY <1>3 DEF Blank, ResultFields
<1>7. DOMAIN captured = ResultFields /\ captured.method = "bank_templates" /\ captured.conf = {95}
      /\ (captured.time = {} \/ captured.time = Of(text, {"date"}))
  <2>1. "method" \notin p.groups /\ "conf" \notin p.groups /\ Group["time"] = {"date"}
    BY <1>2 DEF Group
  <2> QED BY <1>3, <1>6, <2>1 DEF ResultFields, Blank
<1>8. DOMAIN x = ResultFields /\ x.method = "bank_templates" /\ x.conf = {95}
      /\ x.time = Fill(captured.time, p.fallback)
  BY <1>4, <1>7 DEF ResultFields, Blank
<1>9. DateOption(x.time)
  BY <1>2, <1>7, <1>8, DateWritten DEF Fill
<1> QED BY <1>1, <1>5, <1>8, <1>9 DEF Grounds, Result

LEMMA BankLayer ==
  ASSUME NEW R, NEW text, Readable(text), NEW x \in BankTemplateLayer(text)
  PROVE  Grounds(R, text, x)
<1>1. \E n \in DOMAIN Patterns : x = Matched(Patterns[n], text)
  BY DEF BankTemplateLayer, First, Fill
<1> QED BY <1>1, MatchedIsResult

LEMMA GenericLayer ==
  ASSUME NEW R, NEW text, Readable(text)
  PROVE  Grounds(R, text, GenericRegexLayer(text))
<1>1. PICK x : x = GenericRegexLayer(text)
  OBVIOUS
<1>2. DOMAIN x = ResultFields /\ x.method = "generic_regex" /\ x.time = Of(text, {"date"})
  BY <1>1 DEF GenericRegexLayer, Blank, ResultFields
<1>3. x.conf \subseteq Int
  BY <1>1 DEF GenericRegexLayer, Blank, Min2
<1> QED BY <1>1, <1>2, <1>3, DateWritten DEF Grounds, Result

LEMMA TokenLayer ==
  ASSUME NEW R, NEW text, Readable(text)
  PROVE  Grounds(R, text, NlpLayer(text))
<1>1. PICK x : x = NlpLayer(text)
  OBVIOUS
<1>2. DOMAIN x = ResultFields /\ x.method = "nlp" /\ x.conf = {}
  BY <1>1 DEF NlpLayer, Blank, ResultFields
<1>3. x.time = Fill(Value(text, LAMBDA t : t.k = "date" /\ t.at = "on"), Of(text, {"date"}))
  BY <1>1 DEF NlpLayer, Blank
<1>4. DateOption(x.time)
  BY <1>3, DateWritten, DateLabelled DEF Fill
<1> QED BY <1>1, <1>2, <1>4 DEF Grounds, Result

LEMMA SignalsKeep ==
  ASSUME NEW text, NEW x, DOMAIN x = ResultFields
  PROVE  /\ DOMAIN ApplyInstrumentSignals(x, text) = ResultFields
         /\ \A f \in ResultFields :
              (x[f] # {} \/ f \notin {"issuer", "network", "vpa", "instrument", "mask"})
                => ApplyInstrumentSignals(x, text)[f] = x[f]
<1>1. PICK signals : signals = InstrumentSignals(text)
  OBVIOUS
<1>2. DOMAIN signals = {"issuer", "network", "vpa", "instrument", "mask"}
  BY <1>1 DEF InstrumentSignals
<1>3. ApplyInstrumentSignals(x, text)
      = [f \in ResultFields |-> IF f \in DOMAIN signals THEN Fill(x[f], signals[f]) ELSE x[f]]
  BY <1>1 DEF ApplyInstrumentSignals
<1> QED BY <1>2, <1>3 DEF Fill

LEMMA StatementLayer ==
  ASSUME NEW R, NEW text, NEW received, NEW x \in CrossrefLayer(text, received)
  PROVE  Grounds(R, text, x)
<1>1. PICK e, y :
        /\ e \in Entries
        /\ x = ApplyInstrumentSignals(y, text)
        /\ y = [Blank("layer5_statement_crossref", {90}) EXCEPT
                  !.amount = e.amount, !.currency = e.currency, !.direction = e.direction,
                  !.time = {[on |-> e.day, other |-> e.day]}, !.merchant = e.merchant,
                  !.reference = e.reference]
  BY DEF CrossrefLayer
<1>2. /\ DOMAIN y = ResultFields /\ y.method = "layer5_statement_crossref" /\ y.conf = {90}
      /\ y.time = {[on |-> e.day, other |-> e.day]}
  BY <1>1 DEF Blank, ResultFields
<1>3. DateOption(y.time)
  BY <1>1, <1>2, LearningAssumption DEF DateOption, Dates
<1>4. DOMAIN x = ResultFields /\ x.method = y.method /\ x.conf = y.conf /\ x.time = y.time
  <2>1. x = ApplyInstrumentSignals(y, text) /\ DOMAIN y = ResultFields
    BY <1>1, <1>2
  <2>2. /\ DOMAIN ApplyInstrumentSignals(y, text) = ResultFields
        /\ \A f \in ResultFields :
             (y[f] # {} \/ f \notin {"issuer", "network", "vpa", "instrument", "mask"})
               => ApplyInstrumentSignals(y, text)[f] = y[f]
    BY <2>1, SignalsKeep
  <2>3. DOMAIN x = ResultFields /\ \A f \in ResultFields :
          f \notin {"issuer", "network", "vpa", "instrument", "mask"} => x[f] = y[f]
    BY <2>1, <2>2
  <2>4. {"method", "conf", "time"} \subseteq ResultFields \ {"issuer", "network", "vpa", "instrument", "mask"}
    BY DEF ResultFields, Blank
  <2> QED BY <2>3, <2>4
<1> QED BY <1>2, <1>3, <1>4 DEF Grounds, Result

LEMMA LayersGround ==
  ASSUME NEW R, \A r \in R : Ruled(r), NEW text, Readable(text), NEW received, NEW x,
         x \in LearnedFieldLayer(R, text) \/ x \in BankTemplateLayer(text)
         \/ x = GenericRegexLayer(text) \/ x = NlpLayer(text) \/ x \in CrossrefLayer(text, received)
  PROVE  Grounds(R, text, x)
  BY LearnedLayer, BankLayer, GenericLayer, TokenLayer, StatementLayer

(* What the ladder returns is the result of a layer, relearned, enriched   *)
(* and checked.                                                            *)
LEMMA LadderSteps ==
  ASSUME NEW R, \A r \in R : Ruled(r), NEW text, Readable(text), NEW received,
         NEW x \in RunExtractionLadder(R, text, received)
  PROVE  \E y, z, e, c : /\ Grounds(R, text, y) /\ z = Relearned(R, text, y)
                         /\ e = Enriched(z, text) /\ c = ApplyAmountCrossCheck(e, text)
                         /\ x = ApplyDateCrossCheck(c, received)
<1>1. PICK layers : layers = <<LearnedFieldLayer(R, text), BankTemplateLayer(text),
                      {GenericRegexLayer(text)}, {NlpLayer(text)}, CrossrefLayer(text, received)>>
  OBVIOUS
<1>2. PICK winning : /\ winning = First(layers, LAMBDA layer : \E r \in layer : Valid(r))
                     /\ x \in FinalizeResult(R, text, received, UNION winning)
  BY <1>1 DEF RunExtractionLadder
<1>3. \A layer \in winning : \E n \in DOMAIN layers : layer = layers[n]
  BY <1>2 DEF First
<1>4. PICK y \in UNION winning : LET z == Relearned(R, text, y)
                                     e == Enriched(z, text)
                                     c == ApplyAmountCrossCheck(e, text)
                                 IN x = ApplyDateCrossCheck(c, received)
  BY <1>2 DEF FinalizeResult
<1>5. \E n \in DOMAIN layers : y \in layers[n]
  BY <1>3
<1>6. DOMAIN layers = 1 .. 5
  BY <1>1
<1>7. \E n \in 1 .. 5 : y \in layers[n]
  BY <1>5, <1>6
<1>8. Grounds(R, text, y)
  BY <1>1, <1>7, LayersGround
<1> QED BY <1>4, <1>8

LEMMA EnrichedKeeps ==
  ASSUME NEW text, NEW z, Result(z)
  PROVE  /\ Result(Enriched(z, text))
         /\ \A f \in Fields : z[f] # {} => Enriched(z, text)[f] = z[f]
<1>1. PICK s, m : s = ApplyInstrumentSignals(z, text)
                  /\ m = [s EXCEPT !.installment = Fill(s.installment, Of(text, {"emi"}))]
  OBVIOUS
<1>2. PICK e : e = [m EXCEPT !.original = Fill(m.original, DetectForeignAmount(m, text)),
                             !.channel  = Fill(m.channel, DetectChannel(m, text))]
  OBVIOUS
<1>3. e = Enriched(z, text)
  BY <1>1, <1>2 DEF Enriched
<1>4. DOMAIN z = ResultFields
  BY DEF Result
<1>5. DOMAIN s = ResultFields /\ s.conf = z.conf /\ s.time = z.time
      /\ \A f \in ResultFields : z[f] # {} => s[f] = z[f]
  BY <1>1, <1>4, SignalsKeep DEF ResultFields, Blank
<1>6. DOMAIN m = ResultFields /\ \A f \in ResultFields \ {"installment"} : m[f] = s[f]
  BY <1>1, <1>5
<1>7. DOMAIN e = ResultFields /\ \A f \in ResultFields \ {"installment", "original", "channel"} : e[f] = s[f]
  BY <1>2, <1>6
<1>8. Fields \subseteq ResultFields \ {"installment", "original", "channel"}
  BY DEF Fields, Carriers, OverrideFields, ResultFields, Blank
<1>9. e.conf = z.conf /\ e.time = z.time
  BY <1>5, <1>7 DEF ResultFields, Blank
<1> QED BY <1>3, <1>5, <1>7, <1>8, <1>9 DEF Result

LEMMA Capped ==
  ASSUME NEW S, S \subseteq Int
  PROVE  LET T == Fill({Min2(c, CrossCheckConfidence) : c \in S}, {CrossCheckConfidence})
         IN T \subseteq Int /\ \A c \in T : c <= CrossCheckConfidence
  BY DEF Fill, Min2, CrossCheckConfidence

LEMMA CappedLower ==
  ASSUME NEW S, S \subseteq Int
  PROVE  LET T == Fill({Min2((c * 4) \div 5, CrossCheckConfidence) : c \in S}, {CrossCheckConfidence})
         IN T \subseteq Int /\ \A c \in T : c <= CrossCheckConfidence
<1>1. ASSUME NEW n \in Int
      PROVE  Min2(n, CrossCheckConfidence) \in Int /\ Min2(n, CrossCheckConfidence) <= CrossCheckConfidence
  BY DEF Min2, CrossCheckConfidence
<1>2. \A c \in S : (c * 4) \div 5 \in Int
  OBVIOUS
<1>3. PICK L : L = {Min2((c * 4) \div 5, CrossCheckConfidence) : c \in S}
  OBVIOUS
<1>4. L \subseteq Int /\ \A c \in L : c <= CrossCheckConfidence
  BY <1>1, <1>2, <1>3
<1>5. Fill(L, {CrossCheckConfidence}) \subseteq L \cup {CrossCheckConfidence}
  BY DEF Fill
<1>6. CrossCheckConfidence \in Int /\ CrossCheckConfidence <= CrossCheckConfidence
  BY DEF CrossCheckConfidence
<1> QED BY <1>3, <1>4, <1>5, <1>6

LEMMA AmountChecked ==
  ASSUME NEW text, NEW e, Result(e)
  PROVE  LET c    == ApplyAmountCrossCheck(e, text)
             read == {t.v : t \in AmountRead(text)}
         IN /\ Result(c) /\ \A f \in ResultFields \ {"conf"} : c[f] = e[f]
            /\ (c.amount # {} /\ read # {} /\ read # c.amount /\ read # c.original)
                 => \A n \in c.conf : n <= CrossCheckConfidence
<1>1. PICK c, read, low :
        /\ c = ApplyAmountCrossCheck(e, text) /\ read = {t.v : t \in AmountRead(text)}
        /\ low = Fill({Min2((n * 4) \div 5, CrossCheckConfidence) : n \in e.conf}, {CrossCheckConfidence})
  OBVIOUS
<1>2. low \subseteq Int /\ \A n \in low : n <= CrossCheckConfidence
  BY <1>1, CappedLower DEF Result
<1>3. c = IF {} \notin {e.amount, read} /\ read \notin {e.amount, e.original}
          THEN [e EXCEPT !.conf = low] ELSE e
  BY <1>1 DEF ApplyAmountCrossCheck
<1>4. DOMAIN e = ResultFields /\ {"conf", "time", "amount", "original"} \subseteq ResultFields
  BY DEF Result, ResultFields, Blank
<1>5. CASE {} \notin {e.amount, read} /\ read \notin {e.amount, e.original}
  <2>1. DOMAIN c = ResultFields /\ c.conf = low /\ \A f \in ResultFields \ {"conf"} : c[f] = e[f]
    BY <1>3, <1>4, <1>5
  <2>2. c.time = e.time
    BY <1>4, <2>1
  <2> QED BY <1>1, <1>2, <2>1, <2>2 DEF Result
<1>6. CASE ~ ({} \notin {e.amount, read} /\ read \notin {e.amount, e.original})
  <2>1. c = e
    BY <1>3, <1>6
  <2> QED BY <1>1, <1>6, <2>1
<1> QED BY <1>5, <1>6

DayOption(S) == S \subseteq Int /\ \A d, e \in S : d = e

Doubted(x) == \A c \in x.conf : c <= CrossCheckConfidence

(* Of two readings of a date, the one decisively nearer to the mail is     *)
(* taken, and none is trusted that is weeks away.                          *)
Anchored(x, received) ==
  \A t \in x.time, d \in received : t.on # t.other =>
    /\ ((\A e \in received : Distance(t.on, e) > PlausibleDelay)
        /\ (\A e \in received : Distance(t.other, e) > PlausibleDelay)) => Doubted(x)
    /\ ~ (\A e \in received : Distance(t.other, e) > PlausibleDelay)
         => Distance(t.on, d) <= DecisiveRatio * Distance(t.other, d)

SwapDue(c, received) ==
  \E t \in c.time : t.on # t.other /\ \E d \in received :
    /\ Distance(t.other, d) <= PlausibleDelay
    /\ Distance(t.other, d) * DecisiveRatio < Distance(t.on, d)

AnchorLost(c, received) ==
  \E t \in c.time : t.on # t.other /\ \E d \in received :
    Distance(t.on, d) > PlausibleDelay /\ Distance(t.other, d) > PlausibleDelay

LEMMA DateCheckCases ==
  ASSUME NEW c, NEW received, NEW exchanged, NEW low,
         exchanged = {[on |-> t.other, other |-> t.on] : t \in c.time},
         low = Fill({Min2(n, CrossCheckConfidence) : n \in c.conf}, {CrossCheckConfidence})
  PROVE  ApplyDateCrossCheck(c, received) =
           IF SwapDue(c, received) THEN [c EXCEPT !.time = exchanged, !.flag = "swapped_by_anchor"]
           ELSE IF AnchorLost(c, received)
           THEN [c EXCEPT !.flag = "anchor_mismatch_needs_review", !.conf = low]
           ELSE c
  BY DEF ApplyDateCrossCheck, SwapDue, AnchorLost

LEMMA DateChecked ==
  ASSUME NEW c, Result(c), NEW received, DayOption(received),
         NEW x, x = ApplyDateCrossCheck(c, received)
  PROVE  /\ \A f \in ResultFields \ {"conf", "flag", "time"} : x[f] = c[f]
         /\ x.time = c.time \/ x.flag = "swapped_by_anchor"
         /\ Doubted(c) => Doubted(x)
         /\ Anchored(x, received)
<1>1. PICK exchanged, low :
        /\ exchanged = {[on |-> t.other, other |-> t.on] : t \in c.time}
        /\ low = Fill({Min2(n, CrossCheckConfidence) : n \in c.conf}, {CrossCheckConfidence})
  OBVIOUS
<1>2. x = IF SwapDue(c, received) THEN [c EXCEPT !.time = exchanged, !.flag = "swapped_by_anchor"]
          ELSE IF AnchorLost(c, received)
          THEN [c EXCEPT !.flag = "anchor_mismatch_needs_review", !.conf = low]
          ELSE c
  BY <1>1, DateCheckCases
<1>3. DOMAIN c = ResultFields /\ {"conf", "flag", "time"} \subseteq ResultFields
      /\ c.conf \subseteq Int /\ c.time \subseteq Dates /\ \A s, t \in c.time : s = t
  BY DEF Result, ResultFields, Blank, DateOption
<1>4. low \subseteq Int /\ \A n \in low : n <= CrossCheckConfidence
  BY <1>1, <1>3, Capped
<1>5. \A t \in Dates, d \in received : /\ Distance(t.on, d) \in Int /\ Distance(t.other, d) \in Int
                                       /\ Distance(t.on, d) >= 0 /\ Distance(t.other, d) >= 0
  BY DEF Dates, Distance, DayOption
<1>6. CASE SwapDue(c, received)
  <2>1. PICK u \in c.time, s \in received :
          /\ Distance(u.other, s) <= PlausibleDelay
          /\ Distance(u.other, s) * DecisiveRatio < Distance(u.on, s)
    BY <1>6 DEF SwapDue
  <2>2. DOMAIN x = ResultFields /\ x.time = exchanged /\ x.flag = "swapped_by_anchor"
        /\ \A f \in ResultFields \ {"flag", "time"} : x[f] = c[f]
    BY <1>2, <1>3, <1>6
  <2>3. PICK v : v = [on |-> u.other, other |-> u.on]
    OBVIOUS
  <2>4. \A t \in x.time : t = v
    BY <1>1, <1>3, <2>2, <2>3
  <2>5. \A d \in received : d = s
    BY DEF DayOption
  <2>6. u \in Dates /\ v.on = u.other /\ v.other = u.on
    BY <1>3, <2>3
  <2>7. ASSUME NEW d \in received
        PROVE  /\ ~ (Distance(v.on, d) > PlausibleDelay)
               /\ Distance(v.on, d) <= DecisiveRatio * Distance(v.other, d)
    BY <1>5, <2>1, <2>5, <2>6 DEF PlausibleDelay, DecisiveRatio
  <2>8. "conf" \in ResultFields \ {"flag", "time"}
    BY <1>3
  <2>9. x.conf = c.conf
    BY <2>2, <2>8
  <2>10. Anchored(x, received)
    BY <2>4, <2>7 DEF Anchored
  <2> QED BY <2>2, <2>9, <2>10 DEF Doubted
<1>7. CASE ~ SwapDue(c, received)
  <2>1. ASSUME NEW t \in c.time, NEW d \in received, t.on # t.other,
               ~ (\A e \in received : Distance(t.other, e) > PlausibleDelay)
        PROVE  Distance(t.on, d) <= DecisiveRatio * Distance(t.other, d)
    <3>1. Distance(t.other, d) <= PlausibleDelay
      <4>1. PICK e \in received : ~ (Distance(t.other, e) > PlausibleDelay)
        BY <2>1
      <4>2. d = e /\ t \in Dates
        BY <1>3 DEF DayOption
      <4>3. Distance(t.other, d) \in Int
        BY <1>5, <4>2
      <4> QED BY <4>1, <4>2, <4>3 DEF PlausibleDelay
    <3>2. ~ (Distance(t.other, d) * DecisiveRatio < Distance(t.on, d))
      BY <1>7, <2>1, <3>1 DEF SwapDue
    <3> QED BY <1>3, <1>5, <3>2 DEF DecisiveRatio
  <2>2. CASE AnchorLost(c, received)
    <3>1. x = [c EXCEPT !.flag = "anchor_mismatch_needs_review", !.conf = low]
      BY <1>2, <1>7, <2>2
    <3>2. DOMAIN x = ResultFields /\ x.conf = low
          /\ \A f \in ResultFields \ {"conf", "flag"} : x[f] = c[f]
      BY <1>3, <3>1
    <3>3. x.time = c.time
      BY <1>3, <3>2
    <3>4. Doubted(x)
      BY <1>4, <3>2 DEF Doubted
    <3>5. Anchored(x, received)
      BY <2>1, <3>3, <3>4 DEF Anchored
    <3> QED BY <3>2, <3>3, <3>4, <3>5
  <2>3. CASE ~ AnchorLost(c, received)
    <3>1. x = c
      BY <1>2, <1>7, <2>3
    <3>2. ASSUME NEW t \in c.time, NEW d \in received, t.on # t.other
          PROVE  ~ ((\A e \in received : Distance(t.on, e) > PlausibleDelay)
                    /\ (\A e \in received : Distance(t.other, e) > PlausibleDelay))
      BY <2>3, <3>2 DEF AnchorLost
    <3>3. Anchored(x, received)
      BY <2>1, <3>1, <3>2 DEF Anchored
    <3> QED BY <3>1, <3>3
  <2> QED BY <2>2, <2>3
<1> QED BY <1>6, <1>7

LEMMA LadderTrusted ==
  ASSUME NEW R, \A r \in R : Ruled(r), NEW text, Readable(text), NEW received, DayOption(received),
         NEW x \in RunExtractionLadder(R, text, received)
  PROVE  /\ x.amount # {} /\ {t.v : t \in AmountRead(text)} \notin {{}, x.amount, x.original} => Doubted(x)
         /\ Anchored(x, received)
<1>1. PICK y, z, full, c : /\ Grounds(R, text, y) /\ z = Relearned(R, text, y)
                        /\ full = Enriched(z, text) /\ c = ApplyAmountCrossCheck(full, text)
                        /\ x = ApplyDateCrossCheck(c, received)
  BY LadderSteps
<1>2. Result(z)
  BY <1>1, LearnedIsResult DEF Grounds, Relearned
<1>3. Result(full)
  BY <1>1, <1>2, EnrichedKeeps
<1>4. PICK read : read = {t.v : t \in AmountRead(text)}
  OBVIOUS
<1>5. /\ Result(c)
      /\ (c.amount # {} /\ read # {} /\ read # c.amount /\ read # c.original)
           => Doubted(c)
  BY <1>1, <1>3, <1>4, AmountChecked DEF Doubted
<1>6. /\ \A f \in ResultFields \ {"conf", "flag", "time"} : x[f] = c[f]
      /\ Doubted(c) => Doubted(x)
      /\ Anchored(x, received)
  BY <1>1, <1>5, DateChecked
<1>7. x.amount = c.amount /\ x.original = c.original
  <2>1. {"amount", "original"} \subseteq ResultFields \ {"conf", "flag", "time"}
    BY DEF ResultFields, Blank
  <2> QED BY <1>6, <2>1
<1> QED BY <1>4, <1>5, <1>6, <1>7

(* A live rule of the very template and field goes before every other.     *)
LEMMA OwnRuleWins ==
  ASSUME OneLiveRule, \A q \in rules : Ruled(q), NEW text, NEW r \in LiveRules,
         r.template = Template(text), Capture(r, text) # {}
  PROVE  Winner(LiveRules, r.field, text) = {r}
<1>1. ASSUME NEW q \in LiveRules, q.field = r.field, q # r
      PROVE  q.template # Template(text)
  BY <1>1 DEF LiveRules, OneLiveRule, Live
<1>2. ASSUME NEW q \in LiveRules, q.field = r.field, q # r
      PROVE  Before(r, q, text) /\ ~ Before(q, r, text)
  BY <1>1, <1>2 DEF Before
<1>3. r \in Winner(LiveRules, r.field, text)
  BY <1>2 DEF Winner
<1>4. ASSUME NEW q \in Winner(LiveRules, r.field, text)
      PROVE  q = r
  BY <1>2 DEF Winner
<1> QED BY <1>3, <1>4

LEMMA LadderObeys ==
  ASSUME RulesInv, NEW i \in Messages, NEW r \in LiveRules,
         r.template = Template(Text[i]), Capture(r, Text[i]) # {},
         NEW x \in RunExtractionLadder(LiveRules, Text[i], Received[i])
  PROVE  x[r.field] = Capture(r, Text[i])
         \/ (r.field = "time" /\ x.flag = "swapped_by_anchor")
<1>1. PICK text, received, f : text = Text[i] /\ received = Received[i] /\ f = r.field
  OBVIOUS
<1>2. /\ Readable(text) /\ DayOption(received)
      /\ \A q \in LiveRules : Ruled(q)
      /\ f \in Fields /\ \A b : Result(b) => f \in DOMAIN b
  <2>1. Ruled(r) /\ \A q \in LiveRules : Ruled(q)
    BY DEF RulesInv, LiveRules
  <2>2. Fields \subseteq ResultFields
    BY DEF Fields, Carriers, OverrideFields, ResultFields, Blank
  <2> QED BY <1>1, <2>1, <2>2, LearningAssumption DEF Readable, DayOption, Option, Ruled, Result
<1>3. Winner(LiveRules, f, text) = {r}
  BY <1>1, OwnRuleWins DEF RulesInv
<1>4. PICK y, z, e, c : /\ Grounds(LiveRules, text, y) /\ z = Relearned(LiveRules, text, y)
                        /\ e = Enriched(z, text) /\ c = ApplyAmountCrossCheck(e, text)
                        /\ x = ApplyDateCrossCheck(c, received)
  BY <1>1, <1>2, LadderSteps
<1>5. ASSUME NEW b, Result(b)
      PROVE  ApplyLearnedFields(LiveRules, text, b)[f] = Capture(r, text)
  <2>1. UNION {Capture(q, text) : q \in {r}} = Capture(r, text)
    OBVIOUS
  <2> QED BY <1>2, <1>3, <1>5, <2>1 DEF ApplyLearnedFields
<1>6. Result(z) /\ z[f] = Capture(r, text)
  BY <1>2, <1>4, <1>5, LearnedIsResult DEF Grounds, Relearned
<1>7. Result(e) /\ e[f] = z[f]
  BY <1>1, <1>2, <1>4, <1>6, EnrichedKeeps
<1>8. f \in ResultFields \ {"conf", "flag"} /\ "time" \in ResultFields \ {"conf", "flag"}
  BY <1>2 DEF Fields, Carriers, OverrideFields, ResultFields, Blank
<1>9. Result(c) /\ c[f] = e[f]
  BY <1>4, <1>7, <1>8, AmountChecked
<1>10. /\ \A g \in ResultFields \ {"conf", "flag", "time"} : x[g] = c[g]
       /\ x.time = c.time \/ x.flag = "swapped_by_anchor"
  BY <1>2, <1>4, <1>9, DateChecked
<1>11. x[f] = c[f] \/ (f = "time" /\ x.flag = "swapped_by_anchor")
  <2>1. CASE f = "time"
    BY <1>10, <2>1
  <2>2. CASE f # "time"
    BY <1>8, <1>10, <2>2
  <2> QED BY <2>1, <2>2
<1> QED BY <1>1, <1>6, <1>7, <1>9, <1>11

LEMMA LadderFields ==
  ASSUME NEW R, \A r \in R : Ruled(r), NEW text, Readable(text), NEW received,
         NEW x \in RunExtractionLadder(R, text, received)
  PROVE  DOMAIN x = ResultFields
<1>1. PICK y, z, e, c : /\ Grounds(R, text, y) /\ z = Relearned(R, text, y)
                        /\ e = Enriched(z, text) /\ c = ApplyAmountCrossCheck(e, text)
                        /\ x = ApplyDateCrossCheck(c, received)
  BY LadderSteps
<1>2. Result(z)
  BY <1>1, LearnedIsResult DEF Grounds, Relearned
<1>3. Result(e)
  BY <1>1, <1>2, EnrichedKeeps
<1>4. PICK u, v : u = [c EXCEPT !.time = {[on |-> t.other, other |-> t.on] : t \in c.time},
                                !.flag = "swapped_by_anchor"]
                  /\ v = [c EXCEPT !.flag = "anchor_mismatch_needs_review",
                                   !.conf = Fill({Min2(k, CrossCheckConfidence) : k \in c.conf},
                                                 {CrossCheckConfidence})]
  OBVIOUS
<1>5. x \in {c, u, v}
  BY <1>1, <1>4 DEF ApplyDateCrossCheck
<1>6. DOMAIN c = ResultFields
  BY <1>1, <1>3, AmountChecked DEF Result
<1> QED BY <1>4, <1>5, <1>6

(* Tidying replaces a name and fills what is missing; only for want of a   *)
(* name does it put the placeholder of a balance.                          *)
TidyOf(x, y, day) ==
  /\ DOMAIN x = ResultFields
  /\ \A f \in ResultFields \ {"merchant", "amount", "direction", "currency", "time"} : x[f] = y[f]
  /\ \A f \in {"amount", "direction", "currency"} :
       \/ x[f] = y[f]
       \/ /\ y[f] = {} /\ x.merchant = {"balance update"}
          /\ x[f] \in {{0}, {"unknown"}, {"INR"}}
  /\ y.time # {} => x.time = y.time
  /\ y.time = {} => \A t \in x.time : \E d \in day : t = [on |-> d, other |-> d]
  /\ x.merchant \subseteq y.merchant \/ x.merchant \in {{"internal transfer"}, {}, {"balance update"}}
  /\ y.merchant # {} /\ y.merchant \cap (Implausible \cup OwnAccounts) = {} => x.merchant = y.merchant

LEMMA TidyingKeeps ==
  ASSUME NEW y, DOMAIN y = ResultFields, NEW day, NEW x, x = Tidied(day, "transaction", y)
  PROVE  TidyOf(x, y, day)
<1>1. {"method", "conf", "flag", "merchant", "amount", "direction", "currency", "time", "balance"}
        \subseteq ResultFields
  BY DEF ResultFields, Blank
<1>2. PICK days, timed : /\ days = {[on |-> d, other |-> d] : d \in day}
                         /\ timed = [y EXCEPT !.time = Fill(@, days)]
  OBVIOUS
<1>3. /\ DOMAIN timed = ResultFields /\ timed.time = Fill(y.time, days)
      /\ \A f \in ResultFields \ {"time"} : timed[f] = y[f]
  BY <1>1, <1>2
<1>4. PICK named : named = SelfTransfer(timed)
  OBVIOUS
<1>5. /\ DOMAIN named = ResultFields
      /\ \A f \in ResultFields \ {"merchant"} : named[f] = timed[f]
      /\ named.merchant \in {timed.merchant, {"internal transfer"}}
      /\ timed.merchant # {} /\ timed.merchant \cap OwnAccounts = {} => named.merchant = timed.merchant
  BY <1>1, <1>3, <1>4 DEF SelfTransfer
<1>6. PICK plain : plain = [named EXCEPT !.merchant = @ \ Implausible]
  OBVIOUS
<1>7. /\ DOMAIN plain = ResultFields
      /\ \A f \in ResultFields \ {"merchant"} : plain[f] = named[f]
      /\ plain.merchant = named.merchant \ Implausible
  BY <1>1, <1>5, <1>6
<1>8. x = BalancePlaceholder("transaction", plain)
  BY <1>2, <1>4, <1>6 DEF Tidied
<1>10. PICK amount, direction, currency :
         /\ amount = Fill(plain.amount, {0}) /\ direction = Fill(plain.direction, {"unknown"})
         /\ currency = Fill(plain.currency, {"INR"})
  OBVIOUS
<1>11. PICK held : held = [plain EXCEPT !.merchant = {"balance update"}, !.amount = amount,
                                       !.direction = direction, !.currency = currency]
  OBVIOUS
<1>12. x = plain \/ (x = held /\ plain.merchant = {})
  BY <1>1, <1>7, <1>8, <1>10, <1>11 DEF BalancePlaceholder
<1>13. /\ DOMAIN held = ResultFields /\ held.merchant = {"balance update"}
       /\ held.amount = amount /\ held.direction = direction /\ held.currency = currency
       /\ \A f \in ResultFields \ {"merchant", "amount", "direction", "currency"} : held[f] = plain[f]
  BY <1>1, <1>7, <1>11
<1>14. /\ DOMAIN x = ResultFields
       /\ \A f \in ResultFields \ {"merchant", "amount", "direction", "currency"} : x[f] = plain[f]
  BY <1>7, <1>12, <1>13
<1>15. /\ x.amount = y.amount \/ (y.amount = {} /\ x.merchant = {"balance update"} /\ x.amount = {0})
       /\ x.direction = y.direction
          \/ (y.direction = {} /\ x.merchant = {"balance update"} /\ x.direction = {"unknown"})
       /\ x.currency = y.currency
          \/ (y.currency = {} /\ x.merchant = {"balance update"} /\ x.currency = {"INR"})
  <2>1. plain.amount = y.amount /\ plain.direction = y.direction /\ plain.currency = y.currency
    BY <1>1, <1>3, <1>5, <1>7
  <2>2. CASE x = plain
    BY <2>1, <2>2
  <2>3. CASE x = held
    BY <1>10, <1>13, <2>1, <2>3 DEF Fill
  <2> QED BY <1>12, <2>2, <2>3
<1>16. \A f \in ResultFields \ {"merchant", "amount", "direction", "currency", "time"} : x[f] = y[f]
  BY <1>3, <1>5, <1>7, <1>14
<1>17. /\ y.time # {} => x.time = y.time
       /\ y.time = {} => \A t \in x.time : \E d \in day : t = [on |-> d, other |-> d]
  <2>1. x.time = timed.time
    BY <1>1, <1>5, <1>7, <1>14
  <2> QED BY <1>2, <1>3, <2>1 DEF Fill
<1>18. x.merchant \subseteq y.merchant \/ x.merchant \in {{"internal transfer"}, {}, {"balance update"}}
  <2>1. plain.merchant \subseteq y.merchant \/ plain.merchant \in {{"internal transfer"}, {}}
    BY <1>1, <1>3, <1>5, <1>7
  <2> QED BY <1>12, <1>13, <2>1
<1>19. y.merchant # {} /\ y.merchant \cap (Implausible \cup OwnAccounts) = {} => x.merchant = y.merchant
  <2>1. ASSUME y.merchant # {}, y.merchant \cap (Implausible \cup OwnAccounts) = {}
        PROVE  plain.merchant = y.merchant
    BY <1>1, <1>3, <1>5, <1>7, <2>1
  <2> QED BY <1>12, <2>1
<1> QED BY <1>14, <1>15, <1>16, <1>17, <1>18, <1>19 DEF TidyOf

(* What a message becomes when it arrives.                                 *)
LEMMA Arrival ==
  ASSUME NEW i \in Messages, Intake(i)
  PROVE  \E x : /\ \/ x \in AsRead(i)
                   \/ x = Blank("none", {})
                /\ mail' = [mail EXCEPT ![i] =
                     [phase |-> IF PassesGate3(x) THEN "booked" ELSE "parked", by |-> "ladder", result |-> x]]
  BY DEF Intake, Fill

(* A live rule taught on the very template of a message decides its field, *)
(* for all texts and rules (apply_learned_fields, ladder.rs:154-273): no   *)
(* other rule of that template is live, so none goes before it, and        *)
(* finalize_result fills only what is still empty.                         *)
THEOREM LessonsAreHeeded == Spec => LessonWins
<1>1. ASSUME RulesInv, NEW i \in Messages, mail'[i] # mail[i], Intake(i),
             mail'[i].result.method # "none", NEW r \in LiveRules,
             r.template = Template(Text[i]), Capture(r, Text[i]) # {}
      PROVE  \/ mail'[i].result[r.field] = Capture(r, Text[i])
             \/ r.field = "time" /\ mail'[i].result.flag = "swapped_by_anchor"
             \/ r.field = "merchant" /\ Capture(r, Text[i]) \cap (Implausible \cup OwnAccounts) # {}
  <2>1. PICK x, m : /\ \/ x \in AsRead(i)
                       \/ x = Blank("none", {})
                    /\ m = [phase |-> IF PassesGate3(x) THEN "booked" ELSE "parked",
                            by |-> "ladder", result |-> x]
                    /\ mail' = [mail EXCEPT ![i] = m]
    BY <1>1, Arrival
  <2>2. mail'[i] = m /\ m.result = x
    BY <1>1, <2>1
  <2>3. Blank("none", {}).method = "none"
    BY DEF Blank
  <2>4. x \in AsRead(i)
    BY <1>1, <2>1, <2>2, <2>3
  <2>5. PICK y \in RunExtractionLadder(LiveRules, Text[i], Received[i]) :
               x = Tidied(Received[i], "transaction", y)
    BY <2>4 DEF AsRead
  <2>6. PICK captured, f : captured = Capture(r, Text[i]) /\ f = r.field
    OBVIOUS
  <2>7. y[f] = captured \/ (f = "time" /\ y.flag = "swapped_by_anchor")
    BY <1>1, <2>6, LadderObeys
  <2>8. /\ DOMAIN y = ResultFields /\ captured # {}
        /\ f \in Fields /\ Fields \subseteq ResultFields \ {"flag"} /\ "flag" \in ResultFields
    <3>1. Readable(Text[i]) /\ \A q \in LiveRules : Ruled(q)
      BY <1>1, LearningAssumption DEF Readable, RulesInv, LiveRules
    <3>2. Ruled(r)
      BY <1>1, <3>1
    <3>3. DOMAIN y = ResultFields
      BY <3>1, LadderFields
    <3>4. Fields \subseteq ResultFields \ {"flag"} /\ "flag" \in ResultFields
      BY DEF Fields, Carriers, OverrideFields, ResultFields, Blank
    <3> QED BY <1>1, <2>6, <3>2, <3>3, <3>4 DEF Ruled
  <2>9. /\ \A g \in ResultFields \ {"merchant", "amount", "direction", "currency", "time"} : x[g] = y[g]
        /\ \A g \in {"amount", "direction", "currency"} : y[g] # {} => x[g] = y[g]
        /\ y.time # {} => x.time = y.time
        /\ y.merchant # {} /\ y.merchant \cap (Implausible \cup OwnAccounts) = {} => x.merchant = y.merchant
    <3>1. TidyOf(x, y, Received[i])
      BY <2>5, <2>8, TidyingKeeps, Zenon
    <3> QED BY <3>1 DEF TidyOf
  <2>10. x.flag = y.flag
    BY <2>8, <2>9
  <2>11. \/ x[f] = captured
         \/ f = "time" /\ x.flag = "swapped_by_anchor"
         \/ f = "merchant" /\ captured \cap (Implausible \cup OwnAccounts) # {}
    BY <2>7, <2>8, <2>9, <2>10
  <2> QED BY <2>2, <2>6, <2>11
<1>2. RulesInv =>
        \A i \in Messages : mail'[i] # mail[i] /\ Intake(i) /\ mail'[i].result.method # "none" =>
          \A r \in LiveRules :
            (r.template = Template(Text[i]) /\ Capture(r, Text[i]) # {}) =>
              \/ mail'[i].result[r.field] = Capture(r, Text[i])
              \/ r.field = "time" /\ mail'[i].result.flag = "swapped_by_anchor"
              \/ r.field = "merchant" /\ Capture(r, Text[i]) \cap (Implausible \cup OwnAccounts) # {}
  BY <1>1
<1> QED BY <1>2, RulesStart, RulesStep, PTL DEF Spec, LessonWins

MailVerified == DOMAIN mail = Messages /\ LadderIsVerified

(* Only an arrival books by the ladder.                                    *)
LEMMA VerifiedStep ==
  ASSUME RulesInv, MailVerified, [Next]_vars
  PROVE  MailVerified'
<1>1. ASSUME NEW i \in Messages, Intake(i) PROVE MailVerified'
  <2>1. PICK x, m : /\ \/ x \in AsRead(i)
                       \/ x = Blank("none", {})
                    /\ m = [phase |-> IF PassesGate3(x) THEN "booked" ELSE "parked",
                            by |-> "ladder", result |-> x]
                    /\ mail' = [mail EXCEPT ![i] = m]
    BY <1>1, Arrival
  <2>2. DOMAIN mail' = Messages /\ mail'[i] = m /\ m.result = x
        /\ \A k \in Messages \ {i} : mail'[k] = mail[k]
    BY <2>1 DEF MailVerified
  <2>3. ASSUME m.phase = "booked", x.merchant # {"balance update"}
        PROVE  /\ x.amount # {} /\ {t.v : t \in AmountRead(Text[i])} \notin {{}, x.amount, x.original} => Doubted(x)
               /\ Anchored(x, Received[i])
    <3>1. ~ PassesGate3(Blank("none", {}))
      BY DEF PassesGate3, Blank, Has
    <3>2. PICK y \in RunExtractionLadder(LiveRules, Text[i], Received[i]) :
                 x = Tidied(Received[i], "transaction", y)
      BY <2>1, <2>3, <3>1 DEF AsRead
    <3>3. \A r \in LiveRules : Ruled(r)
      BY DEF LiveRules, RulesInv
    <3>4. Readable(Text[i]) /\ DayOption(Received[i])
      BY LearningAssumption DEF Readable, DayOption, Option
    <3>5. PICK read : read = {t.v : t \in AmountRead(Text[i])}
      OBVIOUS
    <3>6. /\ y.amount # {} /\ read \notin {{}, y.amount, y.original} => Doubted(y)
          /\ Anchored(y, Received[i])
      BY <3>3, <3>4, <3>5, LadderTrusted
    <3>7. DOMAIN y = ResultFields /\ {"conf", "original"} \subseteq ResultFields
      BY <3>3, <3>4, LadderFields DEF ResultFields, Blank
    <3>8. /\ x.amount = y.amount /\ x.original = y.original /\ x.conf = y.conf
          /\ y.time # {} => x.time = y.time
          /\ y.time = {} => \A t \in x.time : \E d \in Received[i] : t = [on |-> d, other |-> d]
      <4>1. TidyOf(x, y, Received[i])
        BY <3>2, <3>7, TidyingKeeps, Zenon
      <4> QED BY <2>3, <3>7, <4>1 DEF TidyOf
    <3>9. Doubted(y) => Doubted(x)
      BY <3>8 DEF Doubted
    <3>10. \A t \in x.time : t \in y.time \/ t.on = t.other
      BY <3>8
    <3>11. Anchored(x, Received[i])
      BY <3>6, <3>9, <3>10 DEF Anchored
    <3> QED BY <3>5, <3>6, <3>8, <3>9, <3>11
  <2>4. ASSUME NEW k \in Messages, mail'[k].phase = "booked", mail'[k].by = "ladder"
        PROVE  Verified(k)'
    <3>1. CASE k = i
      BY <2>2, <2>3, <2>4, <3>1 DEF Verified, Doubted, Anchored
    <3>2. CASE k # i
      BY <2>2, <2>4, <3>2 DEF MailVerified, LadderIsVerified, Verified
    <3> QED BY <3>1, <3>2
  <2> QED BY <2>2, <2>4 DEF MailVerified, LadderIsVerified
<1>2. ASSUME NEW i \in Messages, Enrich(i) PROVE MailVerified'
  <2>1. PICK m : m.by = "background" /\ mail' = [mail EXCEPT ![i] = m]
    BY <1>2 DEF Enrich
  <2>2. DOMAIN mail' = Messages /\ mail'[i].by = "background"
        /\ \A k \in Messages \ {i} : mail'[k] = mail[k]
    BY <2>1 DEF MailVerified
  <2> QED BY <2>2 DEF MailVerified, LadderIsVerified, Verified
<1>3. CASE UNCHANGED mail
  BY <1>3 DEF MailVerified, LadderIsVerified, Verified
<1>4. (\E c \in DOMAIN Corrections : Correct(c)) \/ (\E r \in rules : Revert(r))
      \/ Take \/ Author \/ AuthorFails \/ Check \/ Store \/ Quit \/ UNCHANGED vars => UNCHANGED mail
  BY DEF Correct, Revert, Take, Author, AuthorFails, Check, Store, Quit, vars
<1> QED BY <1>1, <1>2, <1>3, <1>4 DEF Next

(* What the ladder books is checked against its own text and its arrival   *)
(* (finalize_result, ladder.rs:1760-1922), for all texts, patterns and     *)
(* learned rules: the checks come last, and only lower a confidence.       *)
THEOREM BookingsAreVerified == Spec => []LadderIsVerified
<1>1. Init => MailVerified
  BY DEF Init, MailVerified, LadderIsVerified, Unseen
<1>2. MailVerified => LadderIsVerified
  BY DEF MailVerified
<1> QED BY <1>1, <1>2, RulesStart, RulesStep, VerifiedStep, PTL DEF Spec
-----------------------------------------------------------------------------
(* The rest of the types of the clean-up.                                  *)
CleanupRest ==
  /\ touched \subseteq Booked /\ runs \in 0 .. MaxRuns
  /\ \A h \in hands : h.step \in {"ask", "learn", "record", "rename"} /\ h.run = runs
  /\ \A b \in DOMAIN learned : learned[b] \in {"absent", "active", "inactive"}

LEMMA HandsMoveOn ==
  ASSUME CleanupInv, CleanupRest, NEW h \in hands, NEW moved, hands' = (hands \ {h}) \cup {moved},
         moved.step \in {"ask", "learn", "record", "rename"}, moved.run = h.run,
         UNCHANGED <<booked, touched, runs>>,
         \A b \in DOMAIN learned' : learned'[b] \in {"absent", "active", "inactive"}
  PROVE  CleanupRest'
BY DEF CleanupRest, Booked

LEMMA CleanupRestStep ==
  ASSUME CleanupInv, CleanupRest, [CleanupNext]_cleanupVars
  PROVE  CleanupRest'
<1>1. ASSUME UNCHANGED <<booked, touched, runs, learned>>, hands' \subseteq hands PROVE CleanupRest'
  BY <1>1 DEF CleanupRest, Booked
<1>2. ASSUME NEW p \in Payments, BookPayment(p) PROVE CleanupRest'
  <2>1. /\ p \notin Booked /\ UNCHANGED <<touched, learned, runs, hands>>
        /\ \A q \in Payments : q # p => booked'[q] = booked[q]
    BY <1>2 DEF BookPayment, CleanupInv, CleanupTypes
  <2>2. Booked \subseteq Booked'
    BY <2>1 DEF Booked
  <2> QED BY <2>1, <2>2 DEF CleanupRest
<1>3. CASE Start
  <2>1. hands = {} /\ runs' \in 0 .. MaxRuns /\ UNCHANGED <<booked, touched, learned, hands>>
    BY <1>3, CleanupAssumption DEF Start, CleanupInv, TicketsApart, CleanupRest
  <2> QED BY <2>1 DEF CleanupRest, Booked
<1>4. ASSUME NEW c \in todo, TakeCandidate(c) PROVE CleanupRest'
  <2>1. PICK h : h = [c |-> c, run |-> runs, answer |-> {}, step |-> "ask"]
    OBVIOUS
  <2>2. hands' \subseteq hands \cup {h} /\ UNCHANGED <<booked, touched, runs, learned>>
    BY <1>4, <2>1 DEF TakeCandidate, merchantVars
  <2>3. h.step = "ask" /\ h.run = runs
    BY <2>1
  <2> QED BY <2>2, <2>3 DEF CleanupRest, Booked
<1>5. ASSUME NEW h \in hands, NameMerchant(h) PROVE CleanupRest'
  <2>1. DOMAIN h = {"c", "run", "answer", "step"}
    BY DEF CleanupInv, CleanupTypes
  <2>2. PICK answer : hands' = (hands \ {h}) \cup {[h EXCEPT !.answer = answer, !.step = "learn"]}
    BY <1>5 DEF NameMerchant
  <2>3. PICK moved : moved = [h EXCEPT !.answer = answer, !.step = "learn"]
    OBVIOUS
  <2>4. moved.step = "learn" /\ moved.run = h.run
    BY <2>1, <2>3
  <2>5. UNCHANGED <<booked, touched, runs, learned>>
    BY <1>5 DEF NameMerchant
  <2> QED BY <2>2, <2>3, <2>4, <2>5, HandsMoveOn DEF CleanupRest
<1>6. ASSUME NEW h \in hands, LearnRule(h) PROVE CleanupRest'
  <2>1. DOMAIN h = {"c", "run", "answer", "step"}
    BY DEF CleanupInv, CleanupTypes
  <2>2. PICK moved : moved = [h EXCEPT !.step = "record"]
    OBVIOUS
  <2>3. moved.step = "record" /\ moved.run = h.run
    BY <2>1, <2>2
  <2>4. hands' = (hands \ {h}) \cup {moved} /\ UNCHANGED <<booked, touched, runs>>
    BY <1>6, <2>2 DEF LearnRule
  <2>5. \A b \in DOMAIN learned' : learned'[b] \in {"absent", "active", "inactive"}
    BY <1>6 DEF LearnRule, CleanupRest
  <2> QED BY <2>3, <2>4, <2>5, HandsMoveOn
<1>7. ASSUME NEW h \in hands, Record(h) PROVE CleanupRest'
  <2>1. DOMAIN h = {"c", "run", "answer", "step"}
    BY DEF CleanupInv, CleanupTypes
  <2>2. PICK moved : moved = [h EXCEPT !.step = "rename"]
    OBVIOUS
  <2>3. moved.step = "rename" /\ moved.run = h.run
    BY <2>1, <2>2
  <2>4. hands' = (hands \ {h}) \cup {moved} /\ UNCHANGED <<booked, touched, runs, learned>>
    BY <1>7, <2>2 DEF Record
  <2> QED BY <2>3, <2>4, HandsMoveOn DEF CleanupRest
<1>8. ASSUME NEW c \in corrections, RevertCorrection(c) PROVE CleanupRest'
  <2>1. \A h \in hands : h.c.payment \in Booked
    BY DEF CleanupInv, CleanupTypes
  <2>2. touched' \subseteq Booked /\ UNCHANGED <<booked, runs, hands>>
    BY <1>8, <2>1 DEF RevertCorrection, CleanupRest
  <2>3. \A b \in DOMAIN learned' : learned'[b] \in {"absent", "active", "inactive"}
    BY <1>8 DEF RevertCorrection, CleanupRest
  <2> QED BY <2>2, <2>3 DEF CleanupRest, Booked
<1>9. ASSUME NEW p \in Payments, NEW n \in UserNames, UserRenames(p, n) PROVE CleanupRest'
  BY <1>9 DEF UserRenames, CleanupRest, Booked
<1>10. ASSUME NEW h \in hands, DropAnswer(h) \/ Rename(h) PROVE CleanupRest'
  BY <1>1, <1>10 DEF DropAnswer, Rename
<1>11. ASSUME NEW c \in corrections, RevertInterrupted(c) PROVE CleanupRest'
  BY <1>1, <1>11 DEF RevertInterrupted
<1>12. CASE Cancel \/ Finish \/ Exit \/ RemoveMerchants \/ UNCHANGED cleanupVars
  BY <1>1, <1>12 DEF Cancel, Finish, Exit, RemoveMerchants, cleanupVars
<1>13. ASSUME NEW p \in Payments, NEW n, MergeEvidence(p, n) PROVE CleanupRest'
  <2>1. /\ p \in Booked /\ UNCHANGED <<learned, runs, hands>> /\ touched' \subseteq touched \cup {p}
        /\ names'[p] # Unnamed
        /\ booked' = booked \/ booked' = [booked EXCEPT ![p] = names'[p]]
    BY <1>13 DEF MergeEvidence
  <2>2. Booked \subseteq Booked'
    BY <2>1 DEF Booked, CleanupInv, CleanupTypes
  <2> QED BY <2>1, <2>2 DEF CleanupRest
<1> QED BY <1>2, <1>3, <1>4, <1>5, <1>6, <1>7, <1>8, <1>9, <1>10, <1>11, <1>12, <1>13 DEF CleanupNext

(* Merchants, aliases and tickets keep their types, and no ticket outlives *)
(* the run it was written for (run_cleanup, merchant_cleanup_start).       *)
THEOREM CleanupTypeCorrect == CleanupSpec => []CleanupTypeOK
<1>1. CleanupInit => NamesInv /\ CleanupRest
  BY NamesStart, CleanupAssumption DEF CleanupInit, CleanupRest
<1>2. CleanupInv /\ CleanupRest /\ NamesInv => CleanupTypeOK
  BY DEF CleanupInv, TicketsApart, CleanupRest, NamesInv, MerchantRow, LiveMerchants, MerchantsTypeOK,
         CleanupTypeOK
<1> QED BY CleanupStarts, CleanupStep, NamesStep, CleanupRestStep, <1>1, <1>2, PTL DEF CleanupSpec
-----------------------------------------------------------------------------
(* What is read has one value in a field, or none.                         *)

LEMMA OneOf ==
  ASSUME NEW text, Readable(text), NEW kinds
  PROVE  Option(Of(text, kinds))
  BY DEF Of, Value, First, Readable, Option

LEMMA OneVerb ==
  ASSUME NEW text, Readable(text)
  PROVE  Option(Verb(text))
  BY DEF Verb, First, Readable, Option

LEMMA OneFigure ==
  ASSUME NEW text, Readable(text)
  PROVE  Option(AmountRead(text))
<1>1. Option(First(text, LAMBDA t : t.k \in Amounts /\ t.at \in {"glued", "spaced"}))
  BY DEF First, Readable, Option
<1>2. Option(First(text, LAMBDA t : t.k \in Amounts /\ t.at = "suffix"))
  BY DEF First, Readable, Option
<1> QED BY <1>1, <1>2 DEF AmountRead, Fill

LEMMA OneCapture ==
  ASSUME NEW text, Readable(text), NEW r, Ruled(r)
  PROVE  Option(Capture(r, text))
<1>1. Option(Value(text, LAMBDA t : {Place(t)} = r.place))
  BY DEF Value, First, Readable, Option
<1> QED BY <1>1 DEF Capture, Ruled, Sighted, Option

LEMMA BlankHolds ==
  ASSUME NEW method, NEW conf, Option(conf)
  PROVE  Optional(Blank(method, conf))
  BY DEF Optional, ResultFields, Blank, Option

LEMMA LearnedHolds ==
  ASSUME NEW R, \A r \in R : Ruled(r), NEW text, Readable(text), NEW x, Optional(x)
  PROVE  Optional(ApplyLearnedFields(R, text, x))
<1>1. PICK y : y = ApplyLearnedFields(R, text, x)
  OBVIOUS
<1>2. DOMAIN y = ResultFields /\ \A f \in ResultFields :
        y[f] = IF Winner(R, f, text) = {} THEN x[f] ELSE UNION {Capture(r, text) : r \in Winner(R, f, text)}
  BY <1>1 DEF ApplyLearnedFields, Optional
<1>3. ASSUME NEW f \in ResultFields \ {"method", "flag"}
      PROVE  Option(y[f])
  <2>1. CASE Winner(R, f, text) = {}
    BY <1>2, <2>1 DEF Optional
  <2>2. ASSUME NEW w \in Winner(R, f, text)
        PROVE  Option(y[f])
    <3>1. Ruled(w)
      BY DEF Winner
    <3>2. \A r \in Winner(R, f, text) : r = w
      BY OneWinner
    <3>3. y[f] = Capture(w, text)
      BY <1>2, <3>2
    <3> QED BY <3>1, <3>3, OneCapture
  <2> QED BY <2>1, <2>2
<1> QED BY <1>1, <1>2, <1>3 DEF Optional

LEMMA MatchedHolds ==
  ASSUME NEW text, Readable(text), NEW n \in DOMAIN Patterns
  PROVE  Optional(Matched(Patterns[n], text))
<1>1. PICK p : p = Patterns[n] /\ Option(p.fallback) /\ Option(p.instrument)
  BY LearningAssumption
<1>2. PICK blank, captured :
        /\ blank = Blank("bank_templates", {95})
        /\ captured = [f \in DOMAIN blank |-> IF f \in p.groups THEN Of(text, Group[f]) ELSE blank[f]]
  OBVIOUS
<1>3. Optional(blank)
  BY <1>2, BlankHolds DEF Option
<1>4. Optional(captured)
  BY <1>2, <1>3, OneOf DEF Optional
<1>5. Option(Fill(captured.time, p.fallback)) /\ Option({p.direction}) /\ Option({p.currency})
  BY <1>1, <1>4 DEF Fill, Option, Optional, ResultFields, Blank
<1>6. PICK day, dir, cur : /\ day = Fill(captured.time, p.fallback) /\ dir = {p.direction} /\ cur = {p.currency}
  OBVIOUS
<1>7. PICK x : x = [captured EXCEPT !.direction = dir, !.currency = cur,
                                    !.time = day, !.instrument = p.instrument]
  OBVIOUS
<1>8. Matched(p, text) = x
  BY <1>2, <1>6, <1>7 DEF Matched
<1>9. \A f \in ResultFields : x[f] = captured[f] \/ x[f] \in {dir, cur, day, p.instrument}
  BY <1>4, <1>7 DEF Optional
<1> QED BY <1>1, <1>4, <1>5, <1>6, <1>7, <1>8, <1>9 DEF Optional

LEMMA BankHolds ==
  ASSUME NEW text, Readable(text), NEW x \in BankTemplateLayer(text)
  PROVE  Optional(x)
<1>1. \E n \in DOMAIN Patterns : x = Matched(Patterns[n], text)
  BY DEF BankTemplateLayer, First, Fill
<1> QED BY <1>1, MatchedHolds

LEMMA GenericHolds ==
  ASSUME NEW text, Readable(text)
  PROVE  Optional(GenericRegexLayer(text))
<1>1. PICK x : x = GenericRegexLayer(text)
  OBVIOUS
<1>2. PICK money : money = AmountRead(text) /\ Option(money)
  BY OneFigure
<1>3. Option({t.v : t \in money}) /\ Option({t.cur : t \in money}) /\ Option({"debit" : t \in money})
  BY <1>2 DEF Option
<1>4. PICK strict, loose, vpa :
        /\ strict = Value(text, LAMBDA t : t.k = "name" /\ t.at = "strict" /\ IsMerchant(t))
        /\ loose  = Value(text, LAMBDA t : t.k = "name" /\ t.at # "strict" /\ IsMerchant(t))
        /\ vpa    = Value(text, LAMBDA t : t.k = "vpa" /\ t.at = "VPA")
  OBVIOUS
<1>5. Option(strict) /\ Option(loose) /\ Option(vpa)
  BY <1>4 DEF Value, First, Readable, Option
<1>6. PICK points :
        points = Min2(50 + (IF money # {} THEN 10 ELSE 0) + (IF Verb(text) # {} THEN 10 ELSE 0)
                        + (IF strict # {} THEN 15 ELSE IF Fill(strict, Fill(loose, vpa)) # {} THEN 5 ELSE 0)
                        + (IF Of(text, {"ref"}) # {} THEN 5 ELSE 0), 70)
  OBVIOUS
<1>7. PICK b : b = Blank("generic_regex", {points}) /\ Optional(b)
  BY BlankHolds DEF Option
<1>8. PICK amount, cur, dir, who, day, ref :
        /\ amount = {t.v : t \in money} /\ cur = {t.cur : t \in money}
        /\ dir = Fill(Verb(text), {"debit" : t \in money}) /\ who = Fill(strict, Fill(loose, vpa))
        /\ day = Of(text, {"date"}) /\ ref = Of(text, {"ref"})
  OBVIOUS
<1>9. x = [b EXCEPT !.amount = amount, !.currency = cur, !.direction = dir, !.merchant = who,
                    !.time = day, !.reference = ref]
  BY <1>1, <1>2, <1>4, <1>6, <1>7, <1>8 DEF GenericRegexLayer
<1>10. Option(amount) /\ Option(cur) /\ Option(dir) /\ Option(who) /\ Option(day) /\ Option(ref)
  BY <1>3, <1>5, <1>8, OneVerb, OneOf DEF Fill
<1>11. DOMAIN x = ResultFields
       /\ \A f \in ResultFields : x[f] = b[f] \/ x[f] \in {amount, cur, dir, who, day, ref}
  BY <1>7, <1>9 DEF Optional
<1> QED BY <1>1, <1>7, <1>10, <1>11 DEF Optional

LEMMA TokenHolds ==
  ASSUME NEW text, Readable(text)
  PROVE  Optional(NlpLayer(text))
<1>1. PICK x : x = NlpLayer(text)
  OBVIOUS
<1>2. PICK money, strict, any, dated :
        /\ money  = First(text, LAMBDA t : t.k \in Amounts /\ t.at = "spaced" /\ t.cur = "INR")
        /\ strict = Value(text, LAMBDA t : t.k = "name" /\ t.at = "strict" /\ IsMerchant(t))
        /\ any    = Value(text, LAMBDA t : t.k \in {"name", "narration"} /\ IsMerchant(t))
        /\ dated  = Value(text, LAMBDA t : t.k = "date" /\ t.at = "on")
  OBVIOUS
<1>3. Option(money) /\ Option(strict) /\ Option(any) /\ Option(dated)
  <2>1. Option(money)
    BY <1>2 DEF First, Readable, Option
  <2>2. Option(strict)
    BY <1>2 DEF Value, First, Readable, Option
  <2>3. Option(any)
    BY <1>2 DEF Value, First, Readable, Option
  <2>4. Option(dated)
    BY <1>2 DEF Value, First, Readable, Option
  <2> QED BY <2>1, <2>2, <2>3, <2>4
<1>4. PICK b : b = Blank("nlp", {}) /\ Optional(b)
  BY BlankHolds DEF Option
<1>5. PICK amount, cur, dir, who, left, day :
        /\ amount = {t.v : t \in money} /\ cur = {t.cur : t \in money} /\ dir = Verb(text)
        /\ who = Fill(strict, any) /\ left = Of(text, {"balance"})
        /\ day = Fill(dated, Of(text, {"date"}))
  OBVIOUS
<1>6. x = [b EXCEPT !.amount = amount, !.currency = cur, !.direction = dir, !.merchant = who,
                    !.balance = left, !.time = day]
  BY <1>1, <1>2, <1>4, <1>5 DEF NlpLayer
<1>7. Option(amount) /\ Option(cur)
  BY <1>3, <1>5 DEF Option
<1>8. Option(dir) /\ Option(who) /\ Option(left) /\ Option(day)
  BY <1>3, <1>5, OneVerb, OneOf DEF Fill
<1>9. DOMAIN x = ResultFields
      /\ \A f \in ResultFields : x[f] = b[f] \/ x[f] \in {amount, cur, dir, who, left, day}
  BY <1>4, <1>6 DEF Optional
<1> QED BY <1>1, <1>4, <1>7, <1>8, <1>9 DEF Optional

LEMMA SignalsHold ==
  ASSUME NEW text, Readable(text), NEW x, Optional(x)
  PROVE  Optional(ApplyInstrumentSignals(x, text))
<1>1. PICK others, card, account, mine :
        /\ others  = {text[i].v : i \in {j \in DOMAIN text : text[j].k = "vpa"}}
        /\ card    = First(text, LAMBDA t : t.k = "card")
        /\ account = First(text, LAMBDA t : t.k = "account")
        /\ mine    = Value(text, LAMBDA t : t.k = "myvpa" /\ t.v \notin others)
  OBVIOUS
<1>2. Option(card) /\ Option(account) /\ Option(mine)
  <2>1. Option(card)
    BY <1>1 DEF First, Readable, Option
  <2>2. Option(account)
    BY <1>1 DEF First, Readable, Option
  <2>3. Option(mine)
    BY <1>1 DEF Value, First, Readable, Option
  <2> QED BY <2>1, <2>2, <2>3
<1>3. PICK kind, mask :
        /\ kind = Fill({t.at : t \in card}, Fill({"bank_account" : t \in account}, {"upi_vpa" : v \in mine}))
        /\ mask = Fill({t.v : t \in card}, Fill({t.v : t \in account}, mine))
  OBVIOUS
<1>4. Option(kind) /\ Option(mask)
  <2>1. Option({t.at : t \in card}) /\ Option({"bank_account" : t \in account}) /\ Option({"upi_vpa" : v \in mine})
    BY <1>2 DEF Option
  <2>2. Option({t.v : t \in card}) /\ Option({t.v : t \in account})
    BY <1>2 DEF Option
  <2>3. PICK a, b, c, d, e : /\ a = {t.at : t \in card} /\ b = {"bank_account" : t \in account}
                             /\ c = {"upi_vpa" : v \in mine} /\ d = {t.v : t \in card} /\ e = {t.v : t \in account}
    OBVIOUS
  <2>4. kind \in {a, b, c} /\ mask \in {d, e, mine}
    BY <1>3, <2>3 DEF Fill
  <2> QED BY <1>2, <2>1, <2>2, <2>3, <2>4
<1>5. PICK signals : signals = [issuer |-> {Bank}, network |-> Of(text, {"network"}), vpa |-> mine,
                                instrument |-> kind, mask |-> mask]
  OBVIOUS
<1>6. signals = InstrumentSignals(text)
  BY <1>1, <1>3, <1>5 DEF InstrumentSignals
<1>7. \A f \in DOMAIN signals : Option(signals[f])
  <2>1. Option({Bank}) /\ Option(Of(text, {"network"}))
    BY OneOf DEF Option
  <2> QED BY <1>2, <1>4, <1>5, <2>1
<1>8. ApplyInstrumentSignals(x, text)
      = [f \in ResultFields |-> IF f \in DOMAIN signals THEN Fill(x[f], signals[f]) ELSE x[f]]
  BY <1>6 DEF ApplyInstrumentSignals, Optional
<1> QED BY <1>7, <1>8 DEF Optional, Fill

LEMMA StatementHolds ==
  ASSUME NEW text, Readable(text), NEW received, NEW x \in CrossrefLayer(text, received)
  PROVE  Optional(x)
<1>1. PICK e, y :
        /\ e \in Entries
        /\ x = ApplyInstrumentSignals(y, text)
        /\ y = [Blank("layer5_statement_crossref", {90}) EXCEPT
                  !.amount = e.amount, !.currency = e.currency, !.direction = e.direction,
                  !.time = {[on |-> e.day, other |-> e.day]}, !.merchant = e.merchant,
                  !.reference = e.reference]
  BY DEF CrossrefLayer
<1>2. PICK b, day : /\ b = Blank("layer5_statement_crossref", {90}) /\ Optional(b)
                    /\ day = {[on |-> e.day, other |-> e.day]} /\ Option(day)
  <2>1. PICK d : d = [on |-> e.day, other |-> e.day]
    OBVIOUS
  <2>2. Option({90}) /\ Option({d})
    BY DEF Option
  <2> QED BY <2>1, <2>2, BlankHolds
<1>3. y = [b EXCEPT !.amount = e.amount, !.currency = e.currency, !.direction = e.direction,
                    !.time = day, !.merchant = e.merchant, !.reference = e.reference]
  BY <1>1, <1>2
<1>4. Option(e.amount) /\ Option(e.currency) /\ Option(e.direction) /\ Option(e.merchant) /\ Option(e.reference)
  BY <1>1, LearningAssumption
<1>5. DOMAIN y = ResultFields
      /\ \A f \in ResultFields :
           y[f] = b[f] \/ y[f] \in {e.amount, e.currency, e.direction, day, e.merchant, e.reference}
  BY <1>2, <1>3 DEF Optional
<1>6. Optional(y)
  BY <1>2, <1>4, <1>5 DEF Optional
<1> QED BY <1>1, <1>6, SignalsHold

LEMMA OneChannel ==
  ASSUME NEW x, NEW text
  PROVE  Option(DetectChannel(x, text))
<1>1. DOMAIN ChannelOrder = 1 .. Len(ChannelOrder)
  BY DEF ChannelOrder
<1> DEFINE Says(c) == First(text, LAMBDA t : t.k = "word" /\ t.v = c) # {}
<1> DEFINE Is(c) == CASE c = "upi_credit_card" -> Says("upi") /\ x.instrument = {"credit_card"}
                      [] c = "emi"             -> x.installment # {}
                      [] OTHER                 -> Says(c)
<1>2. PICK Q : Q = {m \in DOMAIN ChannelOrder : Is(ChannelOrder[m])}
  OBVIOUS
<1>3. DetectChannel(x, text) = First(ChannelOrder, Is)
  BY DEF DetectChannel
<1> HIDE DEF Is
<1>4. First(ChannelOrder, Is)
      \subseteq {ChannelOrder[n] : n \in {m \in DOMAIN ChannelOrder : m \in Q /\ \A k \in 1 .. m - 1 : k \notin Q}}
  BY <1>1, <1>2 DEF First
<1> QED BY <1>1, <1>3, <1>4 DEF Option

LEMMA EnrichedHolds ==
  ASSUME NEW text, Readable(text), NEW z, Optional(z)
  PROVE  Optional(Enriched(z, text))
<1>1. PICK s, share : /\ s = ApplyInstrumentSignals(z, text) /\ Optional(s)
                      /\ share = Fill(s.installment, Of(text, {"emi"})) /\ Option(share)
  BY SignalsHold, OneOf DEF Fill, Optional, ResultFields, Blank
<1>2. PICK m : m = [s EXCEPT !.installment = share] /\ Optional(m)
  <2>1. PICK m : m = [s EXCEPT !.installment = share]
    OBVIOUS
  <2>2. DOMAIN m = ResultFields /\ \A f \in ResultFields : m[f] \in {s[f], share}
    BY <1>1, <2>1 DEF Optional
  <2> QED BY <1>1, <2>1, <2>2 DEF Optional
<1>3. PICK foreign, channel : /\ foreign = Fill(m.original, DetectForeignAmount(m, text))
                              /\ channel = Fill(m.channel, DetectChannel(m, text))
  OBVIOUS
<1>4. Option(foreign)
  <2>1. PICK coded : coded = First(text, LAMBDA t : t.k = "money" /\ t.at # "suffix" /\ t.cur # "INR")
    OBVIOUS
  <2>2. Option(coded)
    BY <2>1 DEF First, Readable, Option
  <2>3. Option(DetectForeignAmount(m, text))
    BY <2>1, <2>2 DEF DetectForeignAmount, Option
  <2> QED BY <1>2, <1>3, <2>3 DEF Fill, Optional, ResultFields, Blank
<1>5. Option(channel)
  BY <1>2, <1>3, OneChannel DEF Fill, Optional, ResultFields, Blank
<1>6. PICK e : e = [m EXCEPT !.original = foreign, !.channel = channel]
  OBVIOUS
<1>7. e = Enriched(z, text)
  BY <1>1, <1>2, <1>3, <1>6 DEF Enriched
<1>8. DOMAIN e = ResultFields /\ \A f \in ResultFields : e[f] \in {m[f], foreign, channel}
  BY <1>2, <1>6 DEF Optional
<1> QED BY <1>2, <1>4, <1>5, <1>7, <1>8 DEF Optional

LEMMA AmountHolds ==
  ASSUME NEW text, NEW e, Optional(e)
  PROVE  Optional(ApplyAmountCrossCheck(e, text))
<1>1. PICK low : low = Fill({Min2((c * 4) \div 5, CrossCheckConfidence) : c \in e.conf}, {CrossCheckConfidence})
  OBVIOUS
<1>2. Option(e.conf)
  BY DEF Optional, ResultFields, Blank
<1>3. Option(low)
  BY <1>1, <1>2 DEF Fill, Option
<1>4. PICK c : c = [e EXCEPT !.conf = low]
  OBVIOUS
<1>5. ApplyAmountCrossCheck(e, text) \in {c, e}
  BY <1>1, <1>4 DEF ApplyAmountCrossCheck
<1>6. DOMAIN c = ResultFields /\ \A f \in ResultFields : c[f] \in {e[f], low}
  BY <1>4 DEF Optional
<1> QED BY <1>3, <1>5, <1>6 DEF Optional

LEMMA DateHolds ==
  ASSUME NEW c, Optional(c), NEW received
  PROVE  Optional(ApplyDateCrossCheck(c, received))
<1>1. PICK exchanged, low :
        /\ exchanged = {[on |-> t.other, other |-> t.on] : t \in c.time}
        /\ low = Fill({Min2(n, CrossCheckConfidence) : n \in c.conf}, {CrossCheckConfidence})
  OBVIOUS
<1>2. Option(c.time) /\ Option(c.conf)
  BY DEF Optional, ResultFields, Blank
<1>3. Option(exchanged) /\ Option(low)
  BY <1>1, <1>2 DEF Fill, Option
<1>4. PICK a, b : /\ a = [c EXCEPT !.time = exchanged, !.flag = "swapped_by_anchor"]
                  /\ b = [c EXCEPT !.flag = "anchor_mismatch_needs_review", !.conf = low]
  OBVIOUS
<1>5. ApplyDateCrossCheck(c, received) \in {a, b, c}
  BY <1>1, <1>4, DateCheckCases
<1>6. DOMAIN a = ResultFields /\ \A f \in ResultFields \ {"method", "flag"} : a[f] \in {c[f], exchanged}
  BY <1>4 DEF Optional
<1>7. DOMAIN b = ResultFields /\ \A f \in ResultFields \ {"method", "flag"} : b[f] \in {c[f], low}
  BY <1>4 DEF Optional
<1> QED BY <1>3, <1>5, <1>6, <1>7 DEF Optional

LEMMA LadderHolds ==
  ASSUME NEW R, \A r \in R : Ruled(r), NEW text, Readable(text), NEW received,
         NEW x \in RunExtractionLadder(R, text, received)
  PROVE  Optional(x)
<1>1. PICK y, z, e, c : /\ Optional(y) /\ z = Relearned(R, text, y)
                        /\ e = Enriched(z, text) /\ c = ApplyAmountCrossCheck(e, text)
                        /\ x = ApplyDateCrossCheck(c, received)
  <2>1. PICK layers : layers = <<LearnedFieldLayer(R, text), BankTemplateLayer(text),
                        {GenericRegexLayer(text)}, {NlpLayer(text)}, CrossrefLayer(text, received)>>
    OBVIOUS
  <2>2. PICK winning : /\ winning = First(layers, LAMBDA layer : \E r \in layer : Valid(r))
                       /\ x \in FinalizeResult(R, text, received, UNION winning)
    BY <2>1 DEF RunExtractionLadder
  <2>3. \A layer \in winning : \E n \in DOMAIN layers : layer = layers[n]
    BY <2>2 DEF First
  <2>4. PICK y \in UNION winning : LET z == Relearned(R, text, y)
                                       e == Enriched(z, text)
                                       c == ApplyAmountCrossCheck(e, text)
                                   IN x = ApplyDateCrossCheck(c, received)
    BY <2>2 DEF FinalizeResult
  <2>5. \E n \in 1 .. 5 : y \in layers[n]
    BY <2>1, <2>3
  <2>6. \A b \in LearnedFieldLayer(R, text) : Optional(b)
    <3>1. Optional(Blank("learned_fields", {95}))
      BY BlankHolds DEF Option
    <3> QED BY <3>1, LearnedHolds DEF LearnedFieldLayer
  <2>7. Optional(y)
    BY <2>1, <2>5, <2>6, BankHolds, GenericHolds, TokenHolds, StatementHolds
  <2> QED BY <2>4, <2>7
<1>2. Optional(z)
  BY <1>1, LearnedHolds DEF Relearned
<1>3. Optional(e)
  BY <1>1, <1>2, EnrichedHolds
<1> QED BY <1>1, <1>3, AmountHolds, DateHolds

LEMMA TidyingHolds ==
  ASSUME NEW y, Optional(y), NEW day, Option(day)
  PROVE  Optional(Tidied(day, "transaction", y))
<1>1. PICK x : x = Tidied(day, "transaction", y)
  OBVIOUS
<1>2. {"merchant", "amount", "direction", "currency", "time"} \subseteq ResultFields \ {"method", "flag"}
  BY DEF ResultFields, Blank
<1>3. DOMAIN y = ResultFields /\ \A f \in ResultFields \ {"method", "flag"} : Option(y[f])
  BY DEF Optional
<1>4. /\ DOMAIN x = ResultFields
      /\ \A f \in ResultFields \ {"merchant", "amount", "direction", "currency", "time"} : x[f] = y[f]
      /\ \A f \in {"amount", "direction", "currency"} :
           x[f] = y[f] \/ x[f] \in {{0}, {"unknown"}, {"INR"}}
      /\ y.time # {} => x.time = y.time
      /\ y.time = {} => \A t \in x.time : \E d \in day : t = [on |-> d, other |-> d]
      /\ \/ x.merchant \subseteq y.merchant
         \/ x.merchant \in {{"internal transfer"}, {}, {"balance update"}}
  <2>1. TidyOf(x, y, day)
    BY <1>1, <1>3, TidyingKeeps, Zenon
  <2> QED BY <2>1 DEF TidyOf
<1>5. Option(x.time)
  <2>1. CASE y.time # {}
    BY <1>2, <1>3, <1>4, <2>1
  <2>2. CASE y.time = {}
    <3>1. \A d, e \in day : d = e
      BY DEF Option
    <3>2. \A t, u \in x.time : t = u
      BY <1>4, <2>2, <3>1
    <3> QED BY <3>2 DEF Option
  <2> QED BY <2>1, <2>2
<1>6. Option(x.merchant)
  BY <1>2, <1>3, <1>4 DEF Option
<1>7. \A v : Option({v})
  BY DEF Option
<1>8. \A f \in {"amount", "direction", "currency"} : Option(x[f])
  <2>1. ASSUME NEW f \in {"amount", "direction", "currency"} PROVE Option(x[f])
    <3>1. PICK a : a = x[f]
      OBVIOUS
    <3>2. Option(y[f])
      BY <1>2, <1>3
    <3>3. a = y[f] \/ a = {0} \/ a = {"unknown"} \/ a = {"INR"}
      BY <1>4, <3>1
    <3> QED BY <1>7, <3>1, <3>2, <3>3
  <2> QED BY <2>1
<1>9. \A f \in ResultFields \ {"method", "flag"} : Option(x[f])
  BY <1>3, <1>4, <1>5, <1>6, <1>8
<1> QED BY <1>1, <1>4, <1>9 DEF Optional

(* What a message was read as, once it was read.                           *)
MailRest ==
  /\ DOMAIN mail = Messages
  /\ \A i \in Messages :
       /\ mail[i].phase \in {"unseen", "booked", "parked", "review"}
       /\ mail[i].by \in {"nobody", "ladder", "background"}
       /\ mail[i].phase # "unseen" => Optional(mail[i].result)

LEMMA IntakeTypes ==
  ASSUME RulesInv, MailRest, NEW i \in Messages, Intake(i)
  PROVE  MailRest'
<1>1. PICK x, m : /\ \/ x \in AsRead(i)
                     \/ x = Blank("none", {})
                  /\ m = [phase |-> IF PassesGate3(x) THEN "booked" ELSE "parked",
                          by |-> "ladder", result |-> x]
                  /\ mail' = [mail EXCEPT ![i] = m]
  BY Arrival
<1>2. \A r \in LiveRules : Ruled(r)
  BY DEF LiveRules, RulesInv
<1>3. Readable(Text[i])
  BY LearningAssumption DEF Readable
<1>4. Optional(Blank("none", {}))
  BY BlankHolds DEF Option
<1>5. Optional(x)
  <2>1. ASSUME NEW y \in RunExtractionLadder(LiveRules, Text[i], Received[i]),
               x = Tidied(Received[i], "transaction", y)
        PROVE  Optional(x)
    <3>1. Optional(y)
      BY <1>2, <1>3, LadderHolds
    <3> QED BY <2>1, <3>1, TidyingHolds, LearningAssumption
  <2> QED BY <1>1, <1>4, <2>1 DEF AsRead
<1>6. m.phase \in {"booked", "parked"} /\ m.by = "ladder" /\ m.result = x
  BY <1>1
<1>7. DOMAIN mail' = Messages /\ \A k \in Messages : mail'[k] = IF k = i THEN m ELSE mail[k]
  BY <1>1 DEF MailRest
<1> QED BY <1>5, <1>6, <1>7 DEF MailRest

LEMMA EnrichTypes ==
  ASSUME MailRest, NEW i \in Messages, Enrich(i)
  PROVE  MailRest'
<1>1. \E first, second \in Answers[i] : \E answer \in Layer6(first, second, Text[i], Received[i]) :
        mail' = [mail EXCEPT ![i] =
          [phase |-> IF Sure(Completed(i, ApplyInstrumentSignals(answer, Text[i])),
                             ApplyInstrumentSignals(answer, Text[i])) THEN "booked" ELSE "review",
           by |-> "background", result |-> Completed(i, ApplyInstrumentSignals(answer, Text[i]))]]
  BY Zenon DEF Enrich
<1>2. PICK answer, llm :
        /\ \E first, second \in Answers[i] : answer \in Layer6(first, second, Text[i], Received[i])
        /\ llm = ApplyInstrumentSignals(answer, Text[i])
        /\ mail' = [mail EXCEPT ![i] = [phase |-> IF Sure(Completed(i, llm), llm) THEN "booked" ELSE "review",
                                        by |-> "background", result |-> Completed(i, llm)]]
  BY <1>1
<1>3. PICK row, phase, m :
        /\ row = Completed(i, llm) /\ phase = (IF Sure(row, llm) THEN "booked" ELSE "review")
        /\ m = [phase |-> phase, by |-> "background", result |-> row] /\ mail' = [mail EXCEPT ![i] = m]
  BY <1>2
<1>4. Optional(llm)
  BY <1>2, AnswerOptional, SignalsHold, LearningAssumption DEF Readable
<1>5. mail[i].phase = "parked" /\ Optional(mail[i].result)
  BY DEF Enrich, MailRest
<1>6. PICK old, channel : old = mail[i].result /\ channel = DetectChannel(llm, Text[i]) /\ Option(channel)
  BY OneChannel
<1>7. \A f \in ResultFields : row[f] = llm[f] \/ row[f] = Fill(channel, old[f]) \/ row[f] = Fill(llm[f], old[f])
  <2>1. \A f \in DOMAIN llm : Completed(i, llm)[f] = llm[f] \/ Completed(i, llm)[f] = Fill(DetectChannel(llm, Text[i]), mail[i].result[f])
                              \/ Completed(i, llm)[f] = Fill(llm[f], mail[i].result[f])
    BY Zenon DEF Completed
  <2> QED BY <1>3, <1>4, <1>6, <2>1 DEF Optional
<1>8. Optional(row)
  <2>1. DOMAIN row = ResultFields
    BY <1>3, <1>4, Zenon DEF Optional, Completed
  <2> QED BY <1>4, <1>5, <1>6, <1>7, <2>1 DEF Optional, Fill
<1>9. m.phase \in {"booked", "review"} /\ m.by = "background" /\ m.result = row
  BY <1>3
<1>10. DOMAIN mail' = Messages /\ \A k \in Messages : mail'[k] = IF k = i THEN m ELSE mail[k]
  BY <1>3 DEF MailRest
<1> QED BY <1>8, <1>9, <1>10 DEF MailRest

(* A rule that is live has failed at most twice.                           *)
RuleTyped(r) ==
  /\ r.id \in Ids /\ r.status \in Live \cup {"inactive"} /\ r.s \in 0..1 /\ r.f \in 0..3
  /\ r.status \in Live => r.f <= 2

RulesRest ==
  /\ corrected \subseteq DOMAIN Corrections
  /\ \A r \in rules : RuleTyped(r)
  /\ Len(queue) <= Capacity /\ Option(worker) /\ quits \in 0 .. MaxQuits

LEMMA QueueBound ==
  ASSUME RulesInv, NEW jobs, NEW T, jobs \in Seq(T), Enqueue(jobs)
  PROVE  Len(queue') <= Capacity
<1>1. PICK S : queue \in Seq(S)
  BY DEF RulesInv
<1>2. PICK all, n : all = queue \o jobs /\ n = Min2(Capacity, Len(queue) + Len(jobs))
  OBVIOUS
<1>3. all \in Seq(S \cup T) /\ Len(all) = Len(queue) + Len(jobs)
  BY <1>1, <1>2
<1>4. n \in 0 .. Len(all) /\ n <= Capacity
  BY <1>1, <1>2, <1>3, LearningAssumption DEF Min2
<1>5. queue' = SubSeq(all, 1, n)
  BY <1>2 DEF Enqueue
<1> QED BY <1>3, <1>4, <1>5

LEMMA FailureTypes ==
  ASSUME NEW r, Ruled(r), RuleTyped(r), r.status \in Applied
  PROVE  RuleTyped(RecordFailure(r))
<1>1. r.f \in 0..2 /\ r.s \in 0..1 /\ r.id \in Ids
  BY DEF RuleTyped, Live
<1>2. PICK status : status = IF r.f + 1 >= 3 \/ 10 * r.s < 7 * (r.s + r.f + 1) THEN "inactive" ELSE r.status
  OBVIOUS
<1>3. PICK q : q = [r EXCEPT !.f = r.f + 1, !.status = status]
  OBVIOUS
<1>4. q = RecordFailure(r)
  BY <1>2, <1>3 DEF RecordFailure
<1>5. q.id = r.id /\ q.s = r.s /\ q.f = r.f + 1 /\ q.status = status
  BY <1>3 DEF Ruled
<1>6. status \in Applied \cup {"inactive"} /\ (status # "inactive" => r.f + 1 <= 2)
  BY <1>1, <1>2
<1>7. "inactive" \notin Live
  BY DEF Live, Applied
<1> QED BY <1>1, <1>4, <1>5, <1>6, <1>7 DEF RuleTyped, Live

LEMMA RulesRestStep == RulesInv /\ RulesRest /\ [Next]_vars => RulesRest'
<1> SUFFICES ASSUME RulesInv, RulesRest, [Next]_vars PROVE RulesRest'
  OBVIOUS
<1>1. ASSUME NEW i \in Messages, Intake(i) PROVE RulesRest'
  BY <1>1 DEF Intake, RulesRest
<1>2. ASSUME NEW i \in Messages, Enrich(i) PROVE RulesRest'
  <2>1. UNCHANGED <<corrected, rules, worker, quits>>
        /\ \/ UNCHANGED queue
           \/ \E answer : Optional(answer) /\ Enqueue(DriftCandidates(i, answer))
    BY <1>2, AnswerOptional DEF Enrich
  <2>2. Len(queue') <= Capacity
    BY <2>1, DriftLessons, QueueBound DEF RulesRest
  <2> QED BY <2>1, <2>2 DEF RulesRest
<1>3. ASSUME NEW c \in DOMAIN Corrections, Correct(c) PROVE RulesRest'
  <2>1. PICK job, failed :
          /\ failed \subseteq LiveRules
          /\ corrected' = corrected \cup {c}
          /\ rules' = (rules \ failed) \cup {RecordFailure(r) : r \in failed}
          /\ Enqueue(<<job>>) /\ UNCHANGED <<worker, quits>>
    BY <1>3 DEF Correct
  <2>2. <<job>> \in Seq({job})
    OBVIOUS
  <2>3. Len(queue') <= Capacity
    BY <2>1, <2>2, QueueBound
  <2>4. \A r \in failed : RuleTyped(RecordFailure(r))
    BY <2>1, FailureTypes DEF LiveRules, RulesInv, RulesRest
  <2> QED BY <2>1, <2>3, <2>4 DEF RulesRest
<1>4. ASSUME NEW r \in rules, Revert(r) PROVE RulesRest'
  <2>1. PICK q : q = [r EXCEPT !.status = "inactive"]
    OBVIOUS
  <2>2. Ruled(r) /\ RuleTyped(r)
    BY DEF RulesInv, RulesRest
  <2>3. q.id = r.id /\ q.s = r.s /\ q.f = r.f /\ q.status = "inactive"
    BY <2>1, <2>2 DEF Ruled
  <2>4. RuleTyped(q)
    BY <2>2, <2>3 DEF RuleTyped, Live, Applied
  <2> QED BY <1>4, <2>1, <2>4 DEF Revert, RulesRest
<1>5. CASE Take
  <2>1. PICK S : queue \in Seq(S)
    BY DEF RulesInv
  <2>2. Len(queue') <= Capacity
    BY <1>5, <2>1, LearningAssumption DEF Take, RulesRest
  <2> QED BY <1>5, <2>2 DEF Take, RulesRest, Option
<1>6. CASE Author \/ AuthorFails \/ Check
  <2>1. Option(worker') /\ UNCHANGED <<corrected, rules, queue, quits>>
    BY <1>6 DEF Author, AuthorFails, Check, Option
  <2> QED BY <2>1 DEF RulesRest
<1>7. CASE Store
  <2>1. PICK w, id, new :
          /\ id \in (IF Replaced(w.job) = {} THEN Ids \ {r.id : r \in rules} ELSE {r.id : r \in Replaced(w.job)})
          /\ new = Variant(w, id) /\ rules' = (rules \ Replaced(w.job)) \cup {new}
          /\ worker' = {} /\ UNCHANGED <<corrected, queue, quits>>
    BY <1>7 DEF Store
  <2>2. id \in Ids
    BY <2>1 DEF Replaced, RulesRest, RuleTyped
  <2>3. RuleTyped(new)
    BY <2>1, <2>2 DEF Variant, RuleTyped, Live, Applied
  <2> QED BY <2>1, <2>3 DEF RulesRest, Option
<1>8. CASE Quit
  BY <1>8, LearningAssumption DEF Quit, RulesRest, Option
<1>9. CASE UNCHANGED vars
  BY <1>9 DEF vars, RulesRest
<1> QED BY <1>1, <1>2, <1>3, <1>4, <1>5, <1>6, <1>7, <1>8, <1>9 DEF Next

(* No field of a message has two values, the queue keeps to its capacity,  *)
(* and no live rule has failed three times (finalize_result,               *)
(* apply_layer6_success, record_failure), for all texts, patterns, answers *)
(* and orders of corrections.                                              *)
THEOREM RulesTypeCorrect == Spec => []TypeOK
<1>1. Init => MailRest /\ RulesRest
  BY LearningAssumption DEF Init, MailRest, RulesRest, Unseen, Option
<1>2. RulesInv /\ MailRest /\ [Next]_vars => MailRest'
  <2> SUFFICES ASSUME RulesInv, MailRest, [Next]_vars PROVE MailRest'
    OBVIOUS
  <2>1. (\E i \in Messages : Intake(i) \/ Enrich(i)) \/ UNCHANGED mail
    BY DEF Next, Correct, Revert, Take, Author, AuthorFails, Check, Store, Quit, vars
  <2>2. CASE UNCHANGED mail
    BY <2>2 DEF MailRest
  <2> QED BY <2>1, <2>2, IntakeTypes, EnrichTypes
<1>3. MailRest /\ RulesRest => TypeOK
  BY DEF MailRest, RulesRest, RuleTyped, TypeOK
<1> QED BY <1>1, <1>2, <1>3, RulesStart, RulesStep, RulesRestStep, PTL DEF Spec
=============================================================================
