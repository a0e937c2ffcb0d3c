---------------------------- MODULE MerchantNames ----------------------------
(***************************************************************************)
(* How a descriptor, as a bank writes it, becomes a merchant               *)
(* (src/src-tauri/src/extraction/merchant_normalizer.rs,                   *)
(* merchant_confidence.rs, db/merchants.rs): noise is stripped from it,    *)
(* and it is looked up among the aliases, then among the merchants whose   *)
(* name is nearly the same, or becomes a merchant of its own.              *)
(*                                                                         *)
(* A text is a sequence of segments parted by stars, each a sequence of    *)
(* words; a name without noise is a sequence of words.  The names of       *)
(* merchants are unique and their rows are kept, so that a name stands for *)
(* its merchant.                                                           *)
(***************************************************************************)
EXTENDS Integers, FiniteSets, SequencesExt

CONSTANTS Written,      \* per text: its segments
          Aggregators,  \* payment services that put their name before a star
          Digits,       \* words of four digits or more
          Stopwords, Vowelless,  \* words that say nothing; words without a vowel
          Size,         \* per word: its letters
          Likeness,     \* per pair of names that look alike: how much, in hundredths
          Seeded        \* the merchants there from the start

ASSUME NamesAssumption == <<>> \notin Seeded

VARIABLES merchants,  \* per name: who made the merchant, and whether it is deleted
          aliases,    \* per name: the merchant it leads to
          resolved    \* per name: the merchant it led to when it was last resolved (history)

merchantVars == <<merchants, aliases, resolved>>

Nobody == <<>>

MerchantsInit ==
  /\ merchants = [n \in Seeded |-> [source |-> "system", deleted |-> FALSE]]
  /\ aliases = [n \in {} |-> Nobody] /\ resolved = [n \in {} |-> Nobody]

-----------------------------------------------------------------------------
(* What is left of a text.                                                 *)

(* An aggregator's name is dropped with its star; elsewhere, and at the    *)
(* next star, what follows the star is dropped.                            *)
SplitOnAggregatorStar(t) ==
  LET s == Written[t]
  IN IF Len(s) > 1 /\ s[1] # <<>> /\ Last(s[1]) \in Aggregators /\ Tail(s) # << <<>> >>
     THEN s[2] ELSE s[1]

StripNoise(t) ==
  LET kept == SplitOnAggregatorStar(t)
  IN IF kept # <<>> /\ Last(kept) \in Digits THEN Front(kept) ELSE kept

LettersIn(name) == FoldLeft(LAMBDA sum, w : sum + Size[w], 0, name)

Plausible(name) ==
  /\ name # <<>> /\ LettersIn(name) >= 3
  /\ 2 * Len(SelectSeq(name, LAMBDA w : w \in Stopwords)) < Len(name)

LooksLikeCode(name) == LettersIn(name) < 5 \/ ToSet(name) \subseteq Vowelless

(* In hundredths; below 60 a name is poor.                                 *)
BaseScore(method) ==
  CASE method = "learned_patterns" -> 90 [] method \in {"bank_templates", "layer5"} -> 85
    [] method = "llm_layer6" -> 80       [] method = "generic_regex" -> 60
    [] method = "nlp" -> 45              [] OTHER -> 50

PoorName(method, name, established) ==
  name = <<>> \/
  BaseScore(method) - (IF established THEN 0 ELSE 30) - (IF LooksLikeCode(name) THEN 20 ELSE 0)
                    - (IF ToSet(name) \cap Stopwords # {} THEN 15 ELSE 0) < 60

-----------------------------------------------------------------------------
(* Merchants and their aliases.                                            *)

LiveMerchants == {n \in DOMAIN merchants : ~merchants[n].deleted}

(* A row that is inserted if its key is not there, or over what is there.  *)
InsertIgnored(table, k, row) ==
  [n \in DOMAIN table \cup {k} |-> IF n \in DOMAIN table THEN table[n] ELSE row]
Upserted(table, ks, row) ==
  [n \in DOMAIN table \cup ks |-> IF n \in ks THEN row ELSE table[n]]

InsertMerchant(n, source) == merchants' = InsertIgnored(merchants, n, [source |-> source, deleted |-> FALSE])
SoftDelete(gone) ==
  merchants' = [n \in DOMAIN merchants |->
                  IF n \in gone THEN [merchants[n] EXCEPT !.deleted = TRUE] ELSE merchants[n]]

(* A name that is an alias already keeps its merchant, *)
InsertAlias(n, m) == aliases' = InsertIgnored(aliases, n, m)
(* unless the clean-up claims it. *)
UpsertAliases(claimed, m) == aliases' = Upserted(aliases, claimed, m)

DeleteAliases(gone) == aliases' = [n \in {k \in DOMAIN aliases : aliases[k] \notin gone} |-> aliases[n]]

SelectByAlias(n) == IF n \in DOMAIN aliases /\ aliases[n] \in LiveMerchants THEN aliases[n] ELSE Nobody
AliasesOf(m) == {n \in DOMAIN aliases : aliases[n] = m}

Similarity(a, b) == IF a = b THEN 100 ELSE IF <<a, b>> \in DOMAIN Likeness THEN Likeness[<<a, b>>] ELSE 0

(* The merchant most like the name, and enough so.                         *)
BestMatch(n) ==
  LET near    == {m \in LiveMerchants : Similarity(n, m) >= 92}
      nearest == {m \in near : \A k \in near : Similarity(n, m) >= Similarity(n, k)}
  IN IF nearest = {} THEN Nobody ELSE CHOOSE m \in nearest : TRUE

(* The merchant a name leads to, now.                                      *)
Leads(n) ==
  IF n = <<>> THEN Nobody
  ELSE IF SelectByAlias(n) # Nobody THEN SelectByAlias(n)
  ELSE IF BestMatch(n) # Nobody THEN BestMatch(n)
  ELSE IF Plausible(n) /\ n \notin DOMAIN merchants THEN n ELSE Nobody

(* Regression: a name that is nearly a merchant's is not kept as an alias. *)
NormalizeUnaliased(n) ==
  LET m == Leads(n)
  IN IF m = Nobody THEN UNCHANGED merchantVars
     ELSE /\ IF m \in LiveMerchants THEN UNCHANGED <<merchants, aliases>>
             ELSE InsertMerchant(m, "system") /\ InsertAlias(n, m)
          /\ resolved' = Upserted(resolved, {n}, m)

(* normalize_merchant_sync: a name is resolved, and from then on an alias. *)
NormalizeMerchant(n) ==
  LET m == Leads(n)
  IN IF m = Nobody THEN UNCHANGED merchantVars
     ELSE /\ IF m \in LiveMerchants THEN UNCHANGED merchants ELSE InsertMerchant(m, "system")
          /\ InsertAlias(n, m)
          /\ resolved' = Upserted(resolved, {n}, m)

(* The user names a merchant.  The alias that is to remember the old name  *)
(* is entered under the new one.                                           *)
UserMerchant(n) ==
  /\ UNCHANGED resolved
  /\ IF n = <<>> \/ SelectByAlias(n) # Nobody \/ n \in DOMAIN merchants
     THEN UNCHANGED <<merchants, aliases>>
     ELSE InsertMerchant(n, "user") /\ InsertAlias(n, n)

UserChoice(n, before) ==
  IF n = <<>> THEN before
  ELSE IF SelectByAlias(n) # Nobody THEN SelectByAlias(n)
  ELSE IF n \in DOMAIN merchants THEN before ELSE n

(* The tool that removes what earlier versions took for merchants.         *)
RemoveImplausible ==
  LET gone == {n \in LiveMerchants : merchants[n].source = "system" /\ ~Plausible(n)}
  IN /\ gone # {} /\ SoftDelete(gone) /\ DeleteAliases(gone)
     /\ resolved' = [n \in {k \in DOMAIN resolved : resolved[k] \notin gone} |-> resolved[n]]

-----------------------------------------------------------------------------
MerchantsTypeOK ==
  /\ \A n \in DOMAIN merchants : merchants[n].source \in {"system", "user"}
  /\ \A n \in DOMAIN aliases : n # <<>> /\ aliases[n] \in DOMAIN merchants
  /\ DOMAIN resolved \subseteq DOMAIN aliases

(* A name that was resolved once leads to the same merchant in every later *)
(* mail, although merchants that are more like it may have come since by   *)
(* the mail, the user or the model: only the clean-up, which claims the    *)
(* names of a correction, moves it (normalize_merchant_sync; db/           *)
(* merchants.rs:83-87, one merchant is not split across several).          *)
SameMerchantAgain == \A n \in DOMAIN resolved : Leads(n) = resolved[n]
=============================================================================
