----------------------------- MODULE Extraction -----------------------------
(***************************************************************************)
(* How the text of a bank's alert becomes the fields of a payment          *)
(* (src/src-tauri/src/extraction): the ladder of layers, each tried only   *)
(* when the ones before it recovered too little, and what happens to the   *)
(* result of whichever layer succeeded.                                    *)
(*                                                                         *)
(* A text is a sequence of the tokens the regular expressions and label    *)
(* scans look for, in the order they occur: records of a kind k, of what   *)
(* stands around them (at: a label, or how a figure and its currency are   *)
(* written) and a value v.  An optional field is a set of at most one      *)
(* value.  Dates are days; a date of two readings has both of them.        *)
(***************************************************************************)
EXTENDS Integers, Sequences, FiniteSets

CONSTANTS Bank,          \* the sender
          Patterns,      \* of the bank's template, in order
          Entries,       \* lines of statements already parsed
          Instruments,   \* the pairs of type and number that exist
          NotMerchants,  \* names that are vocabulary, or the bank's own
          Implausible,   \* names the normalizer refuses
          OwnAccounts    \* names that are an account number

-----------------------------------------------------------------------------
(* Options and texts.                                                      *)

Dates == [on : Int, other : Int]

Option(S) == \A v, u \in S : v = u

Fill(option, other) == IF option = {} THEN other ELSE option

First(text, T(_)) ==
  {text[n] : n \in {m \in DOMAIN text : T(text[m]) /\ \A k \in 1 .. m - 1 : ~T(text[k])}}

Value(text, T(_)) == {t.v : t \in First(text, T)}

Of(text, kinds) == Value(text, LAMBDA t : t.k \in kinds)

(* The template of a text is what remains when its digits are dropped:     *)
(* names and words stay, figures, dates, numbers and masks do not.         *)
Figures == {"money", "balance", "date", "ref", "card", "account", "emi"}
Template(text) ==
  [i \in DOMAIN text |-> <<text[i].k, text[i].at, IF text[i].k \in Figures THEN {} ELSE {text[i].v}>>]

-----------------------------------------------------------------------------
(* Results.                                                                *)

Blank(method, confidence) ==
  [method |-> method, conf |-> confidence, flag |-> "none",
   amount |-> {}, currency |-> {}, direction |-> {}, time |-> {}, merchant |-> {},
   reference |-> {}, balance |-> {}, original |-> {}, installment |-> {},
   issuer |-> {}, instrument |-> {}, mask |-> {}, network |-> {}, vpa |-> {}, channel |-> {}]

ResultFields == DOMAIN Blank("none", {})

(* No field of a result has two values; how it was read and whether it is  *)
(* in doubt it always says.                                                *)
Optional(result) ==
  DOMAIN result = ResultFields /\ \A f \in ResultFields \ {"method", "flag"} : Option(result[f])

Has(result, fields) == \A f \in fields : result[f] # {}

Valid(result) ==
  Has(result, {"time"}) /\ (\/ Has(result, {"amount", "currency", "direction", "merchant"})
                            \/ Has(result, {"balance"}))

PassesGate3(result) ==
  \/ Has(result, {"amount", "merchant", "instrument", "issuer", "mask"})
  \/ Has(result, {"balance"})

-----------------------------------------------------------------------------
(* Layer 1: learned rules.  A rule sets a fixed value, on its own template *)
(* only, or captures what stands at a place in any text of the bank.       *)

Place(token) == <<token.k, token.at>>

Capture(rule, text) ==
  IF rule.fixed = {} THEN Value(text, LAMBDA t : {Place(t)} = rule.place)
  ELSE IF rule.template = Template(text) THEN rule.fixed ELSE {}

(* Regression: the more confident rule first, whichever its template.      *)
BeforeByConfidence(a, b, text) ==
  \/ a.s * (b.s + b.f) > b.s * (a.s + a.f)
  \/ a.s * (b.s + b.f) = b.s * (a.s + a.f) /\ a.id < b.id

(* A rule of the text's own template first, then by hit rate, by number of *)
(* hits and by id.                                                         *)
Before(a, b, text) ==
  LET own(r)  == r.template = Template(text)
      more(r, q) == r.s * (q.s + q.f) > q.s * (r.s + r.f)
  IN \/ own(a) /\ ~own(b)
     \/ /\ own(a) = own(b)
        /\ \/ more(a, b)
           \/ ~more(b, a) /\ a.s > b.s
           \/ ~more(b, a) /\ a.s = b.s /\ a.id < b.id

Winner(rules, field, text) ==
  LET able == {r \in rules : r.field = field /\ Capture(r, text) # {}}
  IN {r \in able : \A q \in able \ {r} : Before(r, q, text)}

ApplyLearnedFields(rules, text, result) ==
  [f \in DOMAIN result |->
     LET won == Winner(rules, f, text)
     IN IF won = {} THEN result[f] ELSE UNION {Capture(r, text) : r \in won}]

LearnedFieldLayer(rules, text) ==
  LET blank == Blank("learned_fields", {95}) IN {ApplyLearnedFields(rules, text, blank)} \ {blank}

-----------------------------------------------------------------------------
(* Layer 2: the bank's template.  The first pattern with a valid result,   *)
(* or else the first that matched.                                         *)

Group == [amount |-> {"money"}, merchant |-> {"name"}, time |-> {"date"}, balance |-> {"balance"},
          reference |-> {"ref"}, mask |-> {"card", "account"}, vpa |-> {"myvpa"}]

Matched(pattern, text) ==
  LET blank == Blank("bank_templates", {95})
      captured == [f \in DOMAIN blank |->
                     IF f \in pattern.groups THEN Of(text, Group[f]) ELSE blank[f]]
  IN [captured EXCEPT !.direction = {pattern.direction}, !.currency = {pattern.currency},
                      !.time = Fill(captured.time, pattern.fallback),
                      !.instrument = pattern.instrument]

BankTemplateLayer(text) ==
  LET matches(p) == ~p.mandate /\ \A k \in p.needs : Of(text, {k}) # {}
      chosen == Fill(First(Patterns, LAMBDA p : matches(p) /\ Valid(Matched(p, text))),
                     First(Patterns, matches))
  IN {Matched(p, text) : p \in chosen}

-----------------------------------------------------------------------------
(* Layer 3: currencies, verbs and labels of no bank in particular.         *)

Amounts == {"money", "balance"}   \* the figures written with a currency

(* The first figure behind a currency, or else the first before one.       *)
AmountRead(text) ==
  Fill(First(text, LAMBDA t : t.k \in Amounts /\ t.at \in {"glued", "spaced"}),
       First(text, LAMBDA t : t.k \in Amounts /\ t.at = "suffix"))

IsMerchant(token) == token.v \notin NotMerchants

(* The verb that comes first; a payment nobody names is a debit.           *)
Verb(text) == {t.k : t \in First(text, LAMBDA t : t.k \in {"debit", "credit"})}

Min2(a, b) == IF a < b THEN a ELSE b

GenericRegexLayer(text) ==
  LET money  == AmountRead(text)
      strict == Value(text, LAMBDA t : t.k = "name" /\ t.at = "strict" /\ IsMerchant(t))
      loose  == Value(text, LAMBDA t : t.k = "name" /\ t.at # "strict" /\ IsMerchant(t))
      vpa    == Value(text, LAMBDA t : t.k = "vpa" /\ t.at = "VPA")
      merchant == Fill(strict, Fill(loose, vpa))
      points == 50 + (IF money # {} THEN 10 ELSE 0) + (IF Verb(text) # {} THEN 10 ELSE 0)
                   + (IF strict # {} THEN 15 ELSE IF merchant # {} THEN 5 ELSE 0)
                   + (IF Of(text, {"ref"}) # {} THEN 5 ELSE 0)
  IN [Blank("generic_regex", {Min2(points, 70)}) EXCEPT
        !.amount = {t.v : t \in money}, !.currency = {t.cur : t \in money},
        !.direction = Fill(Verb(text), {"debit" : t \in money}),
        !.merchant = merchant, !.time = Of(text, {"date"}), !.reference = Of(text, {"ref"})]

-----------------------------------------------------------------------------
(* Layer 4: token by token, with a balance and without a confidence.       *)

NlpLayer(text) ==
  LET money  == First(text, LAMBDA t : t.k \in Amounts /\ t.at = "spaced" /\ t.cur = "INR")
      strict == Value(text, LAMBDA t : t.k = "name" /\ t.at = "strict" /\ IsMerchant(t))
      any    == Value(text, LAMBDA t : t.k \in {"name", "narration"} /\ IsMerchant(t))
      dated  == Value(text, LAMBDA t : t.k = "date" /\ t.at = "on")
  IN [Blank("nlp", {}) EXCEPT
        !.amount = {t.v : t \in money}, !.currency = {t.cur : t \in money},
        !.direction = Verb(text), !.merchant = Fill(strict, any),
        !.balance = Of(text, {"balance"}), !.time = Fill(dated, Of(text, {"date"}))]

-----------------------------------------------------------------------------
(* Whose account it is: a card, else an account, else the user's own UPI   *)
(* address, which is not the other side's.                                 *)

InstrumentSignals(text) ==
  LET others  == {text[i].v : i \in {j \in DOMAIN text : text[j].k = "vpa"}}
      card    == First(text, LAMBDA t : t.k = "card")
      account == First(text, LAMBDA t : t.k = "account")
      mine    == Value(text, LAMBDA t : t.k = "myvpa" /\ t.v \notin others)
  IN [issuer |-> {Bank}, network |-> Of(text, {"network"}), vpa |-> mine,
      instrument |-> Fill({t.at : t \in card},
                          Fill({"bank_account" : t \in account}, {"upi_vpa" : v \in mine})),
      mask |-> Fill({t.v : t \in card}, Fill({t.v : t \in account}, mine))]

ApplyInstrumentSignals(result, text) ==
  LET signals == InstrumentSignals(text)
  IN [f \in DOMAIN result |->
        IF f \in DOMAIN signals THEN Fill(result[f], signals[f]) ELSE result[f]]

(* Layer 5: the one line of a statement of that account, within three days *)
(* of the mail, with its amount or its reference.                          *)
CrossrefLayer(text, received) ==
  LET amount    == {t.v : t \in AmountRead(text)}
      reference == Of(text, {"ref"})
      signals   == InstrumentSignals(text)
      key       == signals.instrument \X signals.mask
      lines     == {e \in Entries :
                      /\ key \subseteq Instruments /\ {e.key} = key
                      /\ \E day \in received : e.day - day \in -3 .. 3
                      /\ e.reference \cap reference # {} \/ e.amount \cap amount # {}}
  IN {ApplyInstrumentSignals(
        [Blank("layer5_statement_crossref", {90}) EXCEPT
           !.amount = e.amount, !.currency = e.currency, !.direction = e.direction,
           !.time = {[on |-> e.day, other |-> e.day]}, !.merchant = e.merchant,
           !.reference = e.reference], text)
      : e \in IF Cardinality(lines) = 1 THEN lines ELSE {}}

-----------------------------------------------------------------------------
(* What every result of the ladder goes through.                           *)

ChannelOrder == <<"internal_transfer", "bnpl", "loan", "ecs_nach", "upi_credit_card", "imps",
                  "neft", "rtgs", "upi", "pos", "atm", "wallet", "cheque", "emi">>

DetectChannel(result, text) ==
  LET says(c)  == First(text, LAMBDA t : t.k = "word" /\ t.v = c) # {}
      shows(c) == CASE c = "upi_credit_card" -> says("upi") /\ result.instrument = {"credit_card"}
                    [] c = "emi"             -> result.installment # {}
                    [] OTHER                 -> says(c)
  IN First(ChannelOrder, shows)

(* A figure in another currency than the one settled in.                   *)
DetectForeignAmount(result, text) ==
  LET settled == Fill(result.currency, {"INR"})
      coded   == First(text, LAMBDA t : t.k = "money" /\ t.at # "suffix" /\ t.cur # "INR")
  IN {t.v : t \in {u \in coded : {u.cur} # settled}}

CrossCheckConfidence == 40

(* The amount is compared with the first figure in the text, read anew.    *)
ApplyAmountCrossCheck(result, text) ==
  LET read == {t.v : t \in AmountRead(text)}
  IN IF {} \notin {result.amount, read} /\ read \notin {result.amount, result.original}
     THEN [result EXCEPT !.conf =
             Fill({Min2((c * 4) \div 5, CrossCheckConfidence) : c \in result.conf},
                  {CrossCheckConfidence})]
     ELSE result

Distance(a, b) == IF a < b THEN b - a ELSE a - b
DecisiveRatio  == 3
PlausibleDelay == 7

(* Of a date that can be read day first or month first, the reading is     *)
(* exchanged when only the other one fits the time the mail arrived.       *)
ApplyDateCrossCheck(result, received) ==
  LET swap(t) == \E d \in received : /\ Distance(t.other, d) <= PlausibleDelay
                                     /\ Distance(t.other, d) * DecisiveRatio < Distance(t.on, d)
      lost(t) == \E d \in received : /\ Distance(t.on, d) > PlausibleDelay
                                     /\ Distance(t.other, d) > PlausibleDelay
      ambiguous == {t \in result.time : t.on # t.other}
  IN IF \E t \in ambiguous : swap(t)
     THEN [result EXCEPT !.time = {[on |-> t.other, other |-> t.on] : t \in result.time},
                         !.flag = "swapped_by_anchor"]
     ELSE IF \E t \in ambiguous : lost(t)
     THEN [result EXCEPT !.flag = "anchor_mismatch_needs_review",
             !.conf = Fill({Min2(c, CrossCheckConfidence) : c \in result.conf},
                           {CrossCheckConfidence})]
     ELSE result

(* Everything the text says beside the fields of the layer.                *)
Enriched(result, text) ==
  LET signals == ApplyInstrumentSignals(result, text)
      emi     == [signals EXCEPT !.installment = Fill(@, Of(text, {"emi"}))]
  IN [emi EXCEPT !.original = Fill(@, DetectForeignAmount(emi, text)),
                 !.channel  = Fill(@, DetectChannel(emi, text))]

Relearned(rules, text, result) ==
  IF result.method = "learned_fields" THEN result ELSE ApplyLearnedFields(rules, text, result)

(* Regression: the amount is checked before the learned rules change it.   *)
FinalizeResultEarly(rules, text, received, results) ==
  LET checked   == {ApplyAmountCrossCheck(r, text) : r \in results}
      relearned == {Relearned(rules, text, r) : r \in checked}
      enriched  == {Enriched(r, text) : r \in relearned}
  IN {ApplyDateCrossCheck(r, received) : r \in enriched}

FinalizeResult(rules, text, received, results) ==
  LET relearned == {Relearned(rules, text, r) : r \in results}
      enriched  == {Enriched(r, text) : r \in relearned}
      checked   == {ApplyAmountCrossCheck(r, text) : r \in enriched}
  IN {ApplyDateCrossCheck(r, received) : r \in checked}

(* The layers in order; the result of the first that is valid.             *)
RunExtractionLadder(rules, text, received) ==
  LET layers  == <<LearnedFieldLayer(rules, text), BankTemplateLayer(text),
                   {GenericRegexLayer(text)}, {NlpLayer(text)}, CrossrefLayer(text, received)>>
      winning == First(layers, LAMBDA layer : \E r \in layer : Valid(r))
  IN FinalizeResult(rules, text, received, UNION winning)

-----------------------------------------------------------------------------
(* What becomes of the ladder's result before it is booked or parked       *)
(* (message_processor.rs).                                                 *)

SelfTransfer(read) ==
  IF read.merchant # {} /\ read.merchant \subseteq OwnAccounts
  THEN [read EXCEPT !.merchant = {"internal transfer"}] ELSE read

(* A message about a balance alone moves no money, whatever was read.      *)
BalancePlaceholder(class, read) ==
  IF read.balance = {} THEN read
  ELSE IF class = "balance"
  THEN [read EXCEPT !.merchant = {"balance update"}, !.amount = {0}, !.direction = {"unknown"},
                    !.currency = {"INR"}]
  ELSE IF read.merchant = {}
  THEN [read EXCEPT !.merchant = {"balance update"}, !.amount = Fill(@, {0}),
                    !.direction = Fill(@, {"unknown"}), !.currency = Fill(@, {"INR"})]
  ELSE read

(* The day of delivery stands for a date that is missing, a transfer to an *)
(* account is named for what it is, and a name the normalizer refuses is   *)
(* none.                                                                   *)
Tidied(delivered, class, read) ==
  LET timed == [read EXCEPT !.time = Fill(@, {[on |-> day, other |-> day] : day \in delivered})]
  IN BalancePlaceholder(class, [SelfTransfer(timed) EXCEPT !.merchant = @ \ Implausible])

-----------------------------------------------------------------------------
(* Layer 6: what the local model answers is taken only if it stands in the *)
(* text, and asked for once more if it does not.                           *)

Grounded(result, text) ==
  /\ \A v \in result.merchant : \E i \in DOMAIN text : text[i].k \in {"name", "narration", "vpa"} /\ text[i].v = v
  /\ \A v \in result.reference : \E i \in DOMAIN text : text[i].k = "ref" /\ text[i].v = v
  /\ \A v \in result.amount : \E i \in DOMAIN text : text[i].k \in Amounts /\ text[i].v = v

(* Without a date of its own the answer has that of the mail.              *)
Parsed(answer, received) ==
  [answer EXCEPT !.method = "llm_layer6",
                 !.time = Fill(answer.time, {[on |-> day, other |-> day] : day \in received})]

Acceptable(result, text) ==
  /\ result.amount # {} /\ \A v \in result.amount : v > 0
  /\ Valid(result) /\ Grounded(result, text)

(* An attempt fails, times out, finds no transaction, or is a result.      *)
Layer6(first, second, text, received) ==
  LET refused(a) == a.method = "answer" /\ ~Acceptable(Parsed(a, received), text)
      last == IF refused(first) THEN second ELSE first
  IN IF last.method = "answer" /\ ~refused(last) THEN {Parsed(last, received)} ELSE {}
=============================================================================
