--------------------------- MODULE MCRuleLearning ---------------------------
(***************************************************************************)
(* Instances of RuleLearning for TLC: alerts of one bank in a few wordings *)
(* each of which occurs twice with other figures.  An execution chooses a  *)
(* group of messages and what the user corrects of them.                   *)
(***************************************************************************)
EXTENDS RuleLearning

VARIABLE scene

Tok(kind, at, value)        == [k |-> kind, at |-> at, v |-> value]
Money(kind, at, value, cur) == [k |-> kind, at |-> at, v |-> value, cur |-> cur]
Rupees(at, value)           == Money("money", at, value, "INR")
Date(day, other)            == Tok("date", "on", [on |-> day, other |-> other])

(* "INR .. debited from card .. at cafe on .., ref ..": read by the         *)
(* generic layer.                                                          *)
Plain(amount, date) ==
  <<Rupees("spaced", amount), Tok("debit", "", "debited"), Tok("card", "credit_card", "1234"),
    Tok("name", "strict", "cafe"), date, Tok("ref", "", 77)>>

(* "Limit Rs.9000. INR .. paid to kiosk from diner": the first figure is   *)
(* not the amount, the first name not the merchant.                        *)
Limited(limit, amount, date) ==
  <<Rupees("glued", limit), Rupees("spaced", amount), Tok("name", "strict", "kiosk"),
    Tok("name", "loose", "diner"), Tok("card", "debit_card", "1234"), date>>

(* Without a date no layer before the model suffices.                      *)
Terse(limit, amount) ==
  <<Rupees("glued", limit), Money("money", "suffix", amount, "INR"), Tok("debit", "", "spent"),
    Tok("name", "loose", "stall"), Tok("narration", "", "canteen"),
    Tok("card", "credit_card", "1234")>>

(* Texts of the bank's own template, of a foreign payment in instalments   *)
(* that names an account for a merchant, of a transfer between UPI         *)
(* addresses with a balance and a name that is none, of one that only a    *)
(* statement completes, and of a transfer to an account of one's own.      *)
Shipped ==
  <<Tok("word", "", "pos"), Rupees("suffix", 40), Tok("name", "loose", "shop"), Date(9, 9)>>
Foreign ==
  <<Money("money", "spaced", 30, "USD"), Rupees("glued", 2500), Tok("credit", "", "refunded"),
    Tok("name", "loose", "x12"), Tok("card", "credit_card", "1234"), Tok("emi", "", <<1, 3>>),
    Date(-40, -60)>>
Upi ==
  <<Rupees("spaced", 20), Tok("narration", "", "of"), Tok("myvpa", "", "me@upi"),
    Tok("vpa", "", "friend@upi"), Tok("word", "", "upi"), Money("balance", "spaced", 800, "INR"),
    Date(9, 9)>>
Known == <<Tok("account", "", "99"), Rupees("spaced", 60), Tok("ref", "", 88)>>
Own ==
  <<Rupees("glued", 70), Tok("word", "", "internal_transfer"), Tok("name", "loose", "savings"),
    Tok("card", "credit_card", "1234")>>

MCText ==
  [p1 |-> Plain(500, Date(9, 40)), p2 |-> Plain(700, Date(40, 10)),
   l1 |-> Limited(9000, 500, Date(9, 9)), l2 |-> Limited(8000, 300, Date(9, 9)),
   t1 |-> Terse(9000, 100), t2 |-> Terse(8000, 200),
   b1 |-> Shipped, f1 |-> Foreign, u1 |-> Upi, k1 |-> Known, o1 |-> Own]

MCMessages == DOMAIN MCText
MCReceived == [i \in MCMessages |-> {10}]

Says(merchant, amount, conf) ==
  [Blank("answer", {conf}) EXCEPT !.amount = {amount}, !.currency = {"INR"},
                                  !.direction = {"debit"}, !.merchant = {merchant}]
Fails == Blank("failed", {})

MCAnswers ==
  [i \in MCMessages |-> CASE i = "t1" -> {Says("stall", 100, 90), Says("cafe", 100, 90), Fails}
                          [] i = "t2" -> {Says("stall", 200, 90), Says("stall", 200, 50)}
                          [] i = "o1" -> {Says("savings", 70, 50)}
                          [] OTHER    -> {Fails}]

MCCorrections ==
  [c \in {<<"p1", "amount">>, <<"p2", "merchant">>, <<"p1", "direction">>, <<"p1", "time">>,
          <<"l1", "amount">>, <<"l2", "amount">>, <<"l1", "merchant">>, <<"l2", "merchant">>,
          <<"t1", "amount">>, <<"t1", "merchant">>} |->
     CASE c = <<"p1", "amount">>    -> {77}
       [] c = <<"p2", "merchant">>  -> {"kiosk"}
       [] c = <<"p1", "direction">> -> {"credit"}
       [] c = <<"p1", "time">>      -> {[on |-> 9, other |-> 40]}
       [] c = <<"l1", "amount">>    -> {500}
       [] c = <<"l2", "amount">>    -> {300}
       [] c[2] = "merchant" /\ c[1] \in {"l1", "l2"} -> {"diner"}
       [] c = <<"t1", "amount">>    -> {9000}
       [] c = <<"t1", "merchant">>  -> {"canteen"}]

Pattern(needs, groups, mandate) ==
  [needs |-> needs, groups |-> groups, mandate |-> mandate, direction |-> "debit",
   currency |-> "INR", fallback |-> {}, instrument |-> {"debit_card"}]
MCPatterns ==
  <<Pattern({"word"}, {"amount"}, TRUE), Pattern({"word"}, {"amount"}, FALSE),
    Pattern({"word", "name"}, {"amount", "merchant", "time"}, FALSE)>>

MCEntries ==
  {[key |-> <<"bank_account", "99">>, day |-> 8, amount |-> {60}, reference |-> {88},
    direction |-> {"debit"}, currency |-> {"INR"}, merchant |-> {"landlord"}]}
MCInstruments == {<<"bank_account", "99">>}

(* The messages of a scene and what the user puts right in it. *)
FixesOf(messages) == {c \in DOMAIN MCCorrections : c[1] \in messages}
Scenes ==
  {[mail |-> m, fixes |-> FixesOf(m)] : m \in {{"p1", "p2"}, {"l1", "l2"}, {"t1", "t2"}}}
  \cup {[mail |-> {"l1", "l2", "t1"}, fixes |-> {<<"l1", "amount">>, <<"t1", "amount">>}],
        [mail |-> {"b1", "f1", "u1", "k1", "o1"}, fixes |-> {}]}

LearningInit == Init /\ scene \in Scenes
LearningNext ==
  /\ Next
  /\ \A i \in Messages \ scene.mail : mail'[i] = mail[i]
  /\ corrected' \subseteq scene.fixes
=============================================================================
