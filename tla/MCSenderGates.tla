---------------------------- MODULE MCSenderGates ----------------------------
(***************************************************************************)
(* The letters of an instance of SenderGates for TLC.                      *)
(***************************************************************************)
EXTENDS SenderGates

Sender(domain, length, class) ==
  [domain |-> domain, length |-> length, class |-> class, bank |-> domain, names |-> {"Bank"}]
MCRegistry == {Sender("bank", 1, "transaction"), Sender("card", 2, "statement"), Sender("news", 2, "noise")}
MCDomains  == {"bank", "card", "mail", "news", "b4nk"}
MCKin == [k \in MCDomains \X MCRegistry |->
            CASE k[1] = k[2].domain -> "is"
              [] k[1] = "mail" /\ k[2].domain \in {"bank", "card"} -> "under"
              [] k[1] = "b4nk" /\ k[2].domain = "bank" -> "close"
              [] OTHER -> "none"]

Address(domain) == [ats |-> 1, domain |-> domain, name |-> "Bank"]
Passed == [server |-> "google.com", spf |-> "pass", dkim |-> "pass", dmarc |-> "pass"]
Forged == [server |-> "google.com", spf |-> "fail", dkim |-> "fail", dmarc |-> "none"]

(* What the ladder reads: a payment, with or without its account.          *)
Read(amount, merchant, balance, account) ==
  [Blank("generic_regex", {}) EXCEPT
     !.amount = amount, !.merchant = merchant, !.balance = balance, !.instrument = account,
     !.issuer = account, !.mask = account]
Letter(from, told, subject, snippet, rest, reading) ==
  [from |-> from, told |-> told, subject |-> subject, snippet |-> snippet,
   rest |-> rest, reading |-> reading]
Box == [
  paid      |-> Letter(<<Address("bank")>>, <<Passed>>, {"debited"}, {"amount"}, {},
                       {Read({199}, {"shop"}, {}, {"x"}), Read({199}, {"x12"}, {}, {}), Read({199}, {"of"}, {7}, {})}),
  announced |-> Letter(<<Address("mail")>>, <<>>, {"balance"}, {"will be debited"}, {"amount"},
                       {Read({199}, {"shop"}, {7}, {"x"}), Read({199}, {"of"}, {}, {"x"}), Read({99}, {"shop"}, {}, {"x"})}),
  declined  |-> Letter(<<Address("bank")>>, <<>>, {"debited"}, {"amount"}, {"failed"}, {Read({199}, {"shop"}, {}, {"x"})}),
  forged    |-> Letter(<<Address("bank")>>, <<[Passed EXCEPT !.server = "bank"], Forged>>, {"debited"}, {"amount"}, {}, {Read({199}, {"shop"}, {}, {"x"})}),
  squatted  |-> Letter(<<Address("b4nk")>>, <<Passed>>, {"debited"}, {"amount"}, {}, {}),
  mandate   |-> Letter(<<Address("card")>>, <<>>, {}, {"mandate registered"}, {}, {}),
  unread    |-> Letter(<<[Address("bank") EXCEPT !.ats = 2]>>, <<>>, {"debited"}, {}, {}, {}),
  due       |-> Letter(<<Address("bank")>>, <<>>, {"due"}, {"debited"}, {"will be debited"}, {}),
  terms     |-> Letter(<<Address("card")>>, <<>>, {"terms"}, {}, {}, {}),
  news      |-> Letter(<<Address("news")>>, <<>>, {"debited"}, {}, {}, {}),
  otp       |-> Letter(<<Address("bank")>>, <<>>, {"otp"}, {}, {}, {})]
MCLetters   == DOMAIN Box
MCFrom      == [l \in MCLetters |-> Box[l].from]
MCAuthHeaders == [l \in MCLetters |-> Box[l].told]
MCSubject   == [l \in MCLetters |-> Box[l].subject]
MCSnippet   == [l \in MCLetters |-> Box[l].snippet]
MCHeadOf    == [l \in MCLetters |-> IF l = "due" THEN Box[l].rest ELSE Box[l].snippet \cup Box[l].rest]
MCTailOf    == [l \in MCLetters |-> {}]
MCReading   == [l \in MCLetters |-> Box[l].reading]
MCDelivered == [l \in MCLetters |-> 0]
=============================================================================
