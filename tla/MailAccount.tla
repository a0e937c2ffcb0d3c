------------------------------ MODULE MailAccount ------------------------------
(***************************************************************************)
(* Access to Gmail (src/src-tauri/src/ingestion/oauth.rs, gmail_client.rs, *)
(* polling.rs): accounts are connected in the browser, their tokens kept   *)
(* in the keychain, renewed when they run out or are refused, purged when  *)
(* Google no longer honours them, and taken back on disconnection.  Polls  *)
(* read the mail of several accounts one after the other.                  *)
(*                                                                         *)
(* A grant is what the user gave at Google; a token is a copy of it that   *)
(* holds for an hour.  An optional value is a set of at most one.          *)
(***************************************************************************)
EXTENDS Naturals, FiniteSets

CONSTANTS Accounts,      \* mailboxes, whose accounts have ids made of their addresses
          Watchers,      \* tasks that read mail
          Loop,          \* the one of them that polls for ever
          Flows,         \* connections under way in the browser at once
          AccountLimit,  \* connected at most
          Renewals,      \* renewals of a token within one request
          MaxGrants      \* bound: times the user grants access

VARIABLES status,        \* account_status
          keychain,      \* per account: the token, an option
          honoured,      \* grants that Google honours
          granted,       \* how many the user gave
          licensed,      \* an active subscription
          flow,          \* per flow: how far it is
          leaving,       \* per account: how far its disconnection is
          watch          \* per task: what it is doing

accountVars == <<status, keychain, honoured, granted, licensed, flow, leaving, watch>>

NoFlow == [step |-> "none", account |-> {}, token |-> {}]
Rest   == [step |-> "rest", account |-> {}, token |-> {}, left |-> 0, purge |-> FALSE]

AccountInit ==
  /\ status = [a \in Accounts |-> "unknown"] /\ keychain = [a \in Accounts |-> {}]
  /\ honoured = {} /\ granted = 0 /\ licensed \in BOOLEAN
  /\ flow = [f \in Flows |-> NoFlow] /\ leaving = [a \in Accounts |-> "no"]
  /\ watch = [w \in Watchers |-> Rest]

Active == {a \in Accounts : status[a] = "ACTIVE"}

-----------------------------------------------------------------------------
(* Connecting.                                                             *)

NewAccountAllowed ==
  /\ Cardinality(Active) < AccountLimit
  /\ Active # {} => licensed

OpenConsent(f) ==
  /\ flow[f] = NoFlow /\ NewAccountAllowed
  /\ flow' = [flow EXCEPT ![f].step = "consent"]
  /\ UNCHANGED <<status, keychain, honoured, granted, licensed, leaving, watch>>

(* The user consents for a mailbox, whose name is known after the code is  *)
(* exchanged; Google ends no other grant.                                  *)
Consent(f, a) ==
  /\ flow[f].step = "consent" /\ granted < MaxGrants
  /\ granted' = granted + 1 /\ honoured' = honoured \cup {granted'}
  /\ flow' = [flow EXCEPT ![f] = [step |-> "exchanged", account |-> {a},
                                  token |-> {[grant |-> granted', fresh |-> TRUE]}]]
  /\ UNCHANGED <<status, keychain, licensed, leaving, watch>>

(* No answer in five minutes, a forged one, no code or no profile.         *)
AbandonFlow(f) ==
  /\ flow[f].step \in {"consent", "exchanged"}
  /\ flow' = [flow EXCEPT ![f] = NoFlow]
  /\ UNCHANGED <<status, keychain, honoured, granted, licensed, leaving, watch>>

KeepToken(f) ==
  /\ flow[f].step = "exchanged"
  /\ keychain' = [a \in Accounts |-> IF a \in flow[f].account THEN flow[f].token ELSE keychain[a]]
  /\ flow' = [flow EXCEPT ![f].step = "kept"]
  /\ UNCHANGED <<status, honoured, granted, licensed, leaving, watch>>

Enrol(f) ==
  /\ flow[f].step = "kept"
  /\ status' = [a \in Accounts |-> IF a \in flow[f].account THEN "ACTIVE" ELSE status[a]]
  /\ flow' = [flow EXCEPT ![f] = NoFlow]
  /\ UNCHANGED <<keychain, honoured, granted, licensed, leaving, watch>>

-----------------------------------------------------------------------------
(* Disconnecting: at Google, which may not be reached, then here.          *)

Revoke(a) ==
  /\ leaving[a] = "no" /\ status[a] \in {"ACTIVE", "degraded"}
  /\ honoured' \in {honoured, honoured \ {t.grant : t \in keychain[a]}}
  /\ leaving' = [leaving EXCEPT ![a] = "revoked"]
  /\ UNCHANGED <<status, keychain, granted, licensed, flow, watch>>

Forget(a) ==
  /\ leaving[a] = "revoked"
  /\ keychain' = [keychain EXCEPT ![a] = {}]
  /\ leaving' = [leaving EXCEPT ![a] = "forgotten"]
  /\ UNCHANGED <<status, honoured, granted, licensed, flow, watch>>

Disconnect(a) ==
  /\ leaving[a] = "forgotten"
  /\ status' = [status EXCEPT ![a] = "disconnected"]
  /\ leaving' = [leaving EXCEPT ![a] = "no"]
  /\ UNCHANGED <<keychain, honoured, granted, licensed, flow, watch>>

-----------------------------------------------------------------------------
(* Reading mail.                                                           *)

OpenMail(w, a) ==
  /\ watch[w] = Rest /\ a \in Active
  /\ watch' = [watch EXCEPT ![w] = [Rest EXCEPT !.step = "token", !.account = {a}, !.left = Renewals]]
  /\ UNCHANGED <<status, keychain, honoured, granted, licensed, flow, leaving>>

(* get_valid_access_token, and force_refresh_access_token after a refusal: *)
(* without a stored token the account is degraded.                         *)
ReadKeychain(w) ==
  /\ watch[w].step \in {"token", "renew"}
  /\ \E a \in watch[w].account :
       watch' = [watch EXCEPT ![w].token = keychain[a], ![w].purge = keychain[a] = {},
                   ![w].step = CASE keychain[a] = {} -> "degrade"
                                 [] watch[w].step = "token" /\ \E t \in keychain[a] : t.fresh -> "ask"
                                 [] OTHER -> "exchange"]
  /\ UNCHANGED <<status, keychain, honoured, granted, licensed, flow, leaving>>

Honoured(t) == t.fresh /\ t.grant \in honoured

(* A request to Gmail: it is served, or refused until the renewals are     *)
(* used up.                                                                *)
Served(w) ==
  /\ watch[w].step = "ask" /\ \E t \in watch[w].token : Honoured(t)
  /\ watch' = [watch EXCEPT ![w] = Rest]
  /\ UNCHANGED <<status, keychain, honoured, granted, licensed, flow, leaving>>

Refused(w) ==
  /\ watch[w].step = "ask" /\ \E t \in watch[w].token : ~Honoured(t)
  /\ watch' = [watch EXCEPT ![w] = IF watch[w].left = 0 THEN Rest
                                   ELSE [watch[w] EXCEPT !.step = "renew", !.left = watch[w].left - 1]]
  /\ UNCHANGED <<status, keychain, honoured, granted, licensed, flow, leaving>>

(* Gmail cannot be reached, or is busy, as often as the code tries.        *)
Unserved(w) ==
  /\ watch[w].step = "ask" /\ watch' = [watch EXCEPT ![w] = Rest]
  /\ UNCHANGED <<status, keychain, honoured, granted, licensed, flow, leaving>>

(* refresh_token_store: Google renews the token, or no longer knows the    *)
(* grant, or cannot be asked; only the second means that it is lost.       *)
Exchange(w) ==
  /\ watch[w].step = "exchange"
  /\ \E t \in watch[w].token, answered \in BOOLEAN :
       watch' = [watch EXCEPT ![w] =
         IF answered /\ t.grant \in honoured
         THEN [watch[w] EXCEPT !.step = "store", !.token = {[t EXCEPT !.fresh = TRUE]}]
         ELSE [watch[w] EXCEPT !.step = "degrade", !.purge = answered]]
  /\ UNCHANGED <<status, keychain, honoured, granted, licensed, flow, leaving>>

Store_(w) ==
  /\ watch[w].step = "store"
  /\ keychain' = [a \in Accounts |-> IF a \in watch[w].account THEN watch[w].token ELSE keychain[a]]
  /\ watch' = [watch EXCEPT ![w].step = "ask"]
  /\ UNCHANGED <<status, honoured, granted, licensed, flow, leaving>>

(* mark_account_degraded_async: a lost token is purged, then the account   *)
(* waits for the user, whatever went wrong and whatever it is by then.     *)
Purge(w) ==
  /\ watch[w].step = "degrade"
  /\ keychain' = [a \in Accounts |-> IF a \in watch[w].account /\ watch[w].purge THEN {} ELSE keychain[a]]
  /\ watch' = [watch EXCEPT ![w].step = "mark"]
  /\ UNCHANGED <<status, honoured, granted, licensed, flow, leaving>>

(* Regression: what is purged is not reported.                             *)
MarkTransient(w) ==
  /\ watch[w].step = "mark"
  /\ status' = [a \in Accounts |-> IF a \in watch[w].account /\ ~watch[w].purge THEN "degraded" ELSE status[a]]
  /\ watch' = [watch EXCEPT ![w] = Rest]
  /\ UNCHANGED <<keychain, honoured, granted, licensed, flow, leaving>>

MarkDegraded(w) ==
  /\ watch[w].step = "mark"
  /\ status' = [a \in Accounts |-> IF a \in watch[w].account THEN "degraded" ELSE status[a]]
  /\ watch' = [watch EXCEPT ![w] = Rest]
  /\ UNCHANGED <<keychain, honoured, granted, licensed, flow, leaving>>

-----------------------------------------------------------------------------
(* What happens outside: an hour passes, access is withdrawn at Google.    *)

Stale(tokens) == {[t EXCEPT !.fresh = FALSE] : t \in tokens}

Age(a) ==
  /\ \E t \in keychain[a] : t.fresh
  /\ keychain' = [keychain EXCEPT ![a] = Stale(keychain[a])]
  /\ watch' = [w \in Watchers |-> IF a \in watch[w].account
                                  THEN [watch[w] EXCEPT !.token = Stale(watch[w].token)] ELSE watch[w]]
  /\ UNCHANGED <<status, honoured, granted, licensed, flow, leaving>>

Withdraw(g) ==
  /\ honoured' = honoured \ {g}
  /\ UNCHANGED <<status, keychain, granted, licensed, flow, leaving, watch>>

WatchNext(w) ==
  \/ \E a \in Accounts : OpenMail(w, a)
  \/ ReadKeychain(w) \/ Served(w) \/ Refused(w) \/ Unserved(w)
  \/ Exchange(w) \/ Store_(w) \/ Purge(w) \/ MarkDegraded(w)

AccountNext ==
  \/ \E f \in Flows : \/ OpenConsent(f) \/ AbandonFlow(f) \/ KeepToken(f) \/ Enrol(f)
                      \/ \E a \in Accounts : Consent(f, a)
  \/ \E a \in Accounts : Revoke(a) \/ Forget(a) \/ Disconnect(a) \/ Age(a)
  \/ \E g \in honoured : Withdraw(g)
  \/ \E w \in Watchers : WatchNext(w)

(* The loop polls every active account again and again, and Gmail can be   *)
(* reached now and then; a task that has begun goes on.                    *)
WatchFairness ==
  /\ \A a \in Accounts : SF_accountVars(OpenMail(Loop, a))
  /\ SF_accountVars(Refused(Loop))
  /\ \A w \in Watchers :
       /\ WF_accountVars(ReadKeychain(w)) /\ WF_accountVars(Exchange(w)) /\ WF_accountVars(Store_(w))
       /\ WF_accountVars(Purge(w)) /\ WF_accountVars(MarkDegraded(w))
       /\ WF_accountVars(Served(w) \/ Refused(w) \/ Unserved(w))

-----------------------------------------------------------------------------
Lost(a) == status[a] = "ACTIVE" /\ ~ \E t \in keychain[a] : t.grant \in honoured

(* Mail that can no longer be read never stops coming in silently: an      *)
(* account that counts as active and whose access is lost, to a withdrawal *)
(* at Google, a disconnection, another task's purge or an older token      *)
(* stored late, is degraded, so that the user is asked to reconnect        *)
(* (get_valid_access_token, mark_account_degraded_async).                  *)
LostAccessIsReported == \A a \in Accounts : Lost(a) ~> ~Lost(a)
=============================================================================
