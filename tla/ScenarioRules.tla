--------------------------- MODULE ScenarioRules ---------------------------
(***************************************************************************)
(* The rules ("scenarios") by which ChaosPay distorts the answers of the   *)
(* banks it stands in for: what a rule is and which requests it matches.   *)
(* The rules of the presets are in ScenarioPresets, the store of the rules *)
(* is Scenarios, their effect on a request is Gateway and the modules of   *)
(* the three banks.  Pure operators.                                       *)
(***************************************************************************)
EXTENDS Naturals, Sequences, FiniteSets

AnyBank == "any"             \* bank.Any, the empty string
Wild    == "*"               \* scenario.Wildcard

Wallets == {"applepay", "googlepay"}

FreedomEndpoints ==
  {"init", "direct", "get_status3.php", "do_capture.php", "cancel.php",
   "revoke.php", "init_payment.php", "add2", "remove"} \cup Wallets

EpayEndpoints ==
  {"epay_token", "epay_cryptopay", "epay_card_auth", "epay_charge",
   "epay_cancel", "epay_refund", "epay_status", "epay_confirm"}

FlittEndpoints ==
  {"flitt_checkout", "flitt_direct", "flitt_recurring", "flitt_capture",
   "flitt_reverse", "flitt_status", "flitt_3ds_step2"}

(***************************************************************************)
(* A rule as the panel or a preset writes it.  arg stands for the          *)
(* parameter of its action that changes what happens next, if there is     *)
(* one; late says that its visible_after parameter is above 0.             *)
(***************************************************************************)
Rule(bank, ep, action, arg, once) ==
  [bank |-> bank, endpoint |-> ep, payment |-> Wild, order |-> Wild,
   action |-> action, arg |-> arg, late |-> FALSE, once |-> once]

\* Any rule: the form takes whatever text is written into it.
AnyRule == [bank : STRING, endpoint : STRING, payment : STRING, order : STRING,
            action : STRING, arg : STRING, late : BOOLEAN, once : BOOLEAN]

Once(ep, action)          == <<ep, action, "none", TRUE>>
OnceWith(ep, action, arg) == <<ep, action, arg, TRUE>>
Kept(ep, action)          == <<ep, action, "none", FALSE>>
KeptWith(ep, action, arg) == <<ep, action, arg, FALSE>>

\* addFor: all three ids of a preset's rule are wildcards.
RulesFor(bank, lines) ==
  [i \in DOMAIN lines |->
     Rule(bank, lines[i][1], lines[i][2], lines[i][3], lines[i][4])]

\* The request as Match sees it: in.payment and in.order are "" where the
\* handler has not read them from the body yet.
MatchBank(rule, actual)  == rule = AnyBank \/ actual = AnyBank \/ rule = actual
MatchValue(rule, actual) == rule \in {"", Wild} \/ rule = actual

Matches(rule, in) ==
  /\ MatchBank(rule.bank, in.bank)
  /\ MatchValue(rule.endpoint, in.endpoint)
  /\ MatchValue(rule.payment, in.payment)
  /\ MatchValue(rule.order, in.order)

\* The first of the positions of S.
IsFirst(i, S) == i \in S /\ \A j \in S : i <= j

\* append(s[:i], s[i+1:]...): a book without one of its entries.
Without(s, i) == [k \in 1 .. (Len(s) - 1) |-> IF k < i THEN s[k] ELSE s[k + 1]]

(***************************************************************************)
(* The actions that answer a request without the handler, whatever the     *)
(* bank: scenarioapply.Transport.  Those of Lost leave the client without  *)
(* any answer; the others give it a body it cannot read.                   *)
(***************************************************************************)
Lost      == {"timeout", "connection_reset"}
Garbled   == {"http_error", "wrong_status_code", "empty_response",
              "malformed_body", "slow_body"}
Transport == Lost \cup Garbled
=============================================================================
