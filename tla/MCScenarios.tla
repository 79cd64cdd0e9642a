---------------------------- MODULE MCScenarios ----------------------------
(***************************************************************************)
(* An instance of Scenarios for TLC: presets of one and of several rules,  *)
(* one-shot and kept, a preset with a parameter, one that matches every    *)
(* request of every bank, and rules of the form that name a payment.       *)
(***************************************************************************)
EXTENDS Scenarios, TLC

Symmetry == Permutations(Clients) \cup Permutations(Operators)

SomeNames == {"ex1001", "epay_transient_500_then_ok", "epay_late_auth_postlink_lost"}

SomeInputs ==
  {[bank |-> "freedom", endpoint |-> "direct", payment |-> "1", order |-> ""],
   [bank |-> "freedom", endpoint |-> "get_status3.php", payment |-> "1", order |-> ""],
   [bank |-> "epay", endpoint |-> "epay_charge", payment |-> "", order |-> ""],
   [bank |-> "epay", endpoint |-> "epay_cryptopay", payment |-> "", order |-> ""]}

SomeFormRules ==
  {[Rule("freedom", Wild, "force_failure", "none", TRUE) EXCEPT !.payment = "1"],
   Rule(AnyBank, Wild, "delay", "none", FALSE)}
=============================================================================
