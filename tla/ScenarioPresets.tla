-------------------------- MODULE ScenarioPresets --------------------------
(***************************************************************************)
(* The presets of the panel: for every name, the rules ApplyPreset adds,   *)
(* in the order it adds them.                                              *)
(***************************************************************************)
EXTENDS ScenarioRules

\* Presets whose rules differ in codes and messages only.
FreedomDeclines ==
  {"insufficient_funds", "card_declined", "card_data_input", "expired_card",
   "3ds_failed", "limit_exceeded", "code_limit_exceeded", "emitter_error",
   "country_not_supported", "transaction_amount_zero", "unknown_bank_error",
   "default_bank_error"}

EpayDeclines ==
  {"epay_insufficient_funds", "epay_card_expired", "epay_invalid_card",
   "epay_declined_by_issuer", "epay_secure3d_failed", "epay_limit_exceeded",
   "epay_unknown_error"}

\* A request that fails, and a status request that says it went through.
FailedYet(ep, action, told) ==
  <<Once(ep, action), OnceWith("get_status3.php", "force_status", told)>>

\* One rule on each of the two wallets.
OnWallets(action, once) ==
  <<<<"applepay", action, "none", once>>, <<"googlepay", action, "none", once>>>>

Preset(name, lines) == [name |-> name, lines |-> lines]

FreedomIncidents ==
  {Preset("ex1001", FailedYet("direct", "ambiguous_error", "success")),
   Preset("ex1001_silent_hold", <<Once("direct", "sync_error_async_webhook")>>),
   Preset("ex1001_wallet_silent_hold", OnWallets("sync_error_async_webhook", TRUE)),
   Preset("hold_pending_recovery",
          <<OnceWith("direct", "force_status", "process"),
            OnceWith("get_status3.php", "force_status", "success")>>),
   Preset("capture_failed_status_approved",
          FailedYet("do_capture.php", "force_failure", "success")),
   Preset("cancel_failed_status_revoked",
          FailedYet("cancel.php", "force_failure", "revoked")),
   Preset("revoke_failed_status_revoked",
          FailedYet("revoke.php", "force_failure", "revoked")),
   Preset("hold_timeout", <<Once("direct", "timeout")>>),
   Preset("desync", <<Once("direct", "force_failure")>>)}

FreedomAnswers ==
  {Preset(name, <<Once(Wild, "force_failure")>>) : name \in FreedomDeclines}
  \cup
  {Preset("init_retry_exhausted", <<Kept("init_payment.php", "timeout")>>),
   Preset("hold_init_retry_exhausted", <<Kept("init", "timeout")>>),
   Preset("wallet_retry_exhausted", OnWallets("timeout", FALSE)),
   Preset("wallet_3ds_challenge", <<Once("googlepay", "wallet_3ds_challenge")>>),
   Preset("wallet_empty_response", OnWallets("empty_response", TRUE)),
   Preset("wallet_malformed", OnWallets("malformed_body", TRUE)),
   Preset("init_malformed_xml", <<Once("init_payment.php", "malformed_body")>>),
   Preset("slow_body_capture", <<Once("do_capture.php", "slow_body")>>),
   Preset("wrong_payment_id", <<Once("direct", "wrong_payment_id")>>),
   Preset("missing_signature", <<Once("direct", "missing_field")>>),
   Preset("wrong_amount", <<Once("get_status3.php", "wrong_amount")>>),
   Preset("status_waiting", <<KeptWith("get_status3.php", "force_status", "waiting")>>)}

\* On the charge endpoints only: a wildcard would be spent on the OAuth token.
EpayDecline ==
  <<Once("epay_card_auth", "force_failure"), Once("epay_cryptopay", "force_failure")>>

Challenge == Once("epay_cryptopay", "force_3ds")

EpayPayments ==
  {Preset(name, EpayDecline) : name \in EpayDeclines}
  \cup
  {Preset("epay_3ds_required", <<Challenge>>),
   Preset("epay_3ds_confirm_declined", <<Challenge, Once("epay_confirm", "force_failure")>>),
   Preset("epay_3ds_confirm_timeout", <<Challenge, Once("epay_confirm", "timeout")>>),
   Preset("epay_3ds_missing_action_url", <<Challenge>>),
   Preset("epay_cryptopay_500", <<Once("epay_cryptopay", "http_error")>>),
   Preset("epay_late_auth_postlink_lost",
          <<OnceWith("epay_cryptopay", "epay_late_operation", "AUTH")>>),
   Preset("epay_late_charge_postlink_lost",
          <<OnceWith("epay_cryptopay", "epay_late_operation", "CHARGE")>>),
   Preset("epay_wrong_invoice_id", <<Once("epay_cryptopay", "missing_field")>>),
   Preset("epay_ambiguous_authorize_recovery", <<Once("epay_cryptopay", "epay_ambiguous")>>),
   Preset("epay_bind_failure", <<Once("epay_cryptopay", "force_failure")>>)}

EpayOperations ==
  {Preset("epay_oauth_timeout", <<Kept("epay_token", "timeout")>>),
   Preset("epay_oauth_unauthorized", <<Once("epay_token", "force_unauthorized")>>),
   Preset("epay_charge_timeout", <<Once("epay_charge", "timeout")>>),
   Preset("epay_postlink_lost", <<Once("epay_charge", "postlink_lost")>>),
   Preset("epay_postlink_double", <<Once("epay_charge", "postlink_double")>>),
   Preset("epay_postlink_before_ack", <<Once("epay_charge", "postlink_before_ack")>>),
   Preset("epay_ambiguous_charge_recovery", <<Once("epay_charge", "epay_ambiguous")>>),
   Preset("epay_transient_500_then_ok", <<Kept("epay_charge", "transient_failure")>>),
   Preset("epay_double_charge_rejected", <<Once("epay_charge", "force_failure")>>),
   Preset("epay_double_cancel_rejected", <<Once("epay_cancel", "force_failure")>>),
   Preset("epay_unauthorized_401", <<Once(Wild, "force_unauthorized")>>),
   Preset("epay_forbidden_403", <<Once(Wild, "force_forbidden")>>),
   Preset("epay_webhook_unknown_order", <<Once(Wild, "delay")>>),
   Preset("epay_webhook_missing_fields", <<Once(Wild, "delay")>>)}

FlittPresets ==
  {Preset("flitt_insufficient_funds",
          <<OnceWith(Wild, "force_failure", "insufficient_funds")>>),
   Preset("flitt_card_declined", <<OnceWith(Wild, "force_failure", "declined")>>),
   Preset("flitt_3ds_decline",
          <<OnceWith("flitt_direct", "force_3ds", "declined_3ds"),
            OnceWith("flitt_recurring", "force_3ds", "declined_3ds"),
            Once("flitt_3ds_step2", "force_failure")>>),
   Preset("flitt_capture_timeout", <<Once("flitt_capture", "timeout")>>),
   Preset("flitt_recurring_timeout", <<Kept("flitt_recurring", "timeout")>>),
   Preset("flitt_checkout_500", <<Once("flitt_checkout", "http_error")>>),
   Preset("flitt_ex1001_silent_hold",
          <<Once("flitt_direct", "sync_error_async_webhook"),
            Once("flitt_recurring", "sync_error_async_webhook")>>),
   Preset("flitt_ambiguous_capture_recovery",
          <<Once("flitt_capture", "ambiguous_error"),
            OnceWith("flitt_status", "force_status", "approved")>>),
   Preset("flitt_webhook_lost", <<Once("flitt_direct", "delay")>>),
   Preset("flitt_malformed",
          <<Once("flitt_checkout", "malformed_body"), Once("flitt_direct", "malformed_body"),
            Once("flitt_recurring", "malformed_body")>>),
   Preset("flitt_wrong_amount", <<Once("flitt_status", "wrong_amount")>>),
   Preset("flitt_invalid_signature", <<Once("flitt_status", "missing_field")>>)}

\* The one preset whose rule is for every bank.
Deadline == {Preset("context_deadline", <<Kept(Wild, "timeout")>>)}

\* The presets whose rules are for a bank.
PresetsOf(b) ==
  CASE b = "freedom" -> FreedomIncidents \cup FreedomAnswers
    [] b = "epay"    -> EpayPayments \cup EpayOperations
    [] b = "flitt"   -> FlittPresets
    [] b = AnyBank   -> Deadline

RuledBanks == {"freedom", "epay", "flitt", AnyBank}

\* The rules of a preset; a name without a case adds none.
Cases(name) ==
  UNION {{RulesFor(b, p.lines) : p \in {p \in PresetsOf(b) : p.name = name}} :
           b \in RuledBanks}

PresetRules(name) ==
  IF Cases(name) = {} THEN <<>> ELSE CHOOSE rules \in Cases(name) : TRUE

(***************************************************************************)
(* The values of the form field visible_after: absent, a number of seconds *)
(* above 0, or anything else.  Only two presets declare the parameter, and *)
(* theirs is checked before the first rule is added; the form of any other *)
(* preset has no such field.                                               *)
(***************************************************************************)
Declares(name) == name \in {"epay_late_auth_postlink_lost", "epay_late_charge_postlink_lost"}
Values(name)   == IF Declares(name) THEN {"none", "600", "malformed"} ELSE {"none"}
Refused(name, value) == Declares(name) /\ value = "malformed"

Overridden(name, value) ==
  [i \in DOMAIN PresetRules(name) |->
     [PresetRules(name)[i] EXCEPT !.late = Declares(name) /\ value = "600"]]
=============================================================================
