----------------------------- MODULE MCGateways -----------------------------
(***************************************************************************)
(* An instance of Gateways for TLC: for each bank no rule, and the rules   *)
(* of presets and of the form that take a request another way.             *)
(***************************************************************************)
EXTENDS Gateways, ScenarioPresets

Symmetry == Permutations(Clients)

Presets(names) == {PresetRules(name) : name \in names}

ByForm(b, ep, action, arg) == <<Rule(b, ep, action, arg, TRUE)>>

LateRule == Overridden("epay_late_charge_postlink_lost", "600")

EpayBooks ==
  {<<>>, LateRule}
  \cup Presets({"epay_insufficient_funds", "epay_3ds_confirm_declined",
                "epay_3ds_confirm_timeout", "epay_transient_500_then_ok",
                "epay_postlink_before_ack", "epay_ambiguous_charge_recovery",
                "epay_unauthorized_401"})
  \cup {ByForm("epay", "epay_charge", "empty_response", "none")}

FlittBooks ==
  {<<>>}
  \cup Presets({"flitt_insufficient_funds", "flitt_3ds_decline",
                "flitt_ex1001_silent_hold", "flitt_ambiguous_capture_recovery",
                "flitt_capture_timeout"})
  \cup {<<Rule("flitt", "flitt_reverse", "transient_failure", "none", FALSE)>>}

FreedomBooks ==
  {<<>>}
  \cup Presets({"ex1001_wallet_silent_hold", "wallet_3ds_challenge",
                "cancel_failed_status_revoked", "slow_body_capture"})
  \cup {ByForm("freedom", Wild, "sync_error_async_webhook", "none"),
        ByForm("freedom", "revoke.php", "refund_declined", "none"),
        ByForm("freedom", "direct", "wrong_amount", "none")}

SomeBooks == "epay" :> EpayBooks @@ "flitt" :> FlittBooks @@ "freedom" :> FreedomBooks
\* The book of the run recurring_3ds.
CheckBooks == "flitt" :> Presets({"flitt_3ds_decline"})

\* The books of the liveness run: silent holds and late operations.
SilentBooks ==
  "epay" :> {LateRule, PresetRules("epay_late_auth_postlink_lost")}
  @@ "freedom" :> Presets({"ex1001_silent_hold", "ex1001_wallet_silent_hold"})

\* In all of them a transient rule is one of a handler that knows it.
ASSUME MCTransientAssumption == TransientWhereHandled
=============================================================================
