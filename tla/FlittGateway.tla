---------------------------- MODULE FlittGateway ----------------------------
(***************************************************************************)
(* The handlers of Flitt: payments are named by their order, of which the  *)
(* newest payment is meant, and a rule names the outcome of a new payment. *)
(***************************************************************************)
EXTENDS Gateway

FlittOpeners    == {"flitt_checkout", "flitt_direct", "flitt_recurring"}
FlittOperations == {"flitt_capture", "flitt_reverse", "flitt_status", "flitt_3ds_step2"}

FlittReqs ==
  {Req(ep, 0, o, s, "pay") : ep \in FlittOpeners, o \in Orders, s \in {0, Price}}
  \cup {Req("flitt_reverse", 0, o, s, "pay") : o \in Orders, s \in Parts}
  \cup {ByOrder(ep, o) : ep \in {"flitt_capture", "flitt_status", "flitt_3ds_step2"},
                         o \in Orders}

\* The order is read from the body before a rule is looked for.
FlittAsk(c) ==
  /\ bank = "flitt" /\ ~Waiting(c)
  /\ \E req \in FlittReqs :
       /\ HasRoom(FlittOpeners, req.ep)
       /\ Ask(c, req, [bank |-> "flitt", endpoint |-> req.ep,
                       payment |-> "", order |-> req.order])

\* A force_failure that names an outcome is left to the handler.
FlittRefuses(rule) ==
  \/ rule.action \in {"ambiguous_error", "force_unauthorized", "force_forbidden",
                      "sync_error_async_webhook"}
  \/ rule.action = "force_failure" /\ rule.arg = "none"

FlittCut(c) ==
  /\ call[c].rule.action \in Transport
  /\ Instead(c, Cut(call[c].rule.action))

FlittRefuse(c) ==
  LET rule == call[c].rule IN
  /\ \/ /\ FlittRefuses(rule) /\ rule.action # "sync_error_async_webhook"
        /\ Instead(c, "refused")
     \/ Transient(rule) /\ RefusedByTransient(c)

\* The request is refused, and a goroutine reports the newest payment of its
\* order, whatever has become of it, as a success.
FlittSilentCallback(c) ==
  LET r == call[c] IN
  /\ r.rule.action = "sync_error_async_webhook"
  /\ Answer(c, "refused")
  /\ due' = IF AutoWebhook THEN due \cup {Lookup(0, r.req.order)} ELSE due
  /\ UNCHANGED <<bank, book, failed, pays, notes, holds, found>>

FlittHandles(c, ep) ==
  /\ call[c].req.ep = ep
  /\ call[c].rule.action \notin Transport
  /\ ~FlittRefuses(call[c].rule) /\ ~Transient(call[c].rule)

\* applyScenarioAfter: which answers an action distorts.
FlittDistorts(ep) ==
  CASE ep = "flitt_direct"    -> {"wrong_payment_id", "missing_field"}
    [] ep = "flitt_recurring" -> {"wrong_payment_id", "wrong_amount"}
    [] ep = "flitt_status"    -> {"wrong_payment_id", "wrong_amount", "missing_field",
                                  "force_status"}
    [] OTHER                  -> {}

FlittDone(c, h) ==
  LET r == call[c] IN
  /\ Answer(c, IF h # "error" /\ r.rule.action \in FlittDistorts(r.req.ep)
               THEN "distorted" ELSE h)
  /\ UNCHANGED <<bank, book, failed, due, holds, found>>

FlittFails(c) == FlittDone(c, "error") /\ UNCHANGED <<pays, notes>>

\* MaybeFlittCallback, with the snapshot the method returned.
Callback(c, id, says) ==
  IF AutoWebhook THEN Noted(notes, id, says, "success", 1) ELSE notes

-----------------------------------------------------------------------------
(* Handlers that open a payment *)

Outcome(rule) ==
  CASE rule.action = "force_failure" -> rule.arg
    [] rule.action = "force_3ds"     -> IF rule.arg = "none" THEN "approved_3ds" ELSE rule.arg
    [] OTHER                         -> "approved"

Refusals   == {"declined", "insufficient_funds"}
Challenges3DS == {"approved_3ds", "declined_3ds"}

FlittBadAmount(c, ep) ==
  /\ FlittHandles(c, ep)
  /\ call[c].req.sum = 0
  /\ FlittFails(c)

FlittCheckout(c) ==
  /\ FlittHandles(c, "flitt_checkout")
  /\ call[c].req.sum # 0
  /\ Open(Payment(NewRecord("flitt", "NEW", Price), call[c].req, call[c].rule))
  /\ FlittDone(c, "ok")
  /\ UNCHANGED notes

\* applyFlittOutcome, and the answer of direct and of recurring.
FlittOpen(c, ep, outcomes, rec, h) ==
  /\ FlittHandles(c, ep)
  /\ call[c].req.sum # 0
  /\ Outcome(call[c].rule) \in outcomes
  /\ Open(Payment(rec, call[c].req, call[c].rule))
  /\ FlittDone(c, h)
  /\ notes' = IF rec.status = "AUTHORIZED" THEN Callback(c, NewID, "AUTHORIZED") ELSE notes

FlittApprove(c, ep) ==
  FlittOpen(c, ep, {"approved"}, Authorized("flitt"), "ok")

FlittDecline(c, ep) ==
  FlittOpen(c, ep, Refusals, Declined("flitt", Price), "declined")

\* direct answers with the address of the check, recurring as if approved.
FlittChallenge(c, ep) ==
  FlittOpen(c, ep, Challenges3DS, NewRecord("flitt", "NEW", Price),
            IF ep = "flitt_direct" THEN "challenge" ELSE "ok")

-----------------------------------------------------------------------------
(* Handlers of an order that is there *)

NewestOf(order, id) == IsNewest(id, {x \in DOMAIN pays : pays[x].order = order})

\* 3dsecure_step2 answers for an order past NEW as it is.
FlittAllows(ep, id) ==
  CASE ep = "flitt_capture" -> Status(id) = "AUTHORIZED"
    [] ep = "flitt_reverse" -> Status(id) \in {"AUTHORIZED"} \cup Refundable
    [] OTHER                -> TRUE

FlittOrderFails(c, ep) ==
  /\ FlittHandles(c, ep)
  /\ \A id \in DOMAIN pays : NewestOf(call[c].req.order, id) => ~FlittAllows(ep, id)
  /\ FlittFails(c)

FlittMoves(c, ep, id, rec) ==
  /\ FlittHandles(c, ep)
  /\ NewestOf(call[c].req.order, id) /\ FlittAllows(ep, id)
  /\ Store(id, rec, call[c].rule)
  /\ FlittDone(c, "ok")

FlittCapture(c, id) ==
  /\ FlittMoves(c, "flitt_capture", id, Capturing(id, call[c].req.sum))
  /\ notes' = Callback(c, id, "CAPTURED")

\* Before the capture a reversal cancels, after it it refunds.
FlittReverse(c, id) ==
  LET rec == IF Status(id) = "AUTHORIZED" THEN Cancelling(id)
             ELSE Refunding(id, call[c].req.sum)
  IN  /\ FlittMoves(c, "flitt_reverse", id, rec)
      /\ notes' = Callback(c, id, rec.status)

FlittStatus(c, id) ==
  /\ FlittHandles(c, "flitt_status")
  /\ NewestOf(call[c].req.order, id)
  /\ FlittDone(c, "ok")
  /\ UNCHANGED <<pays, notes>>

\* FlittComplete3DS passes a check that is open.
\* (Mutant: it does not look whether one is.)
PassedAlways(id) == Moved(pays[id].rec, "AUTHORIZED")
Passed(id) == IF Status(id) = "NEW" THEN Moved(pays[id].rec, "AUTHORIZED") ELSE pays[id].rec

\* Whatever the status was, the answer is "approved"; the callback depends.
FlittStep2(c, id) ==
  LET rec == Passed(id)
  IN  /\ FlittMoves(c, "flitt_3ds_step2", id, rec)
      /\ notes' = IF rec.status = "AUTHORIZED" THEN Callback(c, id, "AUTHORIZED") ELSE notes

FlittServing(c) ==
  \/ FlittCut(c) \/ FlittRefuse(c) \/ FlittSilentCallback(c)
  \/ FlittCheckout(c)
  \/ \E ep \in FlittOpeners : FlittBadAmount(c, ep)
  \/ \E ep \in {"flitt_direct", "flitt_recurring"} :
       FlittApprove(c, ep) \/ FlittDecline(c, ep) \/ FlittChallenge(c, ep)
  \/ \E ep \in FlittOperations : FlittOrderFails(c, ep)
  \/ \E id \in DOMAIN pays :
       FlittCapture(c, id) \/ FlittReverse(c, id) \/ FlittStatus(c, id) \/ FlittStep2(c, id)

FlittServe(c) == Waiting(c) /\ bank = "flitt" /\ FlittServing(c)

FlittNext ==
  \E c \in Clients : FlittAsk(c) \/ FlittServe(c)
=============================================================================
