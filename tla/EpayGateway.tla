---------------------------- MODULE EpayGateway ----------------------------
(***************************************************************************)
(* The handlers of Epay (Halyk), and the operations its clients must not   *)
(* lose sight of: payments under a 3DS check, confirmations whose answer   *)
(* is lost, and late operations, which check-status hides for a while.     *)
(***************************************************************************)
EXTENDS Gateway

EpayOpeners == {"epay_cryptopay", "epay_card_auth"}

EpayIds == {id \in 1 .. (Len(pays) + 1) : id \in Ids}

\* A card is bound with amount 0; a payment of 0 is an error.
EpayReqs ==
  {ById("epay_token", 0)}
  \cup {Req("epay_cryptopay", 0, o, Price, "pay") : o \in Orders}
  \cup {Req("epay_cryptopay", 0, o, 0, k) : o \in Orders, k \in Kinds}
  \cup {Req("epay_card_auth", 0, o, Price, "pay") : o \in Orders}
  \cup {ById(ep, id) : ep \in {"epay_confirm", "epay_charge", "epay_cancel", "epay_status"}, id \in EpayIds}
  \cup {Req("epay_refund", id, NoOrder, s, "pay") : id \in EpayIds, s \in Parts}
  \cup {ByOrder("epay_status", o) : o \in Orders}

\* Only the token's handler has read the invoice before it looks for a rule.
EpayAsk(c) ==
  /\ bank = "epay" /\ ~Waiting(c)
  /\ \E req \in EpayReqs :
       /\ HasRoom(EpayOpeners, req.ep)
       /\ Ask(c, req, [bank |-> "epay", endpoint |-> req.ep, payment |-> "", order |-> ""])

\* The endpoints whose handler records a decline itself.
\* (Mutant: the saved card is left out.)
HandlesDeclineOfNew(ep) == ep \in {"epay_confirm", "epay_cryptopay"}
HandlesDecline(ep) == ep \in {"epay_confirm", "epay_cryptopay", "epay_card_auth"}

TokenRefuses(action) == action \in {"force_failure", "force_unauthorized", "force_forbidden"}

EpayRefuses(ep, action) ==
  IF ep = "epay_token" THEN TokenRefuses(action)
  ELSE \/ action \in {"ambiguous_error", "epay_ambiguous", "force_unauthorized",
                      "force_forbidden"}
       \/ action = "force_failure" /\ ~HandlesDecline(ep)

\* A confirmation is carried out before its connection is cut.
\* (Mutant: it is cut like every other request.)
NeverCutLate(r) == FALSE
ConfirmLost(r) == r.req.ep = "epay_confirm" /\ r.rule.action \in Lost

EpayCut(c) ==
  /\ call[c].rule.action \in Transport /\ ~ConfirmLost(call[c])
  /\ Instead(c, Cut(call[c].rule.action))

EpayRefuse(c) ==
  /\ \/ EpayRefuses(call[c].req.ep, call[c].rule.action) /\ Instead(c, "refused")
     \/ call[c].req.ep # "epay_token" /\ Transient(call[c].rule) /\ RefusedByTransient(c)

\* The request reaches the handler of endpoint ep.
EpayHandles(c, ep) ==
  LET r == call[c] IN
  /\ r.req.ep = ep
  /\ r.rule.action \in Transport => ConfirmLost(r)
  /\ ~EpayRefuses(ep, r.rule.action)
  /\ ep # "epay_token" => ~Transient(r.rule)

Late(c) == call[c].req.ep = "epay_cryptopay" /\ call[c].rule.action = "epay_late_operation"
Declines(c) == call[c].rule.action = "force_failure"
Challenges(c) == call[c].rule.action = "force_3ds"

EpayDistorts == {"wrong_payment_id", "wrong_amount", "missing_field", "partial_amount"}

\* What the client gets when its handler returns h.
EpayAnswer(r, h) ==
  CASE h # "error" /\ ConfirmLost(r) -> "lost"
    [] h = "ok" /\ r.req.ep \in EpayOpeners /\ r.rule.action \in EpayDistorts -> "distorted"
    [] OTHER -> h

\* postlink_before_ack: a goroutine reads the id of the payment from the log
\* entry the handler writes it to, unsynchronised.  It reads nothing, or the
\* payment before the handler is done with it, or at any later time.
EarlyPostlink(action, id, N) ==
  \/ notes' = N /\ UNCHANGED due
  \/ /\ action = "postlink_before_ack" /\ AutoWebhook /\ id # 0
     /\ \/ /\ Known(id)
           /\ notes' = Noted(N, id, Reported(id), "unasked", 1)
           /\ UNCHANGED due
        \/ /\ notes' = N
           /\ due' = due \cup {Lookup(id, NoOrder)}

EpayDone(c, h, id, N) ==
  /\ Answer(c, EpayAnswer(call[c], h))
  /\ EarlyPostlink(call[c].rule.action, id, N)
  /\ UNCHANGED <<bank, book, failed, holds>>

EpayFails(c, id) == EpayDone(c, "error", id, notes) /\ UNCHANGED <<pays, found>>

\* scheduleSuccessPostlink and scheduleBindPostlink.
\* (Mutant: the postlink is sent twice whatever the rule.)
SentTwice(action) == 2
Times(action) == IF action = "postlink_double" THEN 2 ELSE 1

Postlink(c, id, says) ==
  LET action == call[c].rule.action IN
  IF ~AutoWebhook \/ action = "postlink_lost" THEN notes
  ELSE Noted(notes, id, says, "success", Times(action))

BindPostlink(c, id, says) ==
  LET action == call[c].rule.action IN
  IF ~AutoWebhook \/ action = "postlink_lost" THEN notes
  ELSE Noted(notes, id, says, "bind", 1)

-----------------------------------------------------------------------------
(* Handlers that open an operation *)

EpayToken(c) == EpayHandles(c, "epay_token") /\ EpayDone(c, "ok", 0, notes) /\ UNCHANGED <<pays, found>>

Payable(req) == req.sum > 0 \/ req.kind = "bind"

\* newEpayRecord refuses an amount of 0 before anything else happens.
EpayBadAmount(c) ==
  /\ EpayHandles(c, "epay_cryptopay")
  /\ ~Payable(call[c].req)
  /\ EpayFails(c, 0)

EpayRecord(req, to) ==
  LET new == NewRecord("epay", "NEW", req.sum) IN IF to = "NEW" THEN new ELSE Moved(new, to)

EpayRecordDecline(c, ep) ==
  /\ EpayHandles(c, ep)
  /\ Declines(c) /\ Payable(call[c].req)
  /\ Open(Payment(EpayRecord(call[c].req, "FAILED"), call[c].req, call[c].rule))
  /\ EpayDone(c, "declined", NewID, notes)
  /\ UNCHANGED found

\* The operation is there, the client is told of an error of the bank.
EpayLateOperation(c) ==
  LET r == call[c]
      s == IF r.rule.arg = "CHARGE" THEN "CAPTURED" ELSE "AUTHORIZED"
  IN  /\ EpayHandles(c, "epay_cryptopay")
      /\ Late(c) /\ Payable(r.req)
      /\ Open([Payment(NewRecord("epay", s, r.req.sum), r.req, r.rule)
                 EXCEPT !.hidden = r.rule.late])
      /\ EpayDone(c, "garbled", NewID, notes)
      /\ UNCHANGED found

\* (Mutant: an operation under a 3DS check is announced as well.)
AnnouncedAlways(to) == TRUE
Announced(to) == to = "AUTHORIZED"

\* Under a 3DS check the operation stays NEW; a binding is announced at once.
EpayCryptopay(c) ==
  LET r  == call[c]
      to == IF Challenges(c) THEN "NEW" ELSE "AUTHORIZED"
  IN  /\ EpayHandles(c, "epay_cryptopay")
      /\ ~Declines(c) /\ ~Late(c) /\ Payable(r.req)
      /\ Open(Payment(EpayRecord(r.req, to), r.req, r.rule))
      /\ EpayDone(c, IF Challenges(c) THEN "challenge" ELSE "ok", NewID,
                  CASE r.req.kind = "bind"                   -> BindPostlink(c, NewID, to)
                    [] r.req.kind = "pay" /\ Announced(to)  -> Postlink(c, NewID, to)
                    [] OTHER                                 -> notes)
      /\ UNCHANGED found

\* A saved card is charged without a 3DS check, whatever the rule: the answer
\* carries the challenge, the operation is authorized.
EpayCardAuth(c) ==
  LET r == call[c]
  IN  /\ EpayHandles(c, "epay_card_auth")
      /\ ~Declines(c)
      /\ Open(Payment(EpayRecord(r.req, "AUTHORIZED"), r.req, r.rule))
      /\ EpayDone(c, IF Challenges(c) THEN "challenge" ELSE "ok", NewID,
                  Postlink(c, NewID, "AUTHORIZED"))
      /\ UNCHANGED found

-----------------------------------------------------------------------------
(* Handlers of an operation that is there *)

\* Everything they refuse: an unknown operation, or one in another status.
EpayAllows(ep, id, action) ==
  CASE ep = "epay_confirm" -> action = "force_failure"
                              \/ Status(id) \in AllowedTransitions("AUTHORIZED")
    [] ep \in {"epay_charge", "epay_cancel"} -> Status(id) = "AUTHORIZED"
    [] ep = "epay_refund" -> Status(id) \in Refundable
    [] ep = "epay_status" -> ~pays[id].hidden

\* The log entry has the id of the URL by then, known or not; a confirmation
\* has to find its operation first.
EpayOperationFails(c, ep) ==
  LET id == call[c].req.id IN
  /\ EpayHandles(c, ep)
  /\ id # 0
  /\ Known(id) => ~EpayAllows(ep, id, call[c].rule.action)
  /\ EpayFails(c, IF Known(id) \/ ep # "epay_confirm" THEN id ELSE 0)

EpayMoves(c, ep, rec) ==
  LET id == call[c].req.id IN
  /\ EpayHandles(c, ep)
  /\ id # 0 /\ Known(id)
  /\ EpayAllows(ep, id, call[c].rule.action)
  /\ Store(id, rec, call[c].rule)
  /\ UNCHANGED found

EpayMoved(c, ep, rec) ==
  /\ EpayMoves(c, ep, rec)
  /\ EpayDone(c, "ok", call[c].req.id, Postlink(c, call[c].req.id, rec.status))

\* A password that was wrong fails the operation, whatever its status, and the
\* failure is announced.
EpayConfirmDeclined(c) ==
  LET id == call[c].req.id IN
  /\ Declines(c)
  /\ EpayMoves(c, "epay_confirm", Forced(pays[id].rec, "FAILED"))
  /\ EpayDone(c, "declined", id,
              IF AutoWebhook THEN Noted(notes, id, "FAILED", "failure", 1)
              ELSE notes)

EpayConfirm(c) ==
  /\ ~Declines(c)
  /\ EpayMoved(c, "epay_confirm", Moved(pays[call[c].req.id].rec, "AUTHORIZED"))

EpayCharge(c) == EpayMoved(c, "epay_charge", Capturing(call[c].req.id, call[c].req.sum))
EpayCancel(c) == EpayMoved(c, "epay_cancel", Cancelling(call[c].req.id))
EpayRefund(c) == EpayMoved(c, "epay_refund", Refunding(call[c].req.id, call[c].req.sum))

EpayStatus(c) ==
  LET id == call[c].req.id IN
  /\ EpayHandles(c, "epay_status")
  /\ id # 0 /\ Known(id) /\ ~pays[id].hidden
  /\ EpayDone(c, "ok", id, notes)
  /\ UNCHANGED <<pays, found>>

\* By invoice: the newest operation that is visible.
\* (Mutant: the newest operation, if it is visible.)
NewestIfShown(order) ==
  LET all == {id \in DOMAIN pays : pays[id].order = order}
  IN  {id \in all : IsNewest(id, all) /\ ~pays[id].hidden}
Shown(order) == {id \in DOMAIN pays : pays[id].order = order /\ ~pays[id].hidden}

EpayStatusByInvoice(c) ==
  LET r == call[c] IN
  /\ EpayHandles(c, "epay_status")
  /\ r.req.id = 0
  /\ \/ /\ Shown(r.req.order) = {}
        /\ EpayFails(c, 0)
     \/ \E id \in Shown(r.req.order) :
          /\ IsNewest(id, Shown(r.req.order))
          /\ EpayDone(c, "ok", id, notes)
          /\ found' = found \cup {r.req.order}
          /\ UNCHANGED pays

-----------------------------------------------------------------------------
(* A late operation appears, when its time has come or by the panel's button *)

\* (Mutant: the time an operation becomes visible at is never compared.)
StillHidden(S) == pays
Unhidden(S) == [id \in DOMAIN pays |->
                  IF id \in S THEN [pays[id] EXCEPT !.hidden = FALSE] ELSE pays[id]]

TimePasses(id) ==
  /\ Known(id) /\ pays[id].hidden
  /\ pays' = Unhidden({id})
  /\ UNCHANGED <<bank, book, failed, call, last, notes, due, holds, found>>

\* EpayRevealInvoice.
Reveal(order) ==
  LET hidden == {id \in DOMAIN pays : pays[id].order = order /\ pays[id].hidden}
  IN  /\ hidden # {}
      /\ pays' = Unhidden(hidden)
      /\ UNCHANGED <<bank, book, failed, call, last, notes, due, holds, found>>

EpayServing(c) ==
  \/ EpayCut(c) \/ EpayRefuse(c)
  \/ EpayToken(c) \/ EpayBadAmount(c) \/ EpayLateOperation(c)
  \/ EpayCryptopay(c) \/ EpayCardAuth(c)
  \/ \E ep \in EpayOpeners : EpayRecordDecline(c, ep)
  \/ \E ep \in {"epay_confirm", "epay_charge", "epay_cancel", "epay_refund", "epay_status"} :
       EpayOperationFails(c, ep)
  \/ EpayConfirmDeclined(c) \/ EpayConfirm(c)
  \/ EpayCharge(c) \/ EpayCancel(c) \/ EpayRefund(c)
  \/ EpayStatus(c) \/ EpayStatusByInvoice(c)

EpayServe(c) == Waiting(c) /\ bank = "epay" /\ EpayServing(c)

EpayNext ==
  \/ \E c \in Clients : EpayAsk(c) \/ EpayServe(c)
  \/ \E id \in DOMAIN pays : TimePasses(id)
  \/ \E o \in Orders : Reveal(o)
=============================================================================
