--------------------------- MODULE FreedomGateway ---------------------------
(***************************************************************************)
(* The handlers of Freedom: the XML endpoints and the two wallets.  Its    *)
(* records carry no bank, and its automatic webhook goes by the bank of    *)
(* the record (see CardPayments), so that none of its handlers notifies.   *)
(***************************************************************************)
EXTENDS Gateway

FreedomOpeners == {"init", "init_payment.php", "add2"}
FreedomOperations == {"direct", "do_capture.php", "cancel.php", "revoke.php", "get_status3.php"}

\* An id that is not in use yet is asked for too.
FreedomIds == {id \in 1 .. (Len(pays) + 1) : id \in Ids}

FreedomReqs ==
  {Req(ep, 0, o, s, "pay") : ep \in {"init", "init_payment.php"}, o \in Orders, s \in {0, Price}}
  \cup {Req("add2", 0, o, 0, "bind") : o \in Orders}
  \cup {ById(ep, id) : ep \in {"direct", "do_capture.php", "cancel.php", "get_status3.php"} \cup Wallets,
                       id \in FreedomIds}
  \cup {Req("revoke.php", id, NoOrder, s, "pay") : id \in FreedomIds, s \in Parts}
  \cup {ByOrder("get_status3.php", o) : o \in Orders}
  \cup {ById("remove", 0)}

\* Id and order are read before a rule is looked for; a wallet's request is
\* about a payment that is there, and carries its order.
OrderOf(req) ==
  CASE req.ep \in Wallets -> pays[req.id].order
    [] req.order # NoOrder -> req.order
    [] OTHER -> ""

FreedomAsk(c) ==
  /\ bank = "freedom" /\ ~Waiting(c)
  /\ \E req \in FreedomReqs :
       /\ HasRoom(FreedomOpeners, req.ep)
       /\ req.ep \in Wallets => Known(req.id)
       /\ Ask(c, req, [bank |-> "freedom", endpoint |-> req.ep,
                       payment |-> IF req.id = 0 THEN "" ELSE ToString(req.id),
                       order |-> OrderOf(req)])

FreedomRefuses == {"ambiguous_error", "force_failure"}

FreedomCut(c) ==
  /\ call[c].rule.action \in Transport
  /\ Instead(c, Cut(call[c].rule.action))

FreedomRefuse(c) ==
  /\ call[c].rule.action \in FreedomRefuses
  /\ Instead(c, "refused")

WalletChallenge(c) ==
  /\ call[c].req.ep \in Wallets /\ call[c].rule.action = "wallet_3ds_challenge"
  /\ Instead(c, "challenge")

\* The client is told of an error, and a goroutine authorizes the payment the
\* request names, if it names one.
\* (Mutant: only the wallets hold.)
HoldOnlyWallets(r) == IF r.req.ep \in Wallets THEN {r.req.id} ELSE {}
\* (Mutant: a request without an id is not told apart.)
HoldNamed(r) == {r.req.id}
HoldLater(r) == IF r.req.id = 0 THEN {} ELSE {r.req.id}

SilentHold(c) ==
  /\ call[c].rule.action = "sync_error_async_webhook"
  /\ Answer(c, "held")
  /\ holds' = holds \cup HoldLater(call[c])
  /\ UNCHANGED <<bank, book, failed, pays, notes, due, found>>

CanHold(id) == Known(id) /\ Status(id) \in AllowedTransitions("AUTHORIZED")

AsyncHold(id) ==
  /\ id \in holds
  /\ holds' = holds \ {id}
  /\ IF CanHold(id)
     THEN Store(id, Moved(pays[id].rec, "AUTHORIZED"), Plain)
     ELSE UNCHANGED pays
  /\ UNCHANGED <<bank, book, failed, call, last, notes, due, found>>

FreedomHandles(c, ep) ==
  LET action == call[c].rule.action IN
  /\ call[c].req.ep = ep
  /\ action \notin Transport \cup FreedomRefuses \cup {"sync_error_async_webhook"}
  /\ ep \in Wallets => action # "wallet_3ds_challenge"

FreedomDistorts ==
  {"force_status", "partial_amount", "wrong_payment_id", "wrong_amount",
   "missing_field", "extra_garbage", "invalid_signature"}

\* The error of a payment that is held already keeps its code, whatever a rule
\* does to its other fields.
FreedomDone(c, h) ==
  LET r == call[c] IN
  /\ Answer(c, IF /\ h \notin {"error", "ambiguous"}
                  /\ r.rule.action \in FreedomDistorts /\ r.req.ep \notin Wallets
               THEN "distorted" ELSE h)
  /\ UNCHANGED <<bank, book, failed, notes, due, holds, found>>

FreedomFails(c) == FreedomDone(c, "error") /\ UNCHANGED pays

-----------------------------------------------------------------------------
(* Handlers *)

FreedomOpen(c, ep) ==
  LET req == call[c].req IN
  /\ FreedomHandles(c, ep)
  /\ \/ /\ ep # "add2" /\ req.sum = 0
        /\ FreedomFails(c)
     \/ /\ ep = "add2" \/ req.sum # 0
        /\ Open(Payment(NewRecord("any", "NEW", req.sum), req, call[c].rule))
        /\ FreedomDone(c, "ok")

RemoveCard(c) == FreedomHandles(c, "remove") /\ FreedomDone(c, "ok") /\ UNCHANGED pays

\* A payment that is held already is no error: the answer is the ambiguous one.
AlreadyHeld(id) == Status(id) \in {"AUTHORIZED", "CAPTURED"}

HoldAgain(c, id) ==
  /\ FreedomHandles(c, "direct")
  /\ call[c].req.id = id /\ AlreadyHeld(id)
  /\ FreedomDone(c, "ambiguous")
  /\ UNCHANGED pays

FreedomAllows(ep, id) ==
  CASE ep \in {"direct"} \cup Wallets -> Status(id) \in AllowedTransitions("AUTHORIZED")
    [] ep \in {"do_capture.php", "cancel.php"} -> Status(id) = "AUTHORIZED"
    [] ep = "revoke.php" -> Status(id) \in Refundable
    [] OTHER -> TRUE

FreedomOperationFails(c, ep) ==
  LET id == call[c].req.id IN
  /\ FreedomHandles(c, ep)
  /\ id # 0
  /\ Known(id) => ~FreedomAllows(ep, id) /\ ~(ep = "direct" /\ AlreadyHeld(id))
  /\ FreedomFails(c)

FreedomMoves(c, ep, id, rec) ==
  /\ FreedomHandles(c, ep)
  /\ call[c].req.id = id /\ FreedomAllows(ep, id)
  /\ Store(id, rec, call[c].rule)
  /\ FreedomDone(c, "ok")

Hold(c, id)    == FreedomMoves(c, "direct", id, Moved(pays[id].rec, "AUTHORIZED"))
PayWallet(c, ep, id) == FreedomMoves(c, ep, id, Moved(pays[id].rec, "AUTHORIZED"))
FreedomCapture(c, id) == FreedomMoves(c, "do_capture.php", id, Capturing(id, call[c].req.sum))
FreedomCancel(c, id)  == FreedomMoves(c, "cancel.php", id, Cancelling(id))

\* The rule names the outcome of the refund; one that did not succeed is kept
\* and does not count.  The refunds of a payment are numbered here in order.
FreedomRevoke(c, id) ==
  LET rec   == pays[id].rec
      delta == RefundDelta(rec, call[c].req.sum)
      ok    == call[c].rule.action \notin {"refund_declined", "refund_pending"}
      noted == [rec EXCEPT !.refunds = @ \cup
                  {[id |-> Cardinality(@) + 1, amount |-> -AsInt(delta), ok |-> ok]}]
  IN  FreedomMoves(c, "revoke.php", id, IF ok THEN Refunded(noted, delta) ELSE noted)

\* By order the newest payment of it is meant, and the last of its refunds is
\* answered for it, unless the rule hides the refunds.
FreedomStatus(c, id) ==
  LET req == call[c].req
      S   == IF req.id # 0 THEN {req.id} \cap DOMAIN pays
             ELSE {x \in DOMAIN pays : pays[x].order = req.order}
  IN  /\ FreedomHandles(c, "get_status3.php")
      /\ IsNewest(id, S)
      /\ FreedomDone(c, IF req.id = 0 /\ pays[id].rec.refunds # {}
                             /\ call[c].rule.action # "refund_invisible"
                        THEN "refund" ELSE "ok")
      /\ UNCHANGED pays

FreedomStatusUnknown(c) ==
  /\ FreedomHandles(c, "get_status3.php")
  /\ call[c].req.id = 0
  /\ \A x \in DOMAIN pays : pays[x].order # call[c].req.order
  /\ FreedomFails(c)

FreedomServing(c) ==
  \/ FreedomCut(c) \/ FreedomRefuse(c) \/ WalletChallenge(c) \/ SilentHold(c)
  \/ RemoveCard(c) \/ FreedomStatusUnknown(c)
  \/ \E ep \in FreedomOpeners : FreedomOpen(c, ep)
  \/ \E ep \in FreedomOperations \cup Wallets : FreedomOperationFails(c, ep)
  \/ \E id \in DOMAIN pays :
       \/ HoldAgain(c, id) \/ Hold(c, id) \/ FreedomCapture(c, id)
       \/ FreedomCancel(c, id) \/ FreedomRevoke(c, id) \/ FreedomStatus(c, id)
       \/ \E ep \in Wallets : PayWallet(c, ep, id)

FreedomServe(c) == Waiting(c) /\ bank = "freedom" /\ FreedomServing(c)

FreedomNext ==
  \/ \E c \in Clients : FreedomAsk(c) \/ FreedomServe(c)
  \/ \E id \in holds : AsyncHold(id)
=============================================================================
