---------------------------- MODULE CardPayments ----------------------------
(***************************************************************************)
(* The payment service of ChaosPay over its in-memory repository, as the   *)
(* HTTP handlers and the panel drive it.                                   *)
(*                                                                         *)
(* Every service method is a short sequence of repository calls; the       *)
(* repository's mutex makes each call atomic and nothing holds it between  *)
(* two calls.  A method therefore is a first action, which takes the       *)
(* snapshot the method decides on, and one action per later repository     *)
(* call, with the steps of the other clients in between.                   *)
(*                                                                         *)
(* A method refused by its first look at the payment changes nothing, and  *)
(* is no step of the model.  Lookups by order number only choose the id a  *)
(* method is called with; here it may be any id.                           *)
(***************************************************************************)
EXTENDS PayDomain

CONSTANTS
  Clients,      \* request goroutines
  Amounts,      \* the amounts clients name; 0 asks for the whole amount
  AutoWebhook,  \* banks whose automatic webhook is switched on
  NoPayment     \* what the store holds under an id nothing was created for

ASSUME AmountsAssumption == Amounts \subseteq Uint /\ 0 \in Amounts
ASSUME WebhookAssumption == AutoWebhook \subseteq {"freedom", "epay", "flitt"}
ASSUME NoPaymentAssumption == NoPayment \notin Record

VARIABLES
  store,     \* PayRepo.byID
  nextID,    \* PayRepo.nextID, counted from the base it starts at
  req,       \* what each client still has to do
  webhooks   \* webhook goroutines that have not sent yet

vars == <<store, nextID, req, webhooks>>

-----------------------------------------------------------------------------
(* Requests *)

\* A method that opens a payment is told apart by its bank only.
Openers == {"OpenFreedom", "OpenEpay", "OpenFlitt"}

FreedomOps == {"Hold", "AuthorizeWallet", "Capture", "Cancel", "Revoke"}
EpayOps    == {"EpayCharge", "EpayCancel", "EpayRefund"}
FlittOps   == {"FlittCapture", "FlittReverse", "FlittComplete3DS"}
Ops        == Openers \cup FreedomOps \cup EpayOps \cup FlittOps \cup {"none"}

\* The repository calls a method has left to make.
Calls == {"none", "Create", "Transition", "Capture", "NextID", "Refund",
          "Fail", "Challenge", "SetKind", "Force", "Get"}

\* A client's request: its next repository call, the two after that, and
\* what the calls are made with.  sum is an amount, a capture target or a
\* refund delta; all of them come from the snapshot the method started with.
Request == [call : Calls, then : Calls, last : Calls, op : Ops,
            id : 0 .. MaxId, refundID : 0 .. MaxId, sum : Uint,
            to : Statuses, force : Statuses]

Idle == [call |-> "none", then |-> "none", last |-> "none", op |-> "none",
         id |-> 0, refundID |-> 0, sum |-> 0, to |-> "NEW", force |-> "NEW"]

BankOf(op) == CASE op = "OpenFreedom" -> "any"
                [] op = "OpenEpay"    -> "epay"
                [] OTHER              -> "flitt"

Free(c)    == req[c].call = "none"
Exists(id) == store[id] # NoPayment

\* The method returns, with an answer or with an error.
Return(c) == req' = [req EXCEPT ![c] = Idle]

\* The method goes on to its next repository call.
Continue(c) ==
  LET r == req[c]
  IN  req' = [req EXCEPT ![c] =
                IF r.then = "none" THEN Idle
                ELSE [r EXCEPT !.call = r.then, !.then = r.last,
                               !.last = "none"]]

\* A method that has looked at payment id goes on to call.
Proceed(c, op, id, call, then, sum, to) ==
  /\ req' = [req EXCEPT ![c] =
               [Idle EXCEPT !.call = call, !.then = then, !.op = op,
                            !.id = id, !.sum = sum, !.to = to]]
  /\ UNCHANGED <<store, nextID, webhooks>>

-----------------------------------------------------------------------------
(* Webhook goroutines *)

Webhook == [id : Ids, status : Statuses, marks : BOOLEAN]

Spawn(id, rec, marks, on) ==
  webhooks' = IF on THEN webhooks \cup
                           {[id |-> id, status |-> rec.status, marks |-> marks]}
              ELSE webhooks

\* The webhook condition of maybeWebhook: the switch and the record's bank.
FreedomNotifies(rec) == "freedom" \in AutoWebhook /\ rec.bank = "freedom"

\* After a Freedom method maybeWebhook, after a Flitt one the handler's
\* callback: on every capture or reversal, else only once AUTHORIZED.
Notify(op, id, rec) ==
  Spawn(id, rec, TRUE,
        CASE op \in FreedomOps -> FreedomNotifies(rec)
          [] op \in {"FlittCapture", "FlittReverse"} -> "flitt" \in AutoWebhook
          [] op \in {"OpenFlitt", "FlittComplete3DS"} ->
                "flitt" \in AutoWebhook /\ rec.status = "AUTHORIZED"
          [] OTHER -> FALSE)

\* The switch that decides for a forced record: the bank's own, Freedom's
\* for the records without a bank.
SwitchOf(bank) == IF bank = "any" THEN "freedom" ELSE bank

\* A goroutine sends: the record, if it is still there, is marked.
DeliverWebhook(w) ==
  /\ w \in webhooks
  /\ webhooks' = webhooks \ {w}
  /\ store' = IF w.marks /\ Exists(w.id)
              THEN [store EXCEPT ![w.id].sent = TRUE] ELSE store
  /\ UNCHANGED <<nextID, req>>

\* A send that fails is not retried and marks nothing.
LoseWebhook(w) ==
  /\ w \in webhooks
  /\ webhooks' = webhooks \ {w}
  /\ UNCHANGED <<store, nextID, req>>

-----------------------------------------------------------------------------
(* Methods that open a payment: they take an id first, and store later *)

Open(c, op, sum, to, then, last, force) ==
  /\ Free(c)
  /\ nextID < MaxId
  /\ nextID' = nextID + 1
  /\ req' = [req EXCEPT ![c] =
               [Idle EXCEPT !.call = "Create", !.then = then, !.last = last,
                            !.op = op, !.id = nextID + 1, !.sum = sum,
                            !.to = to, !.force = force]]
  /\ UNCHANGED <<store, webhooks>>

HoldInit(c)     == \E a \in Amounts \ {0} :
                     Open(c, "OpenFreedom", a, "NEW", "none", "none", "NEW")
CreateHosted(c) == \E a \in Amounts \ {0} :
                     Open(c, "OpenFreedom", a, "NEW", "none", "none", "NEW")
CreateBind(c)   == Open(c, "OpenFreedom", 0, "NEW", "none", "none", "NEW")

\* Binding a card authorizes 0; a 3DS challenge leaves the record NEW.
EpayAuthorize(c) ==
  \E a \in Amounts, then \in {"Transition", "none"} :
    Open(c, "OpenEpay", a, "AUTHORIZED", then, "none", "NEW")

EpayDecline(c) ==
  \E a \in Amounts : Open(c, "OpenEpay", a, "FAILED", "Fail", "none", "NEW")

EpayLateOperation(c) ==
  \E a \in Amounts, to \in {"AUTHORIZED", "CAPTURED"} :
    Open(c, "OpenEpay", a, to, "Get", "none", "NEW")

FlittCheckout(c) == \E a \in Amounts \ {0} :
                      Open(c, "OpenFlitt", a, "NEW", "none", "none", "NEW")

\* applyFlittOutcome: approved, declined, or a 3DS challenge to answer.
FlittDirect(c) ==
  \E a \in Amounts \ {0}, then \in {"Transition", "Fail", "Challenge"} :
    Open(c, "OpenFlitt", a, "AUTHORIZED", then, "none", "NEW")

FlittRecurring(c) ==
  \E a \in Amounts \ {0}, then \in {"Transition", "Fail", "Challenge"} :
    Open(c, "OpenFlitt", a, "AUTHORIZED", then, "none", "NEW")

\* The panel's create_synthetic: the bank's opener, then a force to any
\* status that was asked for.
CreateSynthetic(c) ==
  \E a \in Amounts \ {0}, s \in Statuses \ {"NEW"} :
    \/ Open(c, "OpenFreedom", a, "NEW", "Force", "none", s)
    \/ Open(c, "OpenFlitt", a, "NEW", "Force", "none", s)
    \/ Open(c, "OpenEpay", a, "AUTHORIZED", "Transition", "Force", s)

\* repo.Create.
Create(c) ==
  LET r     == req[c]
      first == IF r.then = "Get" THEN r.to ELSE "NEW"
  IN  /\ r.call = "Create"
      /\ store' = [store EXCEPT ![r.id] = NewRecord(BankOf(r.op), first, r.sum)]
      /\ Continue(c)
      /\ UNCHANGED <<nextID, webhooks>>

-----------------------------------------------------------------------------
(* Methods on a payment: the first look *)

\* The snapshot a method starts from exists and is in one of statuses.
Sees(c, id, statuses) ==
  /\ Free(c)
  /\ Exists(id)
  /\ store[id].status \in statuses

Target(id, asked) == IF asked = 0 THEN store[id].amount ELSE asked

Hold(c, id) ==
  /\ Sees(c, id, Statuses \ {"AUTHORIZED", "CAPTURED"})
  /\ Proceed(c, "Hold", id, "Transition", "none", 0, "AUTHORIZED")

\* Also the confirm of a 3DS check at Epay.
AuthorizeWallet(c, id) ==
  /\ Sees(c, id, Statuses)
  /\ Proceed(c, "AuthorizeWallet", id, "Transition", "SetKind", 0, "AUTHORIZED")

\* (Mutant: only a payment that is captured already is refused.)
CaptureUnlessCaptured(c, id) ==
  /\ Sees(c, id, Statuses \ {"CAPTURED"})
  /\ \E a \in Amounts :
       Proceed(c, "Capture", id, "Capture", "none", Target(id, a), "CAPTURED")

Capture(c, id) ==
  /\ Sees(c, id, {"AUTHORIZED"})
  /\ \E a \in Amounts :
       Proceed(c, "Capture", id, "Capture", "none", Target(id, a), "CAPTURED")

\* (Mutant: the check of the status dropped.)
EpayChargeAny(c, id) ==
  /\ Sees(c, id, Statuses)
  /\ store[id].bank = "epay"
  /\ \E a \in Amounts :
       Proceed(c, "EpayCharge", id, "Capture", "none", Target(id, a), "CAPTURED")

EpayCharge(c, id) ==
  /\ Sees(c, id, {"AUTHORIZED"})
  /\ store[id].bank = "epay"
  /\ \E a \in Amounts :
       Proceed(c, "EpayCharge", id, "Capture", "none", Target(id, a), "CAPTURED")

FlittCapture(c, id) ==
  /\ Sees(c, id, {"AUTHORIZED"})
  /\ store[id].bank = "flitt"
  /\ \E a \in Amounts :
       Proceed(c, "FlittCapture", id, "Capture", "none", Target(id, a), "CAPTURED")

Cancel(c, id) ==
  /\ Sees(c, id, {"AUTHORIZED"})
  /\ Proceed(c, "Cancel", id, "Transition", "none", 0, "CANCELLED")

EpayCancel(c, id) ==
  /\ Sees(c, id, {"AUTHORIZED"})
  /\ store[id].bank = "epay"
  /\ Proceed(c, "EpayCancel", id, "Transition", "none", 0, "CANCELLED")

\* The refund amount is fixed here, from the snapshot; so is, one call
\* later, the refund's own payment id.
RevokeWithOutcome(c, id) ==
  /\ Sees(c, id, Refundable)
  /\ \E a \in Amounts :
       Proceed(c, "Revoke", id, "NextID", "Refund",
               RefundDelta(store[id], a), "REFUNDED")

\* (Mutant: a hold can be refunded too.)
EpayRefundHolds(c, id) ==
  /\ Sees(c, id, Refundable \cup {"AUTHORIZED"})
  /\ store[id].bank = "epay"
  /\ \E a \in Amounts :
       Proceed(c, "EpayRefund", id, "Refund", "none",
               RefundDelta(store[id], a), "REFUNDED")

EpayRefund(c, id) ==
  /\ Sees(c, id, Refundable)
  /\ store[id].bank = "epay"
  /\ \E a \in Amounts :
       Proceed(c, "EpayRefund", id, "Refund", "none",
               RefundDelta(store[id], a), "REFUNDED")

\* Before the capture a reversal cancels the hold, after it it refunds.
FlittReverse(c, id) ==
  \/ /\ Sees(c, id, {"AUTHORIZED"})
     /\ store[id].bank = "flitt"
     /\ Proceed(c, "FlittReverse", id, "Transition", "none", 0, "CANCELLED")
  \/ /\ Sees(c, id, Refundable)
     /\ store[id].bank = "flitt"
     /\ \E a \in Amounts :
          Proceed(c, "FlittReverse", id, "Refund", "none",
                  RefundDelta(store[id], a), "REFUNDED")

\* A payment past NEW is answered as it is, and called back if AUTHORIZED.
FlittComplete3DS(c, id) ==
  \/ /\ Sees(c, id, {"NEW"})
     /\ store[id].bank = "flitt"
     /\ Proceed(c, "FlittComplete3DS", id, "Transition", "none", 0, "AUTHORIZED")
  \/ /\ Sees(c, id, Statuses \ {"NEW"})
     /\ store[id].bank = "flitt"
     /\ Notify("FlittComplete3DS", id, store[id])
     /\ UNCHANGED <<store, nextID, req>>

-----------------------------------------------------------------------------
(* Methods on a payment: the later repository calls *)

\* (Mutant: the status checked by the caller only, not under the lock.)
TransitionUnchecked(c) ==
  LET r == req[c]
  IN  /\ r.call = "Transition"
      /\ Exists(r.id)
      /\ store' = [store EXCEPT ![r.id] = Moved(@, r.to)]
      /\ Continue(c)
      /\ Notify(r.op, r.id, store'[r.id])
      /\ UNCHANGED nextID

\* repo.Transition: the stored status is checked again under the lock.
Transition(c) ==
  LET r == req[c]
  IN  /\ r.call = "Transition"
      /\ \/ /\ Exists(r.id)
            /\ store[r.id].status \in AllowedTransitions(r.to)
            /\ store' = [store EXCEPT ![r.id] = Moved(@, r.to)]
            /\ Continue(c)
            /\ IF r.op = "AuthorizeWallet" THEN UNCHANGED webhooks
               ELSE Notify(r.op, r.id, store'[r.id])
         \/ /\ Exists(r.id) => store[r.id].status \notin AllowedTransitions(r.to)
            /\ Return(c)
            /\ UNCHANGED <<store, webhooks>>
      /\ UNCHANGED nextID

\* repo.Update with a callback that always lands once the record exists:
\* rec is what the callback makes of it.
Update(c, rec) ==
  LET r == req[c]
  IN  \/ /\ Exists(r.id)
         /\ store' = [store EXCEPT ![r.id] = rec]
         /\ Continue(c)
         /\ Notify(r.op, r.id, rec)
         /\ UNCHANGED nextID
      \/ /\ ~Exists(r.id)
         /\ Return(c)
         /\ UNCHANGED <<store, nextID, webhooks>>

CommitCapture(c) ==
  /\ req[c].call = "Capture"
  /\ Update(c, Captured(store[req[c].id], req[c].sum))

\* Epay and Flitt refunds leave no operation behind.
CommitRefund(c) ==
  /\ req[c].call = "Refund"
  /\ req[c].op # "Revoke"
  /\ Update(c, Refunded(store[req[c].id], req[c].sum))

\* (Mutant: a refund the bank refused counts as well.)
CommitRevokeAny(c) ==
  /\ req[c].call = "Refund"
  /\ req[c].op = "Revoke"
  /\ \E ok \in BOOLEAN :
       LET r     == req[c]
           op    == [id |-> r.refundID, amount |-> -AsInt(r.sum), ok |-> ok]
           noted == [store[r.id] EXCEPT !.refunds = @ \cup {op}]
       IN  Update(c, Refunded(noted, r.sum))

\* A Freedom refund is kept as an operation, and counts when it succeeded.
CommitRevoke(c) ==
  /\ req[c].call = "Refund"
  /\ req[c].op = "Revoke"
  /\ \E ok \in BOOLEAN :
       LET r     == req[c]
           op    == [id |-> r.refundID, amount |-> -AsInt(r.sum), ok |-> ok]
           noted == [store[r.id] EXCEPT !.refunds = @ \cup {op}]
       IN  Update(c, IF ok THEN Refunded(noted, r.sum) ELSE noted)

\* (Mutant: the counter's value before the increment is taken.)
TakeRefundIDEarly(c) ==
  /\ req[c].call = "NextID"
  /\ nextID < MaxId
  /\ nextID' = nextID + 1
  /\ req' = [req EXCEPT ![c].call = "Refund", ![c].then = "none",
                        ![c].refundID = nextID]
  /\ UNCHANGED <<store, webhooks>>

TakeRefundID(c) ==
  /\ req[c].call = "NextID"
  /\ nextID < MaxId
  /\ nextID' = nextID + 1
  /\ req' = [req EXCEPT ![c].call = "Refund", ![c].then = "none",
                        ![c].refundID = nextID + 1]
  /\ UNCHANGED <<store, webhooks>>

\* (Mutant: a decline writes back the record its opener had created.)
CommitFailAfresh(c) ==
  /\ req[c].call = "Fail"
  /\ LET id == req[c].id
     IN  Update(c, Moved(NewRecord(store[id].bank, "NEW", store[id].amount),
                         "FAILED"))

\* A decline is written over whatever the record has become.
CommitFail(c) ==
  /\ req[c].call = "Fail"
  /\ Update(c, Moved(store[req[c].id], "FAILED"))

\* The 3DS fields, and the wallet's kind: nothing the model tells apart.
CommitFields(c) ==
  /\ req[c].call \in {"Challenge", "SetKind"}
  /\ Update(c, store[req[c].id])

\* The late operation reads back the record it stored.
ReadBack(c) ==
  /\ req[c].call = "Get"
  /\ Return(c)
  /\ UNCHANGED <<store, nextID, webhooks>>

-----------------------------------------------------------------------------
(* The panel *)

\* ApplyForce's Update, and the send it routes by the record's bank.
ForceTo(id, target) ==
  /\ store' = [store EXCEPT ![id] = Forced(@, target)]
  /\ Spawn(id, store'[id], FALSE, SwitchOf(store[id].bank) \in AutoWebhook)
  /\ UNCHANGED nextID

PanelTargets == {"AUTHORIZED", "CAPTURED", "CANCELLED", "REFUNDED", "FAILED"}

ApplyForce(c, id) ==
  /\ Free(c)
  /\ Exists(id)
  /\ \E target \in PanelTargets : ForceTo(id, target)
  /\ UNCHANGED req

\* The second half of create_synthetic.
ForceSynthetic(c) ==
  /\ req[c].call = "Force"
  /\ Return(c)
  /\ \/ Exists(req[c].id) /\ ForceTo(req[c].id, req[c].force)
     \/ ~Exists(req[c].id) /\ UNCHANGED <<store, nextID, webhooks>>

\* A 3DS check declined by the active scenario: Epay's confirm handler
\* forces its payment to FAILED.
ConfirmDeclined(c, id) ==
  /\ Free(c)
  /\ Exists(id)
  /\ store[id].bank = "epay"
  /\ ForceTo(id, "FAILED")
  /\ UNCHANGED req

\* (Mutant: the reset restarts the id counter.)
ResetAndRestart ==
  /\ store' = [id \in Ids |-> NoPayment]
  /\ nextID' = 0
  /\ UNCHANGED <<req, webhooks>>

\* Reset forgets the payments; the id counter goes on.
Reset ==
  /\ store' = [id \in Ids |-> NoPayment]
  /\ UNCHANGED <<nextID, req, webhooks>>

-----------------------------------------------------------------------------
(* Specifications *)

Init ==
  /\ store = [id \in Ids |-> NoPayment]
  /\ nextID = 0
  /\ req = [c \in Clients |-> Idle]
  /\ webhooks = {}

OpenPayment(c) ==
  \/ HoldInit(c) \/ CreateHosted(c) \/ CreateBind(c)
  \/ EpayAuthorize(c) \/ EpayDecline(c) \/ EpayLateOperation(c)
  \/ FlittCheckout(c) \/ FlittDirect(c) \/ FlittRecurring(c)

StartMethod(c, id) ==
  \/ Hold(c, id) \/ AuthorizeWallet(c, id)
  \/ Capture(c, id) \/ EpayCharge(c, id) \/ FlittCapture(c, id)
  \/ Cancel(c, id) \/ EpayCancel(c, id)
  \/ RevokeWithOutcome(c, id) \/ EpayRefund(c, id)
  \/ FlittReverse(c, id) \/ FlittComplete3DS(c, id)
  \/ ConfirmDeclined(c, id)

RepositoryCall(c) ==
  \/ Create(c) \/ Transition(c) \/ CommitCapture(c)
  \/ TakeRefundID(c) \/ CommitRefund(c) \/ CommitRevoke(c)
  \/ CommitFail(c) \/ CommitFields(c) \/ ReadBack(c)

PanelAction(c) ==
  \/ CreateSynthetic(c)
  \/ ForceSynthetic(c)
  \/ \E id \in Ids : ApplyForce(c, id)

\* What payment gateways can make happen, and the panel's reset.
GatewayNext ==
  \/ \E c \in Clients : \/ OpenPayment(c)
                        \/ RepositoryCall(c)
                        \/ \E id \in Ids : StartMethod(c, id)
  \/ \E w \in webhooks : DeliverWebhook(w) \/ LoseWebhook(w)
  \/ Reset

Next == GatewayNext \/ \E c \in Clients : PanelAction(c)

\* net/http gives every request a goroutine, and Go's scheduler runs it.
Fairness == \A c \in Clients : WF_vars(RepositoryCall(c))

GatewaySpec == Init /\ [][GatewayNext]_vars
Spec        == Init /\ [][Next]_vars

FairGatewaySpec == GatewaySpec /\ Fairness

-----------------------------------------------------------------------------
(* Properties *)

\* The shape of the state.
TypeOK ==
  /\ store \in [Ids -> Record \cup {NoPayment}]
  /\ nextID \in 0 .. MaxId
  /\ req \in [Clients -> Request]
  /\ webhooks \in SUBSET Webhook

\* Ids are taken outside the repository's lock and stored later, with other
\* requests and resets in between.  Still every id, of a payment or of a
\* refund, stored or about to be, names one thing, for ever.
Reserved(c)     == req[c].call = "Create"
RefundTaken(c)  == req[c].call = "Refund" /\ req[c].op = "Revoke"
RefundIds(id)   == IF Exists(id) THEN {r.id : r \in store[id].refunds} ELSE {}

IdsBounded ==
  /\ \A c \in Clients : req[c].id <= nextID /\ req[c].refundID <= nextID
  /\ \A id \in Ids : Exists(id) => id <= nextID
  /\ \A id \in Ids : \A r \in RefundIds(id) : r <= nextID
  /\ \A w \in webhooks : w.id <= nextID

ReservedIsNew ==
  \A c \in Clients : Reserved(c) =>
    /\ ~Exists(req[c].id)
    /\ \A id \in Ids : req[c].id \notin RefundIds(id)
    /\ \A w \in webhooks : w.id # req[c].id
    /\ \A d \in Clients \ {c} :
         req[d].id # req[c].id /\ req[d].refundID # req[c].id

TakenRefundIsNew ==
  \A c \in Clients : RefundTaken(c) =>
    /\ ~Exists(req[c].refundID)
    /\ \A id \in Ids : req[c].refundID \notin RefundIds(id)
    /\ \A d \in Clients \ {c} : RefundTaken(d) =>
         req[d].refundID # req[c].refundID
    /\ \A d \in Clients : req[d].id # req[c].refundID

RefundsAreApart ==
  \A i, j \in Ids :
    /\ \A r \in RefundIds(i) : ~Exists(r)
    /\ i # j => RefundIds(i) \cap RefundIds(j) = {}

UniqueIds == IdsBounded /\ ReservedIsNew /\ TakenRefundIsNew /\ RefundsAreApart

\* Whatever stale snapshots the requests act on, a payment is charged only
\* if its hold was authorized at some time (or the bank reported it charged
\* in the first place) ...
ChargesRestOnHolds ==
  \A id \in Ids : Exists(id) /\ "CAPTURED" \in store[id].history =>
    "AUTHORIZED" \in store[id].history \/ store[id].origin = "CAPTURED"

\* ... and refunded only if it was charged.
RefundsRestOnCharges ==
  \A id \in Ids :
    Exists(id) /\ store[id].history \cap {"REFUNDED", "PARTIAL_REFUNDED"} # {}
      => "CAPTURED" \in store[id].history

\* However refunds, repeated captures and resets interleave, the status
\* tells whether all of the captured money is back.
RefundStatusExact ==
  \A id \in Ids : Exists(id) =>
    /\ store[id].status = "REFUNDED" => store[id].refunded >= store[id].captured
    /\ store[id].status = "PARTIAL_REFUNDED" =>
         store[id].refunded < store[id].captured

\* An int as a uint.
AsUint(i) == IF i >= 0 THEN i ELSE i + Word

\* total is what the operations of ops give back together, as a uint, in
\* whatever order they are counted.
GivesBack(ops, total) ==
  \E sum \in [SUBSET ops -> Uint] :
    /\ sum[{}] = 0
    /\ \A part \in SUBSET ops : \A r \in part :
         sum[part] = Plus(sum[part \ {r}], AsUint(-r.amount))
    /\ sum[ops] = total

\* get_status3 reports a Freedom payment's refunds twice, as the running
\* total and as the list of operations: the two always agree.
LedgerAgrees ==
  \A id \in Ids : Exists(id) /\ store[id].bank = "any" =>
    GivesBack({r \in store[id].refunds : r.ok}, store[id].refunded)

\* A webhook that has not been sent yet speaks of a status its payment has
\* been in, never of a payment that took over the id.
WebhooksTellHistory ==
  \A w \in webhooks : Exists(w.id) => w.status \in store[w.id].history

Stays(id)   == Exists(id) /\ store'[id] # NoPayment
Changes(id) == Stays(id) /\ store'[id].status # store[id].status

\* A hold or a cancellation lands only on a payment that allows it, however
\* old the snapshot its request decided on.
RecheckedTransitions ==
  [][\A id \in Ids :
       Changes(id) /\ store'[id].status \in {"AUTHORIZED", "CANCELLED"}
         => store[id].status \in AllowedTransitions(store'[id].status)]_vars

\* A request of Epay's or Flitt's API changes only payments of that bank,
\* although the bank is checked on a snapshot.
Writes(c, id) == req'[c] # req[c] /\ Exists(id) /\ store'[id] # store[id]

BankIsolation ==
  [][\A c \in Clients, id \in Ids : Writes(c, id) =>
       /\ req[c].op \in EpayOps  => store[id].bank = "epay"
       /\ req[c].op \in FlittOps => store[id].bank = "flitt"]_vars

\* Served one request at a time, the money of a payment that is refunded,
\* cancelled or declined is never touched again.
FinalMeansFinal ==
  [][\A id \in Ids :
       Stays(id) /\ store[id].status \in {"REFUNDED", "CANCELLED", "FAILED"}
         => /\ store'[id].captured = store[id].captured
            /\ store'[id].refunded = store[id].refunded
            /\ store'[id].refunds  = store[id].refunds]_vars

Lifecycle ==
  INSTANCE PaymentLifecycle WITH
    status <- [id \in Ids |-> IF Exists(id) THEN store[id].status ELSE "NONE"],
    used   <- 1 .. nextID \ {req[c].id : c \in {d \in Clients : Reserved(d)}}

\* Served one request at a time, the service makes the moves of the status
\* machine and no others, and never opens a payment under a used id.
ImplementsLifecycle == Lifecycle!LifecycleSpec

\* A payment as ConcurrentLifecycle keeps it.
PaymentOf(id) ==
  IF Exists(id)
  THEN [status |-> store[id].status, past |-> store[id].history,
        captured |-> store[id].captured, refunded |-> store[id].refunded]
  ELSE [status |-> "NONE", past |-> {}, captured |-> 0, refunded |-> 0]

Concurrent ==
  INSTANCE ConcurrentLifecycle WITH
    payment <- [id \in Ids |-> PaymentOf(id)],
    used    <- 1 .. nextID \ {req[c].id : c \in {d \in Clients : Reserved(d)}}

\* However the requests of any number of clients interleave, each of their
\* effects is one atomic change that the payment's own past allows: stale
\* snapshots may lose a status, a decline may even be written over a charge,
\* but neither the money refunded nor what a payment has been.
ImplementsConcurrent == Concurrent!ConcurrentSpec

-----------------------------------------------------------------------------
(* What the documentation says and the code does not do *)

\* docs/architecture.md: the transitions AllowedTransitions lists are the
\* allowed ones, and only the panel's force bypasses them.
OnlyAllowedTransitions ==
  [][\A id \in Ids : Changes(id) =>
       store[id].status \in AllowedTransitions(store'[id].status)]_vars

\* service.go, in RevokeWithOutcome: the refund is bounded by the payment.
RefundWithinPayment ==
  \A id \in Ids : Exists(id) =>
    \A r \in store[id].refunds : r.ok => -r.amount <= store[id].amount

\* wallet/handler.go: a silent hold itself sends the success webhook.
HoldAnnounced ==
  [][\A c \in Clients :
       req[c].op = "Hold" /\ req[c].call = "Transition"
         /\ Exists(req[c].id) /\ store'[req[c].id] # store[req[c].id]
         => \E w \in webhooks' : w.id = req[c].id]_vars
=============================================================================
