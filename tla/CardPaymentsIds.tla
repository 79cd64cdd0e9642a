-------------------------- MODULE CardPaymentsIds ---------------------------
(***************************************************************************)
(* An id names one thing for ever: UniqueIds, and what follows from it     *)
(* about requests that act on a payment long after they looked at it.      *)
(***************************************************************************)
EXTENDS CardPaymentsProofs

\* UniqueIds is inductive once the shape of the requests is known.
IdInv == TypeInv /\ UniqueIds

\* Ids a request carries are 0 or in Ids, and a claimed one is in Ids.
LEMMA ClaimsInIds ==
  ASSUME TypeInv, NEW c \in Clients
  PROVE  /\ req[c].id \in Nat /\ req[c].refundID \in Nat
         /\ Reserved(c) => req[c].id \in Ids /\ ~RefundTaken(c)
         /\ RefundTaken(c) => req[c].refundID \in Ids
<1>1. req[c] \in Request /\ Shaped(req[c])
  BY DEF TypeInv, TypeOK, AllShaped
<1>2. req[c].id \in Nat /\ req[c].refundID \in Nat
  BY <1>1, MaxIdAssumption DEF Request
<1>3. Reserved(c) => req[c].id \in Ids /\ ~RefundTaken(c)
  BY <1>1 DEF Reserved, RefundTaken, Shaped, Idle
<1>4. RefundTaken(c) => req[c].refundID \in Ids
  BY <1>1 DEF RefundTaken, Shaped, Idle, OneCallOps, Openers
<1> QED
  BY <1>2, <1>3, <1>4

\* Nothing is created and no refund is added, ...
QuietStore ==
  \A id \in Ids : Exists(id)' =>
    Exists(id) /\ RefundIds(id)' \subseteq RefundIds(id)

\* ... no request claims an id or turns to a payment that does not exist, ...
QuietRequests ==
  \A c \in Clients : req'[c] = req[c] \/
    /\ ~Reserved(c)' /\ ~RefundTaken(c)'
    /\ \/ req'[c].id \in {0, req[c].id}
       \/ req'[c].id \in Ids /\ Exists(req'[c].id)
    /\ req'[c].refundID \in {0, req[c].refundID}

\* ... and every new goroutine is about a payment that does.
QuietWebhooks ==
  \A w \in webhooks' : w \in webhooks \/ (w.id \in Ids /\ Exists(w.id))

\* A step that takes no id keeps ids unique if it claims nothing, creates
\* nothing, adds no refund, and speaks only of payments that exist.
LEMMA QuietStep ==
  ASSUME IdInv, TypeInv', nextID' = nextID,
         QuietStore, QuietRequests, QuietWebhooks
  PROVE  UniqueIds'
<1> USE DEF IdInv, QuietStore, QuietRequests, QuietWebhooks
<1>0. \A c \in Clients : /\ Reserved(c)' => Reserved(c) /\ req'[c] = req[c]
                         /\ RefundTaken(c)' => RefundTaken(c) /\ req'[c] = req[c]
  BY DEF Reserved, RefundTaken
<1>1. IdsBounded'
  <2>1. \A id \in Ids : Exists(id) => id <= nextID
    BY DEF UniqueIds, IdsBounded
  <2>2. \A c \in Clients : req'[c].id <= nextID /\ req'[c].refundID <= nextID
    <3> TAKE c \in Clients
    <3>1. req[c].id <= nextID /\ req[c].refundID <= nextID /\ 0 <= nextID
      BY DEF UniqueIds, IdsBounded, TypeInv, TypeOK
    <3> QED
      BY <2>1, <3>1
  <2>3. \A id \in Ids : Exists(id)' => id <= nextID
    BY <2>1
  <2>4. \A id \in Ids : \A r \in RefundIds(id)' : r <= nextID
    <3> SUFFICES ASSUME NEW id \in Ids, NEW r \in RefundIds(id)'
                 PROVE  r \in RefundIds(id)
      BY DEF UniqueIds, IdsBounded
    <3> QED
      BY DEF RefundIds
  <2>5. \A w \in webhooks' : w.id <= nextID
    BY <2>1 DEF UniqueIds, IdsBounded
  <2> QED
    BY <2>2, <2>3, <2>4, <2>5 DEF IdsBounded
<1>2. \A id \in Ids : RefundIds(id)' \subseteq RefundIds(id)
  BY DEF RefundIds
<1>3. ReservedIsNew'
  <2> SUFFICES ASSUME NEW c \in Clients, Reserved(c)'
               PROVE  /\ ~Exists(req[c].id)'
                      /\ \A id \in Ids : req'[c].id \notin RefundIds(id)'
                      /\ \A w \in webhooks' : w.id # req'[c].id
                      /\ \A d \in Clients \ {c} : /\ req'[d].id # req'[c].id
                                                  /\ req'[d].refundID # req'[c].id
    BY DEF ReservedIsNew
  <2>1. Reserved(c) /\ req'[c] = req[c] /\ req[c].id \in Ids /\ req[c].id # 0
    BY <1>0, ClaimsInIds, MaxIdAssumption DEF Ids
  <2>2. /\ ~Exists(req[c].id)
        /\ \A id \in Ids : req[c].id \notin RefundIds(id)
        /\ \A w \in webhooks : w.id # req[c].id
        /\ \A d \in Clients \ {c} : /\ req[d].id # req[c].id
                                    /\ req[d].refundID # req[c].id
    BY <2>1 DEF UniqueIds, ReservedIsNew
  <2>3. ~Exists(req[c].id)'
    BY <2>1, <2>2 DEF Exists
  <2>4. \A id \in Ids : req'[c].id \notin RefundIds(id)'
    BY <1>2, <2>1, <2>2
  <2>5. \A w \in webhooks' : w.id # req'[c].id
    BY <2>1, <2>2
  <2>6. \A d \in Clients \ {c} : /\ req'[d].id # req'[c].id
                                 /\ req'[d].refundID # req'[c].id
    BY <2>1, <2>2
  <2> QED
    BY <2>3, <2>4, <2>5, <2>6
<1>4. TakenRefundIsNew'
  <2> SUFFICES ASSUME NEW c \in Clients, RefundTaken(c)'
               PROVE  /\ ~Exists(req[c].refundID)'
                      /\ \A id \in Ids : req'[c].refundID \notin RefundIds(id)'
                      /\ \A d \in Clients \ {c} : RefundTaken(d)' =>
                           req'[d].refundID # req'[c].refundID
                      /\ \A d \in Clients : req'[d].id # req'[c].refundID
    BY DEF TakenRefundIsNew
  <2>1. /\ RefundTaken(c) /\ req'[c] = req[c]
        /\ req[c].refundID \in Ids /\ req[c].refundID # 0
    BY <1>0, ClaimsInIds, MaxIdAssumption DEF Ids
  <2>2. /\ ~Exists(req[c].refundID)
        /\ \A id \in Ids : req[c].refundID \notin RefundIds(id)
        /\ \A d \in Clients \ {c} : RefundTaken(d) =>
             req[d].refundID # req[c].refundID
        /\ \A d \in Clients : req[d].id # req[c].refundID
    BY <2>1 DEF UniqueIds, TakenRefundIsNew
  <2>3. ~Exists(req[c].refundID)'
    BY <2>1, <2>2 DEF Exists
  <2>4. \A id \in Ids : req'[c].refundID \notin RefundIds(id)'
    BY <1>2, <2>1, <2>2
  <2>5. \A d \in Clients \ {c} : RefundTaken(d)' =>
          req'[d].refundID # req'[c].refundID
    BY <1>0, <2>1, <2>2
  <2>6. \A d \in Clients : req'[d].id # req'[c].refundID
    BY <2>1, <2>2
  <2> QED
    BY <2>3, <2>4, <2>5, <2>6
<1>5. RefundsAreApart'
  <2> SUFFICES ASSUME NEW i \in Ids, NEW j \in Ids
               PROVE  /\ \A r \in RefundIds(i)' : ~Exists(r)'
                      /\ i # j => RefundIds(i)' \cap RefundIds(j)' = {}
    BY DEF RefundsAreApart
  <2>1. /\ \A r \in RefundIds(i) : ~Exists(r)
        /\ i # j => RefundIds(i) \cap RefundIds(j) = {}
    BY DEF UniqueIds, RefundsAreApart
  <2>2. \A r \in RefundIds(i) : r \in Ids
    BY StoredRecord DEF TypeInv, RefundIds, Record, RefundOp
  <2>3. \A r \in RefundIds(i)' : ~Exists(r)'
    BY <1>2, <2>1, <2>2
  <2> QED
    BY <1>2, <2>1, <2>3
<1> QED
  BY <1>1, <1>3, <1>4, <1>5 DEF UniqueIds

-----------------------------------------------------------------------------
(* Quiet steps *)

LEMMA ReturnIsQuiet ==
  ASSUME TypeInv, NEW c \in Clients, Return(c)
  PROVE  QuietRequests
<1>1. \A d \in Clients : req'[d] = IF d = c THEN Idle ELSE req[d]
  BY DEF TypeInv, TypeOK, Return
<1> QED
  BY <1>1 DEF QuietRequests, Idle, Reserved, RefundTaken

LEMMA ContinueIsQuiet ==
  ASSUME TypeInv, NEW c \in Clients, Continue(c), req[c].call # "NextID"
  PROVE  QuietRequests
<1> DEFINE r == req[c]
           n == IF r.then = "none" THEN Idle
                ELSE [r EXCEPT !.call = r.then, !.then = r.last, !.last = "none"]
<1>1. \A d \in Clients : req'[d] = IF d = c THEN n ELSE req[d]
  BY DEF TypeInv, TypeOK, Continue
<1>2. r \in Request /\ Shaped(r)
  BY DEF TypeInv, TypeOK, AllShaped
<1>3. CASE r.then = "none"
  BY <1>1, <1>3 DEF QuietRequests, Idle, Reserved, RefundTaken
<1>4. CASE r.then # "none"
  <2>1. n.call = r.then /\ n.id = r.id /\ n.refundID = r.refundID
    BY <1>2, <1>4 DEF Request
  <2>2. r.then # "Create" /\ r.then # "Refund"
    BY <1>2, <1>4 DEF Shaped, Idle, OpenerCalls
  <2> HIDE DEF n
  <2> QED
    BY <1>1, <2>1, <2>2 DEF QuietRequests, Reserved, RefundTaken
<1> QED
  BY <1>3, <1>4

LEMMA NotifyIsQuiet ==
  ASSUME NEW op, NEW id \in Ids, NEW rec, Notify(op, id, rec), Exists(id)
  PROVE  QuietWebhooks
BY DEF Notify, Spawn, QuietWebhooks

\* A write that leaves the refunds of a payment alone adds none.
LEMMA WriteIsQuiet ==
  ASSUME TypeInv, NEW id \in Ids, Exists(id), NEW rec \in Record,
         store' = [store EXCEPT ![id] = rec], rec.refunds = store[id].refunds
  PROVE  QuietStore
<1>1. \A i \in Ids : store'[i] = IF i = id THEN rec ELSE store[i]
  BY DEF TypeInv, TypeOK
<1>2. rec # NoPayment
  BY NoPaymentAssumption
<1> QED
  BY <1>1, <1>2 DEF QuietStore, Exists, RefundIds

LEMMA UpdateIsQuiet ==
  ASSUME IdInv, NEW c \in Clients, NEW rec, Update(c, rec),
         req[c].call # "none", req[c].call # "NextID",
         Exists(req[c].id) => /\ rec \in Record
                              /\ rec.refunds = store[req[c].id].refunds
  PROVE  UniqueIds'
<1> DEFINE r == req[c]
<1>1. r.id \in Ids
  BY DEF IdInv, TypeInv, AllShaped, Shaped, Idle
<1>2. TypeInv'
  BY UpdateStep DEF IdInv
<1>3. CASE ~Exists(r.id)
  <2>1. Return(c) /\ UNCHANGED <<store, nextID, webhooks>>
    BY <1>3 DEF Update
  <2>2. QuietStore /\ QuietWebhooks
    BY <2>1 DEF QuietStore, QuietWebhooks, Exists, RefundIds
  <2> QED
    BY <1>2, <2>1, <2>2, ReturnIsQuiet, QuietStep DEF IdInv
<1>4. CASE Exists(r.id)
  <2>1. /\ store' = [store EXCEPT ![r.id] = rec]
        /\ Continue(c)
        /\ Notify(r.op, r.id, rec)
        /\ nextID' = nextID
    BY <1>4 DEF Update
  <2>2. QuietStore
    BY <1>1, <1>4, <2>1, WriteIsQuiet DEF IdInv
  <2>3. QuietRequests
    BY <2>1, ContinueIsQuiet DEF IdInv
  <2>4. QuietWebhooks
    BY <1>1, <1>4, <2>1, NotifyIsQuiet
  <2> QED
    BY <1>2, <2>1, <2>2, <2>3, <2>4, QuietStep
<1> QED
  BY <1>3, <1>4

LEMMA MethodIds ==
  ASSUME IdInv, NEW c \in Clients, NEW id \in Ids,
         \/ ProceedingMethod(c, id)
         \/ FlittComplete3DS(c, id) /\ store[id].status = "NEW"
  PROVE  UniqueIds'
<1>1. PICK op, call, then, sum, to :
        /\ MethodRequest(op, call, then, sum, to)
        /\ Proceed(c, op, id, call, then, sum, to)
  BY MethodsProceed DEF IdInv
<1>2. Exists(id)
  BY DEF ProceedingMethod, FlittComplete3DS, Hold, AuthorizeWallet, Capture,
         EpayCharge, FlittCapture, Cancel, EpayCancel, RevokeWithOutcome,
         EpayRefund, FlittReverse, Sees
<1>3. TypeInv'
  BY MethodStep DEF IdInv
<1> DEFINE n == [Idle EXCEPT !.call = call, !.then = then, !.op = op,
                             !.id = id, !.sum = sum, !.to = to]
<1>4. \A d \in Clients : req'[d] = IF d = c THEN n ELSE req[d]
  BY <1>1 DEF IdInv, TypeInv, TypeOK, Proceed
<1>5. n.call = call /\ n.op = op /\ n.id = id /\ n.refundID = 0
  BY DEF Idle
<1> HIDE DEF n
<1>6. call # "Create" /\ ~(call = "Refund" /\ op = "Revoke")
  BY <1>1 DEF MethodRequest, OneCallOps
<1>7. QuietRequests
  BY <1>2, <1>4, <1>5, <1>6 DEF QuietRequests, Reserved, RefundTaken
<1>8. nextID' = nextID /\ QuietStore /\ QuietWebhooks
  BY <1>1 DEF Proceed, QuietStore, QuietWebhooks, Exists, RefundIds
<1> QED
  BY <1>3, <1>7, <1>8, QuietStep

LEMMA CommitIds ==
  ASSUME IdInv, NEW c \in Clients,
         CommitCapture(c) \/ CommitRefund(c) \/ CommitFail(c) \/ CommitFields(c)
  PROVE  UniqueIds'
<1> DEFINE r == req[c]
<1>1. r.sum \in Uint
  BY DEF IdInv, TypeInv, TypeOK, Request
<1>2. r.call \notin {"none", "NextID"} /\ Exists(r.id) => store[r.id] \in Record
  <2>1. r.call # "none" => r.id \in Ids
    BY DEF IdInv, TypeInv, AllShaped, Shaped, Idle
  <2> QED
    BY <2>1, StoredRecord DEF IdInv, TypeInv
<1>3. "FAILED" \in Statuses
  BY DEF Statuses
<1>4. CASE CommitCapture(c)
  <2>1. Exists(r.id) => /\ Captured(store[r.id], r.sum) \in Record
                        /\ Captured(store[r.id], r.sum).refunds = store[r.id].refunds
    BY <1>1, <1>2, <1>4, CapturedType DEF CommitCapture, Captured, Moved, Record
  <2> QED
    BY <1>4, <2>1, UpdateIsQuiet DEF CommitCapture
<1>5. CASE CommitRefund(c)
  <2>1. Exists(r.id) => /\ Refunded(store[r.id], r.sum) \in Record
                        /\ Refunded(store[r.id], r.sum).refunds = store[r.id].refunds
    BY <1>1, <1>2, <1>5, RefundedType DEF CommitRefund, Refunded, Moved, Record
  <2> QED
    BY <1>5, <2>1, UpdateIsQuiet DEF CommitRefund
<1>6. CASE CommitFail(c)
  <2>1. Exists(r.id) => /\ Moved(store[r.id], "FAILED") \in Record
                        /\ Moved(store[r.id], "FAILED").refunds = store[r.id].refunds
    BY <1>2, <1>3, <1>6, MovedType DEF CommitFail, Moved, Record
  <2> QED
    BY <1>6, <2>1, UpdateIsQuiet DEF CommitFail
<1>7. CASE CommitFields(c)
  BY <1>2, <1>7, UpdateIsQuiet DEF CommitFields
<1> QED
  BY <1>4, <1>5, <1>6, <1>7

LEMMA TransitionIds ==
  ASSUME IdInv, NEW c \in Clients, Transition(c)
  PROVE  UniqueIds'
<1> DEFINE r == req[c]
           rec == Moved(store[r.id], r.to)
<1>1. r \in Request /\ r.id \in Ids /\ r.call = "Transition"
  BY DEF IdInv, TypeInv, TypeOK, AllShaped, Shaped, Idle, Transition
<1>2. TypeInv' /\ nextID' = nextID
  BY TransitionStep DEF IdInv, Transition
<1>3. CASE /\ Exists(r.id)
           /\ store' = [store EXCEPT ![r.id] = Moved(@, r.to)]
           /\ Continue(c)
           /\ IF r.op = "AuthorizeWallet" THEN UNCHANGED webhooks
              ELSE Notify(r.op, r.id, store'[r.id])
  <2>1. store[r.id] \in Record
    BY <1>1, <1>3, StoredRecord DEF IdInv, TypeInv
  <2>2. rec \in Record /\ rec.refunds = store[r.id].refunds
    BY <1>1, <2>1, MovedType DEF Request, Moved, Record
  <2> HIDE DEF rec
  <2>3. store' = [store EXCEPT ![r.id] = rec]
    BY <1>3 DEF rec
  <2>4. QuietStore
    BY <1>1, <1>3, <2>2, <2>3, WriteIsQuiet DEF IdInv
  <2>5. QuietRequests
    BY <1>1, <1>3, ContinueIsQuiet DEF IdInv
  <2>6. QuietWebhooks
    <3>1. CASE UNCHANGED webhooks
      BY <3>1 DEF QuietWebhooks
    <3>2. CASE Notify(r.op, r.id, store'[r.id])
      BY <1>1, <1>3, <3>2, NotifyIsQuiet
    <3> QED
      BY <1>3, <3>1, <3>2
  <2> QED
    BY <1>2, <2>4, <2>5, <2>6, QuietStep
<1>4. CASE Return(c) /\ UNCHANGED <<store, webhooks>>
  <2>1. QuietStore /\ QuietWebhooks
    BY <1>4 DEF QuietStore, QuietWebhooks, Exists, RefundIds
  <2> QED
    BY <1>2, <1>4, <2>1, ReturnIsQuiet, QuietStep DEF IdInv
<1> QED
  BY <1>3, <1>4 DEF Transition

LEMMA OtherQuietIds ==
  ASSUME IdInv, NEW c \in Clients, NEW id \in Ids,
         \/ ReadBack(c) \/ ApplyForce(c, id) \/ ConfirmDeclined(c, id)
         \/ ForceSynthetic(c)
         \/ FlittComplete3DS(c, id) /\ store[id].status # "NEW"
  PROVE  UniqueIds'
<1>1. TypeInv'
  BY ReadBackStep, ForceStep, ForceSyntheticStep, AnsweredAsItIs DEF IdInv
<1>2. ASSUME NEW i \in Ids, Exists(i), NEW t \in Statuses, ForceTo(i, t)
      PROVE  QuietStore /\ QuietWebhooks
  <2>1. store[i] \in Record /\ Forced(store[i], t) \in Record
    BY <1>2, StoredRecord, ForcedType DEF IdInv, TypeInv
  <2>2. Forced(store[i], t).refunds = store[i].refunds
    BY <2>1 DEF Forced, Moved, Record
  <2>3. QuietStore
    BY <1>2, <2>1, <2>2, WriteIsQuiet DEF IdInv, ForceTo
  <2>4. QuietWebhooks
    BY <1>2 DEF ForceTo, Spawn, QuietWebhooks
  <2> QED
    BY <2>3, <2>4
<1>3. CASE ReadBack(c)
  <2>1. QuietRequests
    BY <1>3, ReturnIsQuiet DEF ReadBack, IdInv
  <2>2. nextID' = nextID /\ QuietStore /\ QuietWebhooks
    BY <1>3 DEF ReadBack, QuietStore, QuietWebhooks, Exists, RefundIds
  <2> QED
    BY <1>1, <2>1, <2>2, QuietStep
<1>4. CASE ApplyForce(c, id) \/ ConfirmDeclined(c, id)
  <2>1. PICK target \in Statuses : ForceTo(id, target)
    BY <1>4 DEF ApplyForce, ConfirmDeclined, PanelTargets, Statuses
  <2>2. /\ Exists(id) /\ nextID' = nextID
        /\ QuietRequests
    BY <1>4 DEF ApplyForce, ConfirmDeclined, ForceTo, QuietRequests
  <2> QED
    BY <1>1, <1>2, <2>1, <2>2, QuietStep
<1>5. CASE ForceSynthetic(c)
  <2>1. req[c].id \in Ids /\ req[c].force \in Statuses
    BY <1>5 DEF ForceSynthetic, IdInv, TypeInv, TypeOK, Request, AllShaped,
                Shaped, Idle
  <2>2. QuietRequests /\ nextID' = nextID
    BY <1>5, ReturnIsQuiet DEF ForceSynthetic, ForceTo, IdInv
  <2>3. QuietStore /\ QuietWebhooks
    <3>1. CASE Exists(req[c].id) /\ ForceTo(req[c].id, req[c].force)
      BY <1>2, <2>1, <3>1
    <3>2. CASE UNCHANGED <<store, nextID, webhooks>>
      BY <3>2 DEF QuietStore, QuietWebhooks, Exists, RefundIds
    <3> QED
      BY <1>5, <3>1, <3>2 DEF ForceSynthetic
  <2> QED
    BY <1>1, <2>2, <2>3, QuietStep
<1>6. CASE FlittComplete3DS(c, id) /\ store[id].status # "NEW"
  <2>1. /\ Exists(id) /\ Notify("FlittComplete3DS", id, store[id])
        /\ UNCHANGED <<store, nextID, req>>
    BY <1>6 DEF FlittComplete3DS, Sees
  <2>2. QuietStore /\ QuietRequests /\ QuietWebhooks
    BY <2>1, NotifyIsQuiet DEF QuietStore, QuietRequests, Exists, RefundIds
  <2> QED
    BY <1>1, <2>1, <2>2, QuietStep
<1> QED
  BY <1>3, <1>4, <1>5, <1>6

LEMMA WebhookIds ==
  ASSUME IdInv, NEW w \in webhooks, DeliverWebhook(w) \/ LoseWebhook(w)
  PROVE  UniqueIds'
<1>1. w.id \in Ids
  BY DEF IdInv, TypeInv, TypeOK, Webhook
<1>2. TypeInv'
  BY WebhookStep DEF IdInv
<1>3. nextID' = nextID /\ QuietRequests /\ QuietWebhooks
  BY DEF DeliverWebhook, LoseWebhook, QuietRequests, QuietWebhooks
<1>4. QuietStore
  <2>1. CASE store' = store
    BY <2>1 DEF QuietStore, Exists, RefundIds
  <2>2. CASE Exists(w.id) /\ store' = [store EXCEPT ![w.id].sent = TRUE]
    <3> DEFINE rec == [store[w.id] EXCEPT !.sent = TRUE]
    <3>1. store[w.id] \in Record
      BY <1>1, <2>2, StoredRecord DEF IdInv, TypeInv
    <3>2. rec \in Record /\ rec.refunds = store[w.id].refunds
      BY <3>1 DEF Record
    <3>3. store' = [store EXCEPT ![w.id] = rec]
      BY <2>2
    <3> HIDE DEF rec
    <3> QED
      BY <1>1, <2>2, <3>2, <3>3, WriteIsQuiet DEF IdInv
  <2> QED
    BY <2>1, <2>2 DEF DeliverWebhook, LoseWebhook
<1> QED
  BY <1>2, <1>3, <1>4, QuietStep

LEMMA ResetIds ==
  ASSUME IdInv, Reset
  PROVE  UniqueIds'
<1>1. TypeInv'
  BY ResetStep DEF IdInv
<1>2. /\ nextID' = nextID
      /\ QuietStore /\ QuietRequests /\ QuietWebhooks
  BY DEF Reset, QuietStore, QuietRequests, QuietWebhooks, Exists
<1> QED
  BY <1>1, <1>2, QuietStep

-----------------------------------------------------------------------------
(* Steps that take an id, store a payment, or store a refund *)

\* The value the counter is about to take names nothing yet.
LEMMA NextIdIsFresh ==
  ASSUME IdInv
  PROVE  /\ nextID \in Nat
         /\ \A id \in Ids : Exists(id) => id # nextID + 1
         /\ \A id \in Ids : nextID + 1 \notin RefundIds(id)
         /\ \A w \in webhooks : w.id # nextID + 1
         /\ \A c \in Clients : /\ req[c].id # nextID + 1
                               /\ req[c].refundID # nextID + 1
<1>1. nextID \in Nat
  BY MaxIdAssumption DEF IdInv, TypeInv, TypeOK
<1>2. IdsBounded
  BY DEF IdInv, UniqueIds
<1>3. \A id \in Ids : Exists(id) => id # nextID + 1
  BY <1>1, <1>2 DEF IdsBounded
<1>4. \A id \in Ids : nextID + 1 \notin RefundIds(id)
  BY <1>1, <1>2 DEF IdsBounded
<1>5. \A w \in webhooks : w.id # nextID + 1
  BY <1>1, <1>2 DEF IdsBounded
<1>6. \A c \in Clients : req[c].id # nextID + 1 /\ req[c].refundID # nextID + 1
  BY <1>1, <1>2 DEF IdsBounded
<1> QED
  BY <1>1, <1>3, <1>4, <1>5, <1>6

\* A step that takes the next id and gives it to one request.
LEMMA TakingIds ==
  ASSUME IdInv, TypeInv', NEW c \in Clients, nextID < MaxId,
         nextID' = nextID + 1, UNCHANGED <<store, webhooks>>,
         \A d \in Clients \ {c} : req'[d] = req[d],
         \/ /\ req'[c].id = nextID + 1 /\ req'[c].refundID = 0
            /\ ~RefundTaken(c)'
         \/ /\ req'[c].id = req[c].id /\ req'[c].refundID = nextID + 1
            /\ ~Reserved(c) /\ ~Reserved(c)'
  PROVE  UniqueIds'
<1> DEFINE n == nextID + 1
<1>1. /\ nextID \in Nat /\ n \in Ids /\ n # 0
      /\ ~Exists(n)
      /\ \A id \in Ids : n \notin RefundIds(id)
      /\ \A w \in webhooks : w.id # n
      /\ \A d \in Clients : req[d].id # n /\ req[d].refundID # n
  <2>1. nextID \in Nat /\ n \in Ids /\ n # 0
    BY NextIdIsFresh, MaxIdAssumption DEF Ids
  <2>2. ~Exists(n)
    BY <2>1, NextIdIsFresh
  <2> QED
    BY <2>1, <2>2, NextIdIsFresh
<1>2. /\ \A id \in Ids : Exists(id)' = Exists(id)
      /\ \A id \in Ids : RefundIds(id)' = RefundIds(id)
      /\ webhooks' = webhooks
  BY DEF Exists, RefundIds
<1>3. \A d \in Clients \ {c} : /\ req'[d] = req[d]
                               /\ Reserved(d)' = Reserved(d)
                               /\ RefundTaken(d)' = RefundTaken(d)
  BY DEF Reserved, RefundTaken
<1>4. IdsBounded /\ ReservedIsNew /\ TakenRefundIsNew /\ RefundsAreApart
  BY DEF IdInv, UniqueIds
<1>5. \A d \in Clients : /\ req[d].id \in Nat /\ req[d].refundID \in Nat
                         /\ Reserved(d) => req[d].id \in Ids /\ req[d].id # 0
                         /\ RefundTaken(d) =>
                              req[d].refundID \in Ids /\ req[d].refundID # 0
  BY ClaimsInIds, MaxIdAssumption DEF IdInv, Ids
<1>6. nextID' = n
  OBVIOUS
<1>7. /\ \/ /\ req'[c].id = n /\ req'[c].refundID = 0
            /\ ~RefundTaken(c)'
         \/ /\ req'[c].id = req[c].id /\ req'[c].refundID = n
            /\ ~Reserved(c) /\ ~Reserved(c)'
      /\ \A x \in Nat : x <= nextID => x <= n
  BY <1>1
<1> HIDE DEF n
<1>8. IdsBounded'
  <2>1. \A d \in Clients : req'[d].id <= n /\ req'[d].refundID <= n
    <3> TAKE d \in Clients
    <3>1. req[d].id <= n /\ req[d].refundID <= n /\ n <= n /\ 0 <= n
      BY <1>1, <1>4, <1>5, <1>7 DEF IdsBounded, n
    <3> QED
      BY <1>3, <1>7, <3>1
  <2>2. \A id \in Ids : Exists(id)' => id <= n
    BY <1>1, <1>2, <1>4, <1>7, MaxIdAssumption DEF IdsBounded, Ids
  <2>3. \A id \in Ids : \A r \in RefundIds(id)' : r <= n
    <3> SUFFICES ASSUME NEW id \in Ids, NEW r \in RefundIds(id)
                 PROVE  r <= n
      BY <1>2
    <3>1. r \in Ids /\ r <= nextID
      BY <1>4, StoredRecord DEF IdInv, TypeInv, RefundIds, Record, RefundOp,
                                IdsBounded
    <3> QED
      BY <1>7, <3>1, MaxIdAssumption DEF Ids
  <2>4. \A w \in webhooks' : w.id <= n
    <3> SUFFICES ASSUME NEW w \in webhooks PROVE w.id <= n
      BY <1>2
    <3>1. w.id \in Ids /\ w.id <= nextID
      BY <1>4 DEF IdInv, TypeInv, TypeOK, Webhook, IdsBounded
    <3> QED
      BY <1>7, <3>1, MaxIdAssumption DEF Ids
  <2> QED
    BY <1>6, <2>1, <2>2, <2>3, <2>4 DEF IdsBounded
<1>9. ReservedIsNew'
  <2> SUFFICES ASSUME NEW a \in Clients, Reserved(a)'
               PROVE  /\ ~Exists(req[a].id)'
                      /\ \A id \in Ids : req'[a].id \notin RefundIds(id)'
                      /\ \A w \in webhooks' : w.id # req'[a].id
                      /\ \A d \in Clients \ {a} : /\ req'[d].id # req'[a].id
                                                  /\ req'[d].refundID # req'[a].id
    BY DEF ReservedIsNew
  <2>1. CASE a = c
    <3>1. req'[a].id = n
      BY <1>7, <2>1
    <3>2. ~Exists(req[a].id)'
      BY <1>1, <3>1 DEF Exists
    <3> QED
      BY <1>1, <1>2, <1>3, <2>1, <3>1, <3>2
  <2>2. CASE a # c
    <3>1. Reserved(a) /\ req'[a] = req[a] /\ req[a].id # 0 /\ req[a].id \in Ids
      BY <1>3, <1>5, <2>2
    <3>2. /\ ~Exists(req[a].id)
          /\ \A id \in Ids : req[a].id \notin RefundIds(id)
          /\ \A w \in webhooks : w.id # req[a].id
          /\ \A d \in Clients \ {a} : /\ req[d].id # req[a].id
                                      /\ req[d].refundID # req[a].id
      BY <1>4, <3>1 DEF ReservedIsNew
    <3>3. ~Exists(req[a].id)'
      BY <3>1, <3>2 DEF Exists
    <3>4. \A d \in Clients \ {a} : /\ req'[d].id # req'[a].id
                                   /\ req'[d].refundID # req'[a].id
      BY <1>1, <1>3, <1>7, <2>2, <3>1, <3>2
    <3> QED
      BY <1>2, <3>1, <3>2, <3>3, <3>4
  <2> QED
    BY <2>1, <2>2
<1>10. TakenRefundIsNew'
  <2> SUFFICES ASSUME NEW a \in Clients, RefundTaken(a)'
               PROVE  /\ ~Exists(req[a].refundID)'
                      /\ \A id \in Ids : req'[a].refundID \notin RefundIds(id)'
                      /\ \A d \in Clients \ {a} : RefundTaken(d)' =>
                           req'[d].refundID # req'[a].refundID
                      /\ \A d \in Clients : req'[d].id # req'[a].refundID
    BY DEF TakenRefundIsNew
  <2>1. CASE a = c
    <3>1. req'[a].refundID = n /\ req'[a].id = req[a].id
      BY <1>7, <2>1
    <3>2. ~Exists(req[a].refundID)'
      BY <1>1, <3>1 DEF Exists
    <3> QED
      BY <1>1, <1>2, <1>3, <2>1, <3>1, <3>2
  <2>2. CASE a # c
    <3>1. /\ RefundTaken(a) /\ req'[a] = req[a]
          /\ req[a].refundID # 0 /\ req[a].refundID \in Ids
      BY <1>3, <1>5, <2>2
    <3>2. /\ ~Exists(req[a].refundID)
          /\ \A id \in Ids : req[a].refundID \notin RefundIds(id)
          /\ \A d \in Clients \ {a} : RefundTaken(d) =>
               req[d].refundID # req[a].refundID
          /\ \A d \in Clients : req[d].id # req[a].refundID
      BY <1>4, <3>1 DEF TakenRefundIsNew
    <3>3. ~Exists(req[a].refundID)'
      BY <3>1, <3>2 DEF Exists
    <3>4. \A d \in Clients \ {a} : RefundTaken(d)' =>
            req'[d].refundID # req'[a].refundID
      BY <1>1, <1>3, <1>7, <3>1, <3>2
    <3>5. \A d \in Clients : req'[d].id # req'[a].refundID
      BY <1>1, <1>3, <1>7, <3>1, <3>2
    <3> QED
      BY <1>2, <3>1, <3>2, <3>3, <3>4, <3>5
  <2> QED
    BY <2>1, <2>2
<1>11. RefundsAreApart'
  <2>1. \A i \in Ids : \A r \in RefundIds(i) : Exists(r)' = Exists(r)
    BY DEF Exists
  <2> QED
    BY <1>2, <1>4, <2>1 DEF RefundsAreApart
<1> QED
  BY <1>8, <1>9, <1>10, <1>11 DEF UniqueIds

LEMMA OpenIds ==
  ASSUME IdInv, NEW c \in Clients, OpenPayment(c) \/ CreateSynthetic(c)
  PROVE  UniqueIds'
<1>1. PICK op \in Openers, sum \in Uint, to \in Statuses,
           then \in OpenerCalls \cup {"none"}, last \in {"none", "Force"},
           force \in Statuses : Open(c, op, sum, to, then, last, force)
  BY OpenersOpen DEF IdInv
<1> DEFINE n == [Idle EXCEPT !.call = "Create", !.then = then, !.last = last,
                             !.op = op, !.id = nextID + 1, !.sum = sum,
                             !.to = to, !.force = force]
<1>2. \A d \in Clients : req'[d] = IF d = c THEN n ELSE req[d]
  BY <1>1 DEF IdInv, TypeInv, TypeOK, Open
<1>3. n.call = "Create" /\ n.id = nextID + 1 /\ n.refundID = 0
  BY DEF Idle
<1> HIDE DEF n
<1>4. ~RefundTaken(c)'
  BY <1>2, <1>3 DEF RefundTaken
<1>5. /\ nextID < MaxId /\ nextID' = nextID + 1
      /\ UNCHANGED <<store, webhooks>>
  BY <1>1 DEF Open
<1>6. TypeInv'
  BY OpenerStep DEF IdInv
<1> QED
  BY <1>2, <1>3, <1>4, <1>5, <1>6, TakingIds

LEMMA TakeRefundIds ==
  ASSUME IdInv, NEW c \in Clients, TakeRefundID(c)
  PROVE  UniqueIds'
<1> DEFINE n == [req[c] EXCEPT !.call = "Refund", !.then = "none",
                               !.refundID = nextID + 1]
<1>1. \A d \in Clients : req'[d] = IF d = c THEN n ELSE req[d]
  BY DEF TakeRefundID, IdInv, TypeInv, TypeOK
<1>2. req[c] \in Request
  BY DEF IdInv, TypeInv, TypeOK
<1>3. n.call = "Refund" /\ n.id = req[c].id /\ n.refundID = nextID + 1
  BY <1>2 DEF Request
<1> HIDE DEF n
<1>4. ~Reserved(c) /\ ~Reserved(c)'
  BY <1>1, <1>3 DEF Reserved, TakeRefundID
<1>5. /\ nextID < MaxId /\ nextID' = nextID + 1
      /\ UNCHANGED <<store, webhooks>>
  BY DEF TakeRefundID
<1>6. TypeInv'
  BY TakeRefundIDStep DEF IdInv
<1> QED
  BY <1>1, <1>3, <1>4, <1>5, <1>6, TakingIds

LEMMA CreateIds ==
  ASSUME IdInv, NEW c \in Clients, Create(c)
  PROVE  UniqueIds'
<1> DEFINE i   == req[c].id
           new == NewRecord(BankOf(req[c].op),
                            IF req[c].then = "Get" THEN req[c].to ELSE "NEW",
                            req[c].sum)
<1>1. /\ Reserved(c) /\ i \in Ids /\ req[c].call # "NextID"
  BY ClaimsInIds DEF Create, Reserved, IdInv
<1>2. /\ store' = [store EXCEPT ![i] = new]
      /\ Continue(c)
      /\ nextID' = nextID
      /\ webhooks' = webhooks
  BY DEF Create
<1>3. TypeInv'
  BY CreateStep DEF IdInv
<1>4. new.refunds = {}
  BY DEF NewRecord
<1> HIDE DEF new
<1>5. \A id \in Ids : store'[id] = IF id = i THEN new ELSE store[id]
  BY <1>2 DEF IdInv, TypeInv, TypeOK
<1>6. \A id \in Ids : /\ RefundIds(id)' \subseteq RefundIds(id)
                      /\ id # i => Exists(id)' = Exists(id)
  BY <1>4, <1>5 DEF RefundIds, Exists
<1>7. QuietRequests
  BY <1>1, <1>2, ContinueIsQuiet DEF IdInv
<1>8. \A d \in Clients : /\ Reserved(d)' => Reserved(d) /\ req'[d] = req[d]
                         /\ RefundTaken(d)' => RefundTaken(d) /\ req'[d] = req[d]
  BY <1>7 DEF QuietRequests, Reserved, RefundTaken
<1>9. ~Reserved(c)'
  <2> DEFINE r == req[c]
             n == IF r.then = "none" THEN Idle
                  ELSE [r EXCEPT !.call = r.then, !.then = r.last, !.last = "none"]
  <2>1. req'[c] = n
    BY <1>2 DEF Continue, IdInv, TypeInv, TypeOK
  <2>2. r \in Request /\ Shaped(r)
    BY DEF IdInv, TypeInv, TypeOK, AllShaped
  <2>3. n.call # "Create"
    BY <2>2 DEF Shaped, Request, Idle, OpenerCalls
  <2> QED
    BY <2>1, <2>3 DEF Reserved
<1>10. IdsBounded /\ ReservedIsNew /\ TakenRefundIsNew /\ RefundsAreApart
  BY DEF IdInv, UniqueIds
<1>11. \A d \in Clients : /\ Reserved(d) => req[d].id \in Ids /\ req[d].id # 0
                          /\ RefundTaken(d) =>
                               req[d].refundID \in Ids /\ req[d].refundID # 0
  BY ClaimsInIds, MaxIdAssumption DEF IdInv, Ids
<1>12. \A d \in Clients : /\ req'[d].id \in {0, req[d].id}
                          /\ req'[d].refundID \in {0, req[d].refundID}
  <2> DEFINE r == req[c]
             n == IF r.then = "none" THEN Idle
                  ELSE [r EXCEPT !.call = r.then, !.then = r.last, !.last = "none"]
  <2>1. \A d \in Clients : req'[d] = IF d = c THEN n ELSE req[d]
    BY <1>2 DEF Continue, IdInv, TypeInv, TypeOK
  <2>2. r \in Request
    BY DEF IdInv, TypeInv, TypeOK
  <2>3. n.id \in {0, r.id} /\ n.refundID \in {0, r.refundID}
    BY <2>2 DEF Request, Idle
  <2> HIDE DEF n
  <2> QED
    BY <2>1, <2>3
<1>13. /\ \A id \in Ids : i \notin RefundIds(id)
       /\ \A d \in Clients \ {c} : /\ req[d].id # i
                                   /\ req[d].refundID # i
  BY <1>1, <1>10 DEF ReservedIsNew
<1>14. IdsBounded'
  <2>1. \A d \in Clients : req'[d].id <= nextID /\ req'[d].refundID <= nextID
    <3> TAKE d \in Clients
    <3>1. req[d].id <= nextID /\ req[d].refundID <= nextID /\ 0 <= nextID
      BY <1>10 DEF IdsBounded, IdInv, TypeInv, TypeOK
    <3> QED
      BY <1>12, <3>1
  <2>2. \A id \in Ids : Exists(id)' => id <= nextID
    BY <1>6, <1>10 DEF IdsBounded
  <2> QED
    BY <1>2, <1>6, <1>10, <2>1, <2>2 DEF IdsBounded
<1>15. ReservedIsNew'
  <2> SUFFICES ASSUME NEW a \in Clients, Reserved(a)'
               PROVE  /\ ~Exists(req[a].id)'
                      /\ \A id \in Ids : req'[a].id \notin RefundIds(id)'
                      /\ \A w \in webhooks' : w.id # req'[a].id
                      /\ \A d \in Clients \ {a} : /\ req'[d].id # req'[a].id
                                                  /\ req'[d].refundID # req'[a].id
    BY DEF ReservedIsNew
  <2>1. /\ a # c /\ Reserved(a) /\ req'[a] = req[a]
        /\ req[a].id \in Ids /\ req[a].id # 0 /\ req[a].id # i
    BY <1>8, <1>9, <1>11, <1>13
  <2>2. /\ ~Exists(req[a].id)
        /\ \A id \in Ids : req[a].id \notin RefundIds(id)
        /\ \A w \in webhooks : w.id # req[a].id
        /\ \A d \in Clients \ {a} : /\ req[d].id # req[a].id
                                    /\ req[d].refundID # req[a].id
    BY <1>10, <2>1 DEF ReservedIsNew
  <2>3. ~Exists(req[a].id)'
    BY <1>5, <2>1, <2>2 DEF Exists
  <2>4. \A d \in Clients \ {a} : /\ req'[d].id # req'[a].id
                                 /\ req'[d].refundID # req'[a].id
    BY <1>12, <2>1, <2>2
  <2> QED
    BY <1>2, <1>6, <2>1, <2>2, <2>3, <2>4
<1>16. TakenRefundIsNew'
  <2> SUFFICES ASSUME NEW a \in Clients, RefundTaken(a)'
               PROVE  /\ ~Exists(req[a].refundID)'
                      /\ \A id \in Ids : req'[a].refundID \notin RefundIds(id)'
                      /\ \A d \in Clients \ {a} : RefundTaken(d)' =>
                           req'[d].refundID # req'[a].refundID
                      /\ \A d \in Clients : req'[d].id # req'[a].refundID
    BY DEF TakenRefundIsNew
  <2>1. /\ RefundTaken(a) /\ req'[a] = req[a]
        /\ req[a].refundID \in Ids /\ req[a].refundID # 0
    BY <1>8, <1>11
  <2>2. /\ ~Exists(req[a].refundID)
        /\ \A id \in Ids : req[a].refundID \notin RefundIds(id)
        /\ \A d \in Clients \ {a} : RefundTaken(d) =>
             req[d].refundID # req[a].refundID
        /\ \A d \in Clients : req[d].id # req[a].refundID
    BY <1>10, <2>1 DEF TakenRefundIsNew
  <2>3. ~Exists(req[a].refundID)'
    BY <1>5, <2>1, <2>2 DEF Exists
  <2>4. \A d \in Clients \ {a} : RefundTaken(d)' =>
          req'[d].refundID # req'[a].refundID
    BY <1>8, <2>1, <2>2
  <2>5. \A d \in Clients : req'[d].id # req'[a].refundID
    BY <1>12, <2>1, <2>2
  <2> QED
    BY <1>6, <2>1, <2>2, <2>3, <2>4, <2>5
<1>17. RefundsAreApart'
  <2>1. \A j \in Ids : \A x \in RefundIds(j)' : x \in Ids /\ x # i /\ ~Exists(x)
    <3> SUFFICES ASSUME NEW j \in Ids, NEW x \in RefundIds(j)
                 PROVE  x \in Ids /\ x # i /\ ~Exists(x)
      BY <1>6
    <3>1. x \in Ids
      BY StoredRecord DEF IdInv, TypeInv, RefundIds, Record, RefundOp
    <3> QED
      BY <1>10, <1>13, <3>1 DEF RefundsAreApart
  <2>2. \A j \in Ids : \A x \in RefundIds(j)' : ~Exists(x)'
    BY <1>6, <2>1
  <2> QED
    BY <1>6, <1>10, <2>2 DEF RefundsAreApart
<1> QED
  BY <1>14, <1>15, <1>16, <1>17 DEF UniqueIds

LEMMA RefundedKeepsRefunds ==
  ASSUME NEW rec \in Record, NEW delta
  PROVE  Refunded(rec, delta).refunds = rec.refunds
BY DEF Refunded, Moved, Record

\* Storing a refund: its id leaves the request and enters the payment.
LEMMA RevokeIds ==
  ASSUME IdInv, NEW c \in Clients, CommitRevoke(c)
  PROVE  UniqueIds'
<1> DEFINE r         == req[c]
           op(ok)    == [id |-> r.refundID, amount |-> -AsInt(r.sum), ok |-> ok]
           noted(ok) == [store[r.id] EXCEPT !.refunds = @ \cup {op(ok)}]
           rec(ok)   == IF ok THEN Refunded(noted(ok), r.sum) ELSE noted(ok)
<1>1. PICK ok \in BOOLEAN : Update(c, rec(ok))
  BY DEF CommitRevoke
<1>2. /\ r.sum \in Uint /\ r.call = "Refund" /\ r.op = "Revoke"
      /\ RefundTaken(c) /\ Shaped(r)
  BY DEF CommitRevoke, RefundTaken, IdInv, TypeInv, TypeOK, Request, AllShaped
<1>3. r.id \in Ids /\ r.refundID \in Ids /\ r.refundID # 0 /\ r.then = "none"
  BY <1>2, MaxIdAssumption DEF Shaped, Idle, OneCallOps, Openers, Ids
<1>4. TypeInv'
  BY RevokeStep DEF IdInv
<1>5. CASE ~Exists(r.id)
  <2>1. Return(c) /\ UNCHANGED <<store, nextID, webhooks>>
    BY <1>1, <1>5 DEF Update
  <2>2. QuietStore /\ QuietWebhooks
    BY <2>1 DEF QuietStore, QuietWebhooks, Exists, RefundIds
  <2> QED
    BY <1>4, <2>1, <2>2, ReturnIsQuiet, QuietStep DEF IdInv
<1>6. CASE Exists(r.id)
  <2>1. /\ store' = [store EXCEPT ![r.id] = rec(ok)]
        /\ Continue(c)
        /\ Notify(r.op, r.id, rec(ok))
        /\ nextID' = nextID
    BY <1>1, <1>6 DEF Update
  <2>2. PICK i \in Ids : i = r.id
    BY <1>3
  <2>3. PICK k \in Ids : k = r.refundID
    BY <1>3
  <2>4. store[i] \in Record /\ op(ok) \in RefundOp /\ op(ok).id = k
    BY <1>2, <1>6, <2>2, <2>3, StoredRecord, RefundOpType
    DEF IdInv, TypeInv
  <2> HIDE DEF op
  <2>5. noted(ok) \in Record
    BY <2>2, <2>4, NotedType
  <2>6. noted(ok).refunds = store[i].refunds \cup {op(ok)}
    BY <2>2, <2>4 DEF Record
  <2> HIDE DEF noted
  <2>7. rec(ok) \in Record /\ rec(ok).refunds = store[i].refunds \cup {op(ok)}
    <3>1. CASE ok
      <4>1. rec(ok) = Refunded(noted(ok), r.sum)
        BY <3>1
      <4> HIDE DEF rec
      <4> QED
        BY <1>2, <2>5, <2>6, <4>1, RefundedType, RefundedKeepsRefunds
    <3>2. CASE ~ok
      BY <2>5, <2>6, <3>2
    <3> QED
      BY <3>1, <3>2
  <2> HIDE DEF rec
  <2>8. \A id \in Ids : store'[id] = IF id = i THEN rec(ok) ELSE store[id]
    BY <2>1, <2>2 DEF IdInv, TypeInv, TypeOK
  <2>9. /\ rec(ok) # NoPayment /\ Exists(i)
        /\ {x.id : x \in rec(ok).refunds} = {x.id : x \in store[i].refunds} \cup {k}
    BY <1>6, <2>2, <2>4, <2>7, NoPaymentAssumption
  <2>10. \A id \in Ids : Exists(id)' = Exists(id)
    BY <2>8, <2>9 DEF Exists
  <2>11. \A id \in Ids : RefundIds(id)' =
           IF id = i THEN RefundIds(id) \cup {k} ELSE RefundIds(id)
    <3>1. \A id \in Ids \ {i} : RefundIds(id)' = RefundIds(id)
      BY <2>8 DEF RefundIds, Exists
    <3>2. RefundIds(i)' = RefundIds(i) \cup {k}
      <4>1. store'[i] = rec(ok) /\ store'[i] # NoPayment
        BY <2>8, <2>9
      <4>2. RefundIds(i)' = {x.id : x \in rec(ok).refunds}
        BY <4>1 DEF RefundIds, Exists
      <4>3. RefundIds(i) = {x.id : x \in store[i].refunds}
        BY <2>9 DEF RefundIds
      <4> QED
        BY <2>9, <4>2, <4>3
    <3> QED
      BY <3>1, <3>2
  <2>12. \A d \in Clients : req'[d] = IF d = c THEN Idle ELSE req[d]
    BY <1>3, <2>1 DEF Continue, IdInv, TypeInv, TypeOK
  <2>13. \A w \in webhooks' : w \in webhooks \/ w.id = i
    BY <2>1, <2>2 DEF Notify, Spawn
  <2>14. IdsBounded /\ ReservedIsNew /\ TakenRefundIsNew /\ RefundsAreApart
    BY DEF IdInv, UniqueIds
  <2>15. /\ ~Exists(k) /\ k <= nextID /\ 0 <= nextID
         /\ \A id \in Ids : k \notin RefundIds(id)
         /\ \A d \in Clients \ {c} : RefundTaken(d) => req[d].refundID # k
         /\ \A d \in Clients : req[d].id # k
    BY <1>2, <2>3, <2>14 DEF TakenRefundIsNew, IdsBounded, IdInv, TypeInv, TypeOK
  <2>16. ~Reserved(c)' /\ ~RefundTaken(c)'
    BY <2>12 DEF Idle, Reserved, RefundTaken
  <2>17. \A d \in Clients : /\ Reserved(d)' => /\ d # c /\ Reserved(d)
                                               /\ req'[d] = req[d]
                                               /\ req[d].id \in Ids /\ req[d].id # 0
                            /\ RefundTaken(d)' => /\ d # c /\ RefundTaken(d)
                                                  /\ req'[d] = req[d]
                                                  /\ req[d].refundID \in Ids
                                                  /\ req[d].refundID # 0
    BY <2>12, <2>16, ClaimsInIds, MaxIdAssumption
    DEF IdInv, Ids, Reserved, RefundTaken
  <2>18. IdsBounded'
    <3>1. \A d \in Clients : req'[d].id <= nextID /\ req'[d].refundID <= nextID
      BY <2>12, <2>14, <2>15 DEF Idle, IdsBounded
    <3>2. \A w \in webhooks' : w.id <= nextID
      BY <2>9, <2>13, <2>14 DEF IdsBounded
    <3>3. \A id \in Ids : \A x \in RefundIds(id)' : x <= nextID
      BY <2>11, <2>14, <2>15 DEF IdsBounded
    <3> QED
      BY <2>1, <2>10, <2>14, <3>1, <3>2, <3>3 DEF IdsBounded
  <2>19. ReservedIsNew'
    <3> SUFFICES ASSUME NEW a \in Clients, Reserved(a)'
                 PROVE  /\ ~Exists(req[a].id)'
                        /\ \A id \in Ids : req'[a].id \notin RefundIds(id)'
                        /\ \A w \in webhooks' : w.id # req'[a].id
                        /\ \A d \in Clients \ {a} : /\ req'[d].id # req'[a].id
                                                    /\ req'[d].refundID # req'[a].id
      BY DEF ReservedIsNew
    <3>1. /\ a # c /\ Reserved(a) /\ req'[a] = req[a]
          /\ req[a].id \in Ids /\ req[a].id # 0 /\ req[a].id # k
      BY <2>15, <2>17
    <3>2. /\ ~Exists(req[a].id)
          /\ \A id \in Ids : req[a].id \notin RefundIds(id)
          /\ \A w \in webhooks : w.id # req[a].id
          /\ \A d \in Clients \ {a} : /\ req[d].id # req[a].id
                                      /\ req[d].refundID # req[a].id
      BY <2>14, <3>1 DEF ReservedIsNew
    <3>3. ~Exists(req[a].id)'
      BY <2>8, <2>9, <3>1, <3>2 DEF Exists
    <3>4. \A w \in webhooks' : w.id # req'[a].id
      BY <2>9, <2>13, <3>1, <3>2
    <3>5. \A d \in Clients \ {a} : /\ req'[d].id # req'[a].id
                                   /\ req'[d].refundID # req'[a].id
      BY <2>12, <3>1, <3>2 DEF Idle
    <3> QED
      BY <2>11, <3>1, <3>2, <3>3, <3>4, <3>5
  <2>20. TakenRefundIsNew'
    <3> SUFFICES ASSUME NEW a \in Clients, RefundTaken(a)'
                 PROVE  /\ ~Exists(req[a].refundID)'
                        /\ \A id \in Ids : req'[a].refundID \notin RefundIds(id)'
                        /\ \A d \in Clients \ {a} : RefundTaken(d)' =>
                             req'[d].refundID # req'[a].refundID
                        /\ \A d \in Clients : req'[d].id # req'[a].refundID
      BY DEF TakenRefundIsNew
    <3>1. /\ a # c /\ RefundTaken(a) /\ req'[a] = req[a]
          /\ req[a].refundID \in Ids /\ req[a].refundID # 0
      BY <2>17
    <3>2. /\ ~Exists(req[a].refundID)
          /\ \A id \in Ids : req[a].refundID \notin RefundIds(id)
          /\ \A d \in Clients \ {a} : RefundTaken(d) =>
               req[d].refundID # req[a].refundID
          /\ \A d \in Clients : req[d].id # req[a].refundID
      BY <2>14, <3>1 DEF TakenRefundIsNew
    <3>3. req[a].refundID # k
      BY <2>15, <3>1
    <3>4. ~Exists(req[a].refundID)'
      BY <2>8, <2>9, <3>1, <3>2 DEF Exists
    <3>5. \A d \in Clients \ {a} : RefundTaken(d)' =>
            req'[d].refundID # req'[a].refundID
      BY <2>17, <3>1, <3>2
    <3>6. \A d \in Clients : req'[d].id # req'[a].refundID
      BY <2>12, <3>1, <3>2 DEF Idle
    <3> QED
      BY <2>11, <3>1, <3>2, <3>3, <3>4, <3>5, <3>6
  <2>21. RefundsAreApart'
    <3> SUFFICES ASSUME NEW a \in Ids, NEW b \in Ids
                 PROVE  /\ \A x \in RefundIds(a)' : ~Exists(x)'
                        /\ a # b => RefundIds(a)' \cap RefundIds(b)' = {}
      BY DEF RefundsAreApart
    <3>1. /\ \A x \in RefundIds(a) : ~Exists(x)
          /\ a # b => RefundIds(a) \cap RefundIds(b) = {}
      BY <2>14 DEF RefundsAreApart
    <3>2. \A x \in RefundIds(a)' : x \in Ids
      <4>1. \A x \in RefundIds(a) : x \in Ids
        BY StoredRecord DEF IdInv, TypeInv, RefundIds, Record, RefundOp
      <4> QED
        BY <2>11, <4>1
    <3>3. \A x \in RefundIds(a)' : ~Exists(x)'
      BY <2>10, <2>11, <2>15, <3>1, <3>2
    <3> QED
      BY <2>11, <2>15, <3>1, <3>3
  <2> QED
    BY <2>18, <2>19, <2>20, <2>21 DEF UniqueIds
<1> QED
  BY <1>5, <1>6

LEMMA IdInvInit == Init => IdInv
<1> SUFFICES ASSUME Init PROVE IdInv
  OBVIOUS
<1>1. UniqueIds
  BY DEF Init, UniqueIds, IdsBounded, ReservedIsNew, TakenRefundIsNew,
         RefundsAreApart, Exists, RefundIds, Reserved, RefundTaken, Idle
<1> QED
  BY <1>1, TypeInvInit DEF IdInv

LEMMA IdInvNext == IdInv /\ [Next]_vars => IdInv'
<1> SUFFICES ASSUME IdInv, [Next]_vars PROVE UniqueIds'
  BY TypeInvNext DEF IdInv
<1>1. ASSUME NEW c \in Clients, OpenPayment(c) \/ CreateSynthetic(c)
      PROVE  UniqueIds'
  BY <1>1, OpenIds
<1>2. ASSUME NEW c \in Clients, RepositoryCall(c) PROVE UniqueIds'
  <2>1. CASE ReadBack(c)
    <3>1. QuietRequests /\ TypeInv'
      BY <2>1, ReturnIsQuiet, ReadBackStep DEF ReadBack, IdInv
    <3>2. nextID' = nextID /\ QuietStore /\ QuietWebhooks
      BY <2>1 DEF ReadBack, QuietStore, QuietWebhooks, Exists, RefundIds
    <3> QED
      BY <3>1, <3>2, QuietStep
  <2> QED
    BY <1>2, <2>1, CreateIds, TransitionIds, CommitIds, RevokeIds, TakeRefundIds
    DEF RepositoryCall
<1>3. ASSUME NEW c \in Clients, NEW id \in Ids, StartMethod(c, id)
      PROVE  UniqueIds'
  <2>1. CASE ProceedingMethod(c, id)
    BY <2>1, MethodIds
  <2>2. CASE FlittComplete3DS(c, id)
    BY <2>2, MethodIds, OtherQuietIds
  <2>3. CASE ConfirmDeclined(c, id)
    BY <2>3, OtherQuietIds
  <2> QED
    BY <1>3, <2>1, <2>2, <2>3 DEF StartMethod, ProceedingMethod
<1>4. ASSUME NEW c \in Clients, PanelAction(c) PROVE UniqueIds'
  <2>1. CASE ForceSynthetic(c)
    <3>1. req[c].id \in Ids
      BY <2>1 DEF ForceSynthetic, IdInv, TypeInv, AllShaped, Shaped, Idle
    <3> QED
      BY <2>1, <3>1, OtherQuietIds
  <2> QED
    BY <1>4, <2>1, OpenIds, OtherQuietIds DEF PanelAction
<1>5. ASSUME NEW w \in webhooks, DeliverWebhook(w) \/ LoseWebhook(w)
      PROVE  UniqueIds'
  BY <1>5, WebhookIds
<1>6. CASE Reset
  BY <1>6, ResetIds
<1>7. CASE UNCHANGED vars
  BY <1>7 DEF vars, IdInv, UniqueIds, IdsBounded, ReservedIsNew,
              TakenRefundIsNew, RefundsAreApart, Exists, RefundIds, Reserved,
              RefundTaken
<1> QED
  BY <1>1, <1>2, <1>3, <1>4, <1>5, <1>6, <1>7 DEF Next, GatewayNext

\* No two payments and refunds ever share an id, and no request ever stores
\* a payment or a refund under an id that means something else, although
\* ids are handed out by a counter outside the repository's lock and stored
\* later, after any number of other requests, panel actions and resets.
THEOREM IdsAreUnique == Spec => []UniqueIds
<1>1. IdInv => UniqueIds
  BY DEF IdInv
<1> QED
  BY <1>1, IdInvInit, IdInvNext, PTL DEF Spec
=============================================================================
