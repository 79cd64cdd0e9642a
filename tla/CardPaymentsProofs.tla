------------------------- MODULE CardPaymentsProofs -------------------------
(***************************************************************************)
(* Theorems about CardPayments for every number of clients, ids, amounts   *)
(* and every word size, checked by TLAPS.                                  *)
(***************************************************************************)
EXTENDS CardPayments, TLAPS

-----------------------------------------------------------------------------
(* The pure operators stay within their types *)

\* Go's uint addition and subtraction return a uint.
LEMMA UintClosed ==
  ASSUME NEW a \in Uint, NEW b \in Uint
  PROVE  Plus(a, b) \in Uint /\ Minus(a, b) \in Uint
BY WordAssumption DEF Uint, Plus, Minus

\* The amount of a refund operation is what it is made of.
LEMMA RefundOpType ==
  ASSUME NEW i \in Ids, NEW u \in Uint, NEW ok \in BOOLEAN
  PROVE  [id |-> i, amount |-> -AsInt(u), ok |-> ok] \in RefundOp
BY DEF RefundOp

\* repo.Create stores a record.
LEMMA NewRecordType ==
  ASSUME NEW bank \in Banks, NEW s \in Statuses, NEW amount \in Uint
  PROVE  NewRecord(bank, s, amount) \in Record
<1>1. 0 \in Uint
  BY WordAssumption DEF Uint
<1> QED
  BY <1>1 DEF NewRecord, Record

\* A status change keeps a record a record.
LEMMA MovedType ==
  ASSUME NEW rec \in Record, NEW to \in Statuses
  PROVE  Moved(rec, to) \in Record
BY DEF Moved, Record

\* So do the callbacks of the capture, ...
LEMMA CapturedType ==
  ASSUME NEW rec \in Record, NEW target \in Uint
  PROVE  Captured(rec, target) \in Record
<1>1. [rec EXCEPT !.captured = target] \in Record
  BY DEF Record
<1>2. "CAPTURED" \in Statuses
  BY DEF Statuses
<1> QED
  BY <1>1, <1>2, MovedType DEF Captured

\* ... of the refund ...
LEMMA RefundedType ==
  ASSUME NEW rec \in Record, NEW delta \in Uint
  PROVE  Refunded(rec, delta) \in Record
<1> DEFINE total == Plus(rec.refunded, delta)
<1>1. total \in Uint
  BY UintClosed DEF Record
<1> HIDE DEF total
<1>2. [rec EXCEPT !.refunded = total] \in Record
  BY <1>1 DEF Record
<1>3. (IF total >= rec.captured THEN "REFUNDED" ELSE "PARTIAL_REFUNDED")
        \in Statuses
  BY DEF Statuses
<1>4. Moved([rec EXCEPT !.refunded = total],
            IF total >= rec.captured THEN "REFUNDED" ELSE "PARTIAL_REFUNDED")
        \in Record
  BY <1>2, <1>3, MovedType
<1> QED
  BY <1>4 DEF Refunded, total

\* ... and of the panel's force.
LEMMA ForcedType ==
  ASSUME NEW rec \in Record, NEW target \in Statuses
  PROVE  Forced(rec, target) \in Record
<1> DEFINE base ==
      [rec EXCEPT
        !.captured = IF target = "CAPTURED" /\ @ = 0 THEN rec.amount ELSE @,
        !.refunded = IF target = "REFUNDED" THEN rec.captured ELSE @]
<1>1. base \in Record
  BY DEF Record
<1> HIDE DEF base
<1>2. Moved(base, target) \in Record
  BY <1>1, MovedType
<1> QED
  BY <1>2 DEF Forced, base

\* What a refund asks for is a uint.
LEMMA RefundDeltaType ==
  ASSUME NEW rec \in Record, NEW asked \in Uint
  PROVE  RefundDelta(rec, asked) \in Uint
BY UintClosed DEF RefundDelta, Record

-----------------------------------------------------------------------------
(* The building blocks of the actions preserve the types *)

\* What the store holds under an id it does not call NoPayment.
LEMMA StoredRecord ==
  ASSUME TypeOK, NEW id \in Ids, Exists(id)
  PROVE  store[id] \in Record
BY DEF TypeOK, Exists

LEMMA StoredRecordFields ==
  ASSUME TypeOK, NEW id \in Ids, Exists(id)
  PROVE  /\ store[id] \in Record
         /\ store[id].amount \in Uint
         /\ store[id].status \in Statuses
         /\ store[id].bank \in Banks
BY StoredRecord DEF Record

LEMMA IdleType == Idle \in Request
<1>1. 0 \in Uint /\ 0 \in 0 .. MaxId
  BY WordAssumption, MaxIdAssumption DEF Uint
<1> QED
  BY <1>1 DEF Idle, Request, Calls, Ops, Statuses

\* A method that returns leaves a well-typed request behind, ...
LEMMA ReturnType ==
  ASSUME TypeOK, NEW c \in Clients, Return(c)
  PROVE  req' \in [Clients -> Request]
BY IdleType DEF TypeOK, Return

\* ... and so does one that goes on to its next call.
LEMMA ContinueType ==
  ASSUME TypeOK, NEW c \in Clients, Continue(c)
  PROVE  req' \in [Clients -> Request]
<1> DEFINE r == req[c]
<1>1. r \in Request
  BY DEF TypeOK
<1>2. "none" \in Calls
  BY DEF Calls
<1>3. [r EXCEPT !.call = r.then, !.then = r.last, !.last = "none"] \in Request
  BY <1>1, <1>2 DEF Request
<1> QED
  BY <1>3, IdleType DEF TypeOK, Continue

\* The request a method leaves for its later calls.
LEMMA ProceedType ==
  ASSUME TypeOK, NEW c \in Clients, NEW op \in Ops, NEW id \in Ids,
         NEW call \in Calls, NEW then \in Calls, NEW sum \in Uint,
         NEW to \in Statuses,
         Proceed(c, op, id, call, then, sum, to)
  PROVE  TypeOK'
<1> DEFINE r == [Idle EXCEPT !.call = call, !.then = then, !.op = op,
                             !.id = id, !.sum = sum, !.to = to]
<1>1. id \in 0 .. MaxId
  BY MaxIdAssumption DEF Ids
<1>2. r \in Request
  BY <1>1, IdleType DEF Request
<1> HIDE DEF r
<1>3. req' = [req EXCEPT ![c] = r] /\ UNCHANGED <<store, nextID, webhooks>>
  BY DEF Proceed, r
<1> QED
  BY <1>2, <1>3 DEF TypeOK

LEMMA OpenType ==
  ASSUME TypeOK, NEW c \in Clients, NEW op \in Ops, NEW sum \in Uint,
         NEW to \in Statuses, NEW then \in Calls, NEW last \in Calls,
         NEW force \in Statuses,
         Open(c, op, sum, to, then, last, force)
  PROVE  TypeOK'
<1> DEFINE r == [Idle EXCEPT !.call = "Create", !.then = then, !.last = last,
                             !.op = op, !.id = nextID + 1, !.sum = sum,
                             !.to = to, !.force = force]
<1>1. nextID + 1 \in 0 .. MaxId
  BY MaxIdAssumption DEF TypeOK, Open
<1>2. "Create" \in Calls
  BY DEF Calls
<1>3. r \in Request
  BY <1>1, <1>2, IdleType DEF Request
<1> HIDE DEF r
<1>4. /\ req' = [req EXCEPT ![c] = r]
      /\ nextID' = nextID + 1
      /\ UNCHANGED <<store, webhooks>>
  BY DEF Open, r
<1> QED
  BY <1>1, <1>3, <1>4 DEF TypeOK

\* The goroutine a method starts sends a status of a record.
LEMMA SpawnType ==
  ASSUME TypeOK, NEW id \in Ids, NEW rec \in Record, NEW marks \in BOOLEAN,
         NEW on, Spawn(id, rec, marks, on)
  PROVE  webhooks' \in SUBSET Webhook
<1>1. [id |-> id, status |-> rec.status, marks |-> marks] \in Webhook
  BY DEF Webhook, Record
<1> QED
  BY <1>1 DEF TypeOK, Spawn

LEMMA NotifyType ==
  ASSUME TypeOK, NEW op, NEW id \in Ids, NEW rec \in Record, Notify(op, id, rec)
  PROVE  webhooks' \in SUBSET Webhook
BY SpawnType DEF Notify

-----------------------------------------------------------------------------
(* Type correctness *)

\* TypeOK is not inductive: nothing in it says that a pending call is made
\* for an id, or that a refund about to be written has taken one.  Shaped
\* adds which calls each method can have left.
OpenerCalls == {"Transition", "Fail", "Challenge", "Get", "Force"}
OneCallOps  == Ops \ (Openers \cup {"Revoke", "none"})

Shaped(r) ==
  \/ r = Idle
  \/ /\ r.op \in Openers /\ r.id \in Ids
     /\ r.call \in OpenerCalls \cup {"Create"}
     /\ r.then \in OpenerCalls \cup {"none"}
     /\ r.last \in {"none", "Force"}
  \/ /\ r.op = "Revoke" /\ r.id \in Ids
     /\ r.call = "NextID" /\ r.then = "Refund" /\ r.last = "none"
  \/ /\ r.op = "Revoke" /\ r.id \in Ids /\ r.refundID \in Ids
     /\ r.call = "Refund" /\ r.then = "none" /\ r.last = "none"
  \/ /\ r.op \in OneCallOps /\ r.id \in Ids
     /\ r.call \in {"Transition", "Capture", "Refund", "SetKind"}
     /\ r.then \in {"none", "SetKind"} /\ r.last = "none"
     /\ r.call = "Refund" => r.op \in {"EpayRefund", "FlittReverse"}

AllShaped == \A c \in Clients : Shaped(req[c])

TypeInv == TypeOK /\ AllShaped

LEMMA ReturnShaped ==
  ASSUME TypeInv, NEW c \in Clients, Return(c)
  PROVE  AllShaped'
<1>1. \A d \in Clients : req'[d] = IF d = c THEN Idle ELSE req[d]
  BY DEF TypeInv, TypeOK, Return
<1> QED
  BY <1>1 DEF TypeInv, AllShaped, Shaped

LEMMA ContinueShaped ==
  ASSUME TypeInv, NEW c \in Clients, Continue(c), req[c].call # "NextID"
  PROVE  AllShaped'
<1> DEFINE r == req[c]
           n == IF r.then = "none" THEN Idle
                ELSE [r EXCEPT !.call = r.then, !.then = r.last, !.last = "none"]
<1>1. \A d \in Clients : req'[d] = IF d = c THEN n ELSE req[d]
  BY DEF TypeInv, TypeOK, Continue
<1>2. r \in Request /\ Shaped(r)
  BY DEF TypeInv, TypeOK, AllShaped
<1>3. Shaped(n)
  <2>1. CASE r.then = "none"
    BY <2>1 DEF Shaped
  <2>2. CASE r.then # "none"
    <3>1. /\ n.call = r.then /\ n.then = r.last /\ n.last = "none"
          /\ n.op = r.op /\ n.id = r.id
      BY <1>2, <2>2 DEF Request
    <3> HIDE DEF n
    <3> QED
      BY <1>2, <2>2, <3>1 DEF Shaped, Idle, OpenerCalls
  <2> QED
    BY <2>1, <2>2
<1> HIDE DEF n
<1> QED
  BY <1>1, <1>3 DEF TypeInv, AllShaped

LEMMA ProceedShaped ==
  ASSUME TypeInv, NEW c \in Clients, NEW op, NEW id \in Ids, NEW call, NEW then,
         NEW sum, NEW to, Proceed(c, op, id, call, then, sum, to),
         \/ op = "Revoke" /\ call = "NextID" /\ then = "Refund"
         \/ /\ op \in OneCallOps
            /\ call \in {"Transition", "Capture", "Refund"}
            /\ call = "Refund" => op \in {"EpayRefund", "FlittReverse"}
            /\ then \in {"none", "SetKind"}
  PROVE  AllShaped'
<1> DEFINE n == [Idle EXCEPT !.call = call, !.then = then, !.op = op,
                             !.id = id, !.sum = sum, !.to = to]
<1>1. \A d \in Clients : req'[d] = IF d = c THEN n ELSE req[d]
  BY DEF TypeInv, TypeOK, Proceed
<1>2. /\ n.call = call /\ n.then = then /\ n.last = "none"
      /\ n.op = op /\ n.id = id
  BY DEF Idle
<1> HIDE DEF n
<1>3. Shaped(n)
  BY <1>2 DEF Shaped
<1> QED
  BY <1>1, <1>3 DEF TypeInv, AllShaped

LEMMA OpenShaped ==
  ASSUME TypeInv, NEW c \in Clients, NEW op \in Openers, NEW sum, NEW to,
         NEW then \in OpenerCalls \cup {"none"}, NEW last \in {"none", "Force"},
         NEW force, Open(c, op, sum, to, then, last, force)
  PROVE  AllShaped'
<1> DEFINE n == [Idle EXCEPT !.call = "Create", !.then = then, !.last = last,
                             !.op = op, !.id = nextID + 1, !.sum = sum,
                             !.to = to, !.force = force]
<1>1. \A d \in Clients : req'[d] = IF d = c THEN n ELSE req[d]
  BY DEF TypeInv, TypeOK, Open
<1>2. /\ n.call = "Create" /\ n.then = then /\ n.last = last
      /\ n.op = op /\ n.id = nextID + 1
  BY DEF Idle
<1>3. nextID + 1 \in Ids
  BY MaxIdAssumption DEF TypeInv, TypeOK, Open, Ids
<1> HIDE DEF n
<1>4. Shaped(n)
  BY <1>2, <1>3 DEF Shaped
<1> QED
  BY <1>1, <1>4 DEF TypeInv, AllShaped

\* Every opener is an Open with arguments of the right types.
LEMMA OpenersOpen ==
  ASSUME TypeInv, NEW c \in Clients, OpenPayment(c) \/ CreateSynthetic(c)
  PROVE  \E op \in Openers, sum \in Uint, to \in Statuses,
            then \in OpenerCalls \cup {"none"}, last \in {"none", "Force"},
            force \in Statuses : Open(c, op, sum, to, then, last, force)
<1>1. \A a \in Amounts : a \in Uint
  BY AmountsAssumption
<1>2. 0 \in Uint
  BY AmountsAssumption
<1> USE DEF Openers, OpenerCalls
<1>3. "NEW" \in Statuses /\ "AUTHORIZED" \in Statuses /\ "CAPTURED" \in Statuses
        /\ "FAILED" \in Statuses
  BY DEF Statuses
<1>4. CASE HoldInit(c) \/ CreateHosted(c) \/ CreateBind(c) \/ FlittCheckout(c)
  BY <1>1, <1>2, <1>3, <1>4 DEF HoldInit, CreateHosted, CreateBind, FlittCheckout
<1>5. CASE EpayAuthorize(c) \/ EpayDecline(c) \/ EpayLateOperation(c)
  BY <1>1, <1>3, <1>5 DEF EpayAuthorize, EpayDecline, EpayLateOperation
<1>6. CASE FlittDirect(c) \/ FlittRecurring(c)
  BY <1>1, <1>3, <1>6 DEF FlittDirect, FlittRecurring
<1>7. CASE CreateSynthetic(c)
  BY <1>1, <1>3, <1>7 DEF CreateSynthetic
<1> QED
  BY <1>4, <1>5, <1>6, <1>7 DEF OpenPayment

LEMMA OpenerStep ==
  ASSUME TypeInv, NEW c \in Clients, OpenPayment(c) \/ CreateSynthetic(c)
  PROVE  TypeInv'
<1>1. PICK op \in Openers, sum \in Uint, to \in Statuses,
           then \in OpenerCalls \cup {"none"}, last \in {"none", "Force"},
           force \in Statuses : Open(c, op, sum, to, then, last, force)
  BY OpenersOpen
<1>2. op \in Ops /\ then \in Calls /\ last \in Calls
  BY DEF Ops, Calls, OpenerCalls
<1>3. TypeOK'
  BY <1>1, <1>2, OpenType DEF TypeInv
<1>4. AllShaped'
  BY <1>1, OpenShaped
<1> QED
  BY <1>3, <1>4 DEF TypeInv

\* The methods that look at a payment and go on to call the repository.
ProceedingMethod(c, id) ==
  \/ Hold(c, id) \/ AuthorizeWallet(c, id)
  \/ Capture(c, id) \/ EpayCharge(c, id) \/ FlittCapture(c, id)
  \/ Cancel(c, id) \/ EpayCancel(c, id)
  \/ RevokeWithOutcome(c, id) \/ EpayRefund(c, id)
  \/ FlittReverse(c, id)

\* What such a method leaves behind.
MethodRequest(op, call, then, sum, to) ==
  /\ sum \in Uint
  /\ to \in Statuses
  /\ \/ op = "Revoke" /\ call = "NextID" /\ then = "Refund"
     \/ /\ op \in OneCallOps
        /\ call \in {"Transition", "Capture", "Refund"}
        /\ call = "Refund" => op \in {"EpayRefund", "FlittReverse"}
        /\ then \in {"none", "SetKind"}

LEMMA MethodsProceed ==
  ASSUME TypeInv, NEW c \in Clients, NEW id \in Ids,
         \/ ProceedingMethod(c, id)
         \/ FlittComplete3DS(c, id) /\ store[id].status = "NEW"
  PROVE  \E op, call, then, sum, to :
            /\ MethodRequest(op, call, then, sum, to)
            /\ Proceed(c, op, id, call, then, sum, to)
<1> USE DEF MethodRequest
<1>1. \A a \in Amounts : a \in Uint
  BY AmountsAssumption
<1>2. 0 \in Uint
  BY AmountsAssumption
<1>3. /\ "AUTHORIZED" \in Statuses /\ "CAPTURED" \in Statuses
      /\ "CANCELLED" \in Statuses /\ "REFUNDED" \in Statuses
  BY DEF Statuses
<1>4. \A statuses : Sees(c, id, statuses) =>
         /\ store[id] \in Record
         /\ \A a \in Amounts : /\ Target(id, a) \in Uint
                               /\ RefundDelta(store[id], a) \in Uint
  <2> SUFFICES ASSUME Exists(id)
               PROVE  /\ store[id] \in Record
                      /\ \A a \in Amounts : /\ Target(id, a) \in Uint
                                            /\ RefundDelta(store[id], a) \in Uint
    BY DEF Sees
  <2>1. store[id] \in Record /\ store[id].amount \in Uint
    BY StoredRecordFields DEF TypeInv
  <2> QED
    BY <1>1, <2>1, RefundDeltaType DEF Target
<1>5. /\ "Hold" \in OneCallOps /\ "AuthorizeWallet" \in OneCallOps
      /\ "Capture" \in OneCallOps /\ "EpayCharge" \in OneCallOps
      /\ "FlittCapture" \in OneCallOps /\ "Cancel" \in OneCallOps
      /\ "EpayCancel" \in OneCallOps /\ "EpayRefund" \in OneCallOps
      /\ "FlittReverse" \in OneCallOps /\ "FlittComplete3DS" \in OneCallOps
  BY DEF OneCallOps, Ops, Openers, FreedomOps, EpayOps, FlittOps
<1>6. CASE Hold(c, id)
  BY <1>2, <1>3, <1>5, <1>6 DEF Hold
<1>7. CASE AuthorizeWallet(c, id)
  BY <1>2, <1>3, <1>5, <1>7 DEF AuthorizeWallet
<1>8. CASE Capture(c, id)
  BY <1>3, <1>4, <1>5, <1>8 DEF Capture
<1>9. CASE EpayCharge(c, id)
  BY <1>3, <1>4, <1>5, <1>9 DEF EpayCharge
<1>10. CASE FlittCapture(c, id)
  BY <1>3, <1>4, <1>5, <1>10 DEF FlittCapture
<1>11. CASE Cancel(c, id)
  BY <1>2, <1>3, <1>5, <1>11 DEF Cancel
<1>12. CASE EpayCancel(c, id)
  BY <1>2, <1>3, <1>5, <1>12 DEF EpayCancel
<1>13. CASE RevokeWithOutcome(c, id)
  BY <1>3, <1>4, <1>13 DEF RevokeWithOutcome
<1>14. CASE EpayRefund(c, id)
  BY <1>3, <1>4, <1>5, <1>14 DEF EpayRefund
<1>15. CASE FlittReverse(c, id)
  BY <1>2, <1>3, <1>4, <1>5, <1>15 DEF FlittReverse
<1>16. CASE FlittComplete3DS(c, id) /\ store[id].status = "NEW"
  BY <1>2, <1>3, <1>5, <1>16 DEF FlittComplete3DS, Sees
<1> QED
  BY <1>6, <1>7, <1>8, <1>9, <1>10, <1>11, <1>12, <1>13, <1>14, <1>15, <1>16
  DEF ProceedingMethod

LEMMA MethodStep ==
  ASSUME TypeInv, NEW c \in Clients, NEW id \in Ids,
         \/ ProceedingMethod(c, id)
         \/ FlittComplete3DS(c, id) /\ store[id].status = "NEW"
  PROVE  TypeInv'
<1>1. PICK op, call, then, sum, to :
        /\ MethodRequest(op, call, then, sum, to)
        /\ Proceed(c, op, id, call, then, sum, to)
  BY MethodsProceed
<1>2. op \in Ops /\ call \in Calls /\ then \in Calls
  BY <1>1 DEF MethodRequest, OneCallOps, Ops, FreedomOps, Calls
<1>3. TypeOK'
  BY <1>1, <1>2, ProceedType DEF TypeInv, MethodRequest
<1>4. AllShaped'
  BY <1>1, ProceedShaped DEF MethodRequest
<1> QED
  BY <1>3, <1>4 DEF TypeInv

\* A 3DS completion of a payment past NEW only sends.
LEMMA AnsweredAsItIs ==
  ASSUME TypeInv, NEW c \in Clients, NEW id \in Ids,
         FlittComplete3DS(c, id), store[id].status # "NEW"
  PROVE  TypeInv'
<1>1. /\ Exists(id) /\ Notify("FlittComplete3DS", id, store[id])
      /\ UNCHANGED <<store, nextID, req>>
  BY DEF FlittComplete3DS, Sees
<1>2. webhooks' \in SUBSET Webhook
  BY <1>1, StoredRecord, NotifyType DEF TypeInv
<1> QED
  BY <1>1, <1>2 DEF TypeInv, TypeOK, AllShaped

LEMMA CreateStep ==
  ASSUME TypeInv, NEW c \in Clients, Create(c)
  PROVE  TypeInv'
<1> DEFINE r     == req[c]
           first == IF r.then = "Get" THEN r.to ELSE "NEW"
<1>1. r \in Request /\ Shaped(r)
  BY DEF TypeInv, TypeOK, AllShaped
<1>2. r.id \in Ids
  BY <1>1 DEF Create, Shaped, Idle
<1>3. BankOf(r.op) \in Banks
  BY DEF BankOf, Banks
<1>4. first \in Statuses /\ r.sum \in Uint
  BY <1>1 DEF Request, Statuses
<1>5. NewRecord(BankOf(r.op), first, r.sum) \in Record
  BY <1>3, <1>4, NewRecordType
<1>6. /\ store' = [store EXCEPT ![r.id] = NewRecord(BankOf(r.op), first, r.sum)]
      /\ Continue(c)
      /\ UNCHANGED <<nextID, webhooks>>
  BY DEF Create
<1>7. req' \in [Clients -> Request]
  BY <1>6, ContinueType DEF TypeInv
<1>8. AllShaped'
  BY <1>6, ContinueShaped DEF Create
<1> QED
  BY <1>2, <1>5, <1>6, <1>7, <1>8 DEF TypeInv, TypeOK

\* What Update needs of the callback it runs.
LEMMA UpdateStep ==
  ASSUME TypeInv, NEW c \in Clients, NEW rec, Update(c, rec),
         req[c].call # "none", req[c].call # "NextID",
         Exists(req[c].id) => rec \in Record
  PROVE  TypeInv'
<1> DEFINE r == req[c]
<1>1. r.id \in Ids
  BY DEF TypeInv, AllShaped, Shaped, Idle
<1>2. CASE ~Exists(r.id)
  <2>1. Return(c) /\ UNCHANGED <<store, nextID, webhooks>>
    BY <1>2 DEF Update
  <2> QED
    BY <2>1, ReturnType, ReturnShaped DEF TypeInv, TypeOK
<1>3. CASE Exists(r.id)
  <2>1. /\ store' = [store EXCEPT ![r.id] = rec]
        /\ Continue(c)
        /\ Notify(r.op, r.id, rec)
        /\ UNCHANGED nextID
    BY <1>3 DEF Update
  <2>2. webhooks' \in SUBSET Webhook
    BY <1>1, <1>3, <2>1, NotifyType DEF TypeInv
  <2>3. req' \in [Clients -> Request]
    BY <2>1, ContinueType DEF TypeInv
  <2>4. AllShaped'
    BY <2>1, ContinueShaped
  <2> QED
    BY <1>1, <1>3, <2>1, <2>2, <2>3, <2>4 DEF TypeInv, TypeOK
<1> QED
  BY <1>2, <1>3

LEMMA TransitionStep ==
  ASSUME TypeInv, NEW c \in Clients, Transition(c)
  PROVE  TypeInv'
<1> DEFINE r == req[c]
<1>1. r \in Request /\ r.id \in Ids /\ r.call = "Transition"
  BY DEF TypeInv, TypeOK, AllShaped, Shaped, Idle, Transition
<1>2. CASE /\ Exists(r.id)
           /\ store' = [store EXCEPT ![r.id] = Moved(@, r.to)]
           /\ Continue(c)
           /\ IF r.op = "AuthorizeWallet" THEN UNCHANGED webhooks
              ELSE Notify(r.op, r.id, store'[r.id])
           /\ UNCHANGED nextID
  <2>1. Moved(store[r.id], r.to) \in Record
    BY <1>1, <1>2, StoredRecord, MovedType DEF TypeInv, Request
  <2>2. store'[r.id] = Moved(store[r.id], r.to)
    BY <1>1, <1>2 DEF TypeInv, TypeOK
  <2>3. webhooks' \in SUBSET Webhook
    <3>1. CASE r.op = "AuthorizeWallet"
      BY <1>2, <3>1 DEF TypeInv, TypeOK
    <3>2. CASE r.op # "AuthorizeWallet"
      BY <1>1, <1>2, <2>1, <2>2, <3>2, NotifyType DEF TypeInv
    <3> QED
      BY <3>1, <3>2
  <2>4. req' \in [Clients -> Request]
    BY <1>2, ContinueType DEF TypeInv
  <2>5. AllShaped'
    BY <1>1, <1>2, ContinueShaped
  <2> QED
    BY <1>1, <1>2, <2>1, <2>3, <2>4, <2>5 DEF TypeInv, TypeOK
<1>3. CASE Return(c) /\ UNCHANGED <<store, nextID, webhooks>>
  BY <1>3, ReturnType, ReturnShaped DEF TypeInv, TypeOK
<1> QED
  BY <1>2, <1>3 DEF Transition

LEMMA CommitStep ==
  ASSUME TypeInv, NEW c \in Clients,
         CommitCapture(c) \/ CommitRefund(c) \/ CommitFail(c) \/ CommitFields(c)
  PROVE  TypeInv'
<1> DEFINE r == req[c]
<1>1. r.sum \in Uint
  BY DEF TypeInv, TypeOK, Request
<1>2. r.call \notin {"none", "NextID"} => r.id \in Ids
  BY DEF TypeInv, AllShaped, Shaped, Idle
<1>3. "FAILED" \in Statuses
  BY DEF Statuses
<1>4. CASE CommitCapture(c)
  <2>1. Exists(r.id) => Captured(store[r.id], r.sum) \in Record
    BY <1>1, <1>2, <1>4, StoredRecord, CapturedType DEF TypeInv, CommitCapture
  <2> QED
    BY <1>4, <2>1, UpdateStep DEF CommitCapture
<1>5. CASE CommitRefund(c)
  <2>1. Exists(r.id) => Refunded(store[r.id], r.sum) \in Record
    BY <1>1, <1>2, <1>5, StoredRecord, RefundedType DEF TypeInv, CommitRefund
  <2> QED
    BY <1>5, <2>1, UpdateStep DEF CommitRefund
<1>6. CASE CommitFail(c)
  <2>1. Exists(r.id) => Moved(store[r.id], "FAILED") \in Record
    BY <1>2, <1>3, <1>6, StoredRecord, MovedType DEF TypeInv, CommitFail
  <2> QED
    BY <1>6, <2>1, UpdateStep DEF CommitFail
<1>7. CASE CommitFields(c)
  <2>1. Exists(r.id) => store[r.id] \in Record
    BY <1>2, <1>7, StoredRecord DEF TypeInv, CommitFields
  <2> QED
    BY <1>7, <2>1, UpdateStep DEF CommitFields
<1> QED
  BY <1>4, <1>5, <1>6, <1>7

\* The record a Freedom refund leaves: its operation is in it.
LEMMA NotedType ==
  ASSUME NEW rec \in Record, NEW op \in RefundOp
  PROVE  [rec EXCEPT !.refunds = @ \cup {op}] \in Record
BY DEF Record

LEMMA RevokeStep ==
  ASSUME TypeInv, NEW c \in Clients, CommitRevoke(c)
  PROVE  TypeInv'
<1> DEFINE r         == req[c]
           op(ok)    == [id |-> r.refundID, amount |-> -AsInt(r.sum), ok |-> ok]
           noted(ok) == [store[r.id] EXCEPT !.refunds = @ \cup {op(ok)}]
<1>1. PICK ok \in BOOLEAN :
        Update(c, IF ok THEN Refunded(noted(ok), r.sum) ELSE noted(ok))
  BY DEF CommitRevoke
<1>2. r.sum \in Uint
  BY DEF TypeInv, TypeOK, Request
<1>3. r.call = "Refund" /\ r.op = "Revoke" /\ Shaped(r)
  BY DEF CommitRevoke, TypeInv, AllShaped
<1>4. r.id \in Ids /\ r.refundID \in Ids
  BY <1>3 DEF Shaped, Idle, OneCallOps, Openers
<1>5. op(ok) \in RefundOp
  BY <1>2, <1>4, RefundOpType
<1>6. Exists(r.id) => noted(ok) \in Record
  BY <1>4, <1>5, StoredRecord, NotedType DEF TypeInv
<1> HIDE DEF noted
<1>7. Exists(r.id) =>
        (IF ok THEN Refunded(noted(ok), r.sum) ELSE noted(ok)) \in Record
  BY <1>2, <1>6, RefundedType
<1> QED
  BY <1>1, <1>3, <1>7, UpdateStep

LEMMA TakeRefundIDStep ==
  ASSUME TypeInv, NEW c \in Clients, TakeRefundID(c)
  PROVE  TypeInv'
<1> DEFINE r == req[c]
           n == [r EXCEPT !.call = "Refund", !.then = "none",
                          !.refundID = nextID + 1]
<1>1. r \in Request /\ Shaped(r) /\ r.call = "NextID"
  BY DEF TakeRefundID, TypeInv, TypeOK, AllShaped
<1>2. nextID + 1 \in Ids /\ nextID + 1 \in 0 .. MaxId
  BY MaxIdAssumption DEF TakeRefundID, TypeInv, TypeOK, Ids
<1>3. req' = [req EXCEPT ![c] = n] /\ nextID' = nextID + 1
        /\ UNCHANGED <<store, webhooks>>
  BY DEF TakeRefundID, TypeInv, TypeOK
<1>4. n \in Request
  BY <1>1, <1>2 DEF Request, Calls
<1>5. /\ n.call = "Refund" /\ n.then = "none" /\ n.refundID = nextID + 1
      /\ n.op = r.op /\ n.id = r.id /\ n.last = r.last
  BY <1>1 DEF Request
<1> HIDE DEF n
<1>6. Shaped(n)
  BY <1>1, <1>2, <1>5 DEF Shaped, Idle, OpenerCalls
<1>7. TypeOK'
  BY <1>2, <1>3, <1>4 DEF TypeInv, TypeOK
<1>8. AllShaped'
  BY <1>3, <1>6 DEF TypeInv, TypeOK, AllShaped
<1> QED
  BY <1>7, <1>8 DEF TypeInv

LEMMA ReadBackStep ==
  ASSUME TypeInv, NEW c \in Clients, ReadBack(c)
  PROVE  TypeInv'
<1>1. Return(c) /\ UNCHANGED <<store, nextID, webhooks>>
  BY DEF ReadBack
<1> QED
  BY <1>1, ReturnType, ReturnShaped DEF TypeInv, TypeOK

\* A force writes a record and starts a goroutine, whoever asks for it.
LEMMA ForceType ==
  ASSUME TypeInv, NEW id \in Ids, NEW target \in Statuses, Exists(id),
         ForceTo(id, target)
  PROVE  /\ store' \in [Ids -> Record \cup {NoPayment}]
         /\ webhooks' \in SUBSET Webhook
         /\ UNCHANGED nextID
<1>1. store' = [store EXCEPT ![id] = Forced(@, target)]
  BY DEF ForceTo
<1>2. Forced(store[id], target) \in Record
  BY StoredRecord, ForcedType DEF TypeInv
<1>3. store'[id] \in Record
  BY <1>1, <1>2 DEF TypeInv, TypeOK
<1>4. webhooks' \in SUBSET Webhook
  BY <1>3, SpawnType DEF TypeInv, ForceTo
<1> QED
  BY <1>1, <1>2, <1>4 DEF TypeInv, TypeOK, ForceTo

LEMMA ForceStep ==
  ASSUME TypeInv, NEW c \in Clients, NEW id \in Ids,
         ApplyForce(c, id) \/ ConfirmDeclined(c, id)
  PROVE  TypeInv'
<1>1. PICK target \in Statuses : ForceTo(id, target)
  BY DEF ApplyForce, ConfirmDeclined, PanelTargets, Statuses
<1>2. Exists(id) /\ UNCHANGED req
  BY DEF ApplyForce, ConfirmDeclined
<1> QED
  BY <1>1, <1>2, ForceType DEF TypeInv, TypeOK, AllShaped

LEMMA ForceSyntheticStep ==
  ASSUME TypeInv, NEW c \in Clients, ForceSynthetic(c)
  PROVE  TypeInv'
<1>1. req[c].id \in Ids /\ req[c].force \in Statuses
  BY DEF ForceSynthetic, TypeInv, TypeOK, Request, AllShaped, Shaped, Idle
<1>2. req' \in [Clients -> Request] /\ AllShaped'
  BY ReturnType, ReturnShaped DEF ForceSynthetic, TypeInv
<1>3. CASE Exists(req[c].id) /\ ForceTo(req[c].id, req[c].force)
  BY <1>1, <1>2, <1>3, ForceType DEF TypeInv, TypeOK
<1>4. CASE UNCHANGED <<store, nextID, webhooks>>
  BY <1>2, <1>4 DEF TypeInv, TypeOK
<1> QED
  BY <1>3, <1>4 DEF ForceSynthetic

LEMMA WebhookStep ==
  ASSUME TypeInv, NEW w \in webhooks, DeliverWebhook(w) \/ LoseWebhook(w)
  PROVE  TypeInv'
<1>1. w.id \in Ids
  BY DEF TypeInv, TypeOK, Webhook
<1>2. webhooks' \in SUBSET Webhook /\ UNCHANGED <<nextID, req>>
  BY DEF DeliverWebhook, LoseWebhook, TypeInv, TypeOK
<1>3. \A rec \in Record : [rec EXCEPT !.sent = TRUE] \in Record
  BY DEF Record
<1>4. store' \in [Ids -> Record \cup {NoPayment}]
  <2>1. CASE store' = store
    BY <2>1 DEF TypeInv, TypeOK
  <2>2. CASE Exists(w.id) /\ store' = [store EXCEPT ![w.id].sent = TRUE]
    <3>1. [store[w.id] EXCEPT !.sent = TRUE] \in Record
      BY <1>1, <1>3, <2>2, StoredRecord DEF TypeInv
    <3> QED
      BY <1>1, <2>2, <3>1 DEF TypeInv, TypeOK
  <2> QED
    BY <2>1, <2>2 DEF DeliverWebhook, LoseWebhook
<1> QED
  BY <1>2, <1>4 DEF TypeInv, TypeOK, AllShaped

LEMMA ResetStep ==
  ASSUME TypeInv, Reset
  PROVE  TypeInv'
BY DEF Reset, TypeInv, TypeOK, AllShaped

LEMMA TypeInvInit == Init => TypeInv
<1> SUFFICES ASSUME Init PROVE TypeInv
  OBVIOUS
<1>1. TypeOK
  BY IdleType, MaxIdAssumption DEF Init, TypeOK
<1>2. AllShaped
  BY DEF Init, AllShaped, Shaped
<1> QED
  BY <1>1, <1>2 DEF TypeInv

LEMMA TypeInvNext == TypeInv /\ [Next]_vars => TypeInv'
<1> SUFFICES ASSUME TypeInv, [Next]_vars PROVE TypeInv'
  OBVIOUS
<1>1. ASSUME NEW c \in Clients, OpenPayment(c) \/ CreateSynthetic(c)
      PROVE  TypeInv'
  BY <1>1, OpenerStep
<1>2. ASSUME NEW c \in Clients, RepositoryCall(c) PROVE TypeInv'
  BY <1>2, CreateStep, TransitionStep, CommitStep, RevokeStep,
     TakeRefundIDStep, ReadBackStep DEF RepositoryCall
<1>3. ASSUME NEW c \in Clients, NEW id \in Ids, StartMethod(c, id)
      PROVE  TypeInv'
  <2>1. CASE ProceedingMethod(c, id)
    BY <2>1, MethodStep
  <2>2. CASE FlittComplete3DS(c, id)
    BY <2>2, MethodStep, AnsweredAsItIs
  <2>3. CASE ConfirmDeclined(c, id)
    BY <2>3, ForceStep
  <2> QED
    BY <1>3, <2>1, <2>2, <2>3 DEF StartMethod, ProceedingMethod
<1>4. ASSUME NEW c \in Clients, PanelAction(c) PROVE TypeInv'
  BY <1>4, OpenerStep, ForceSyntheticStep, ForceStep DEF PanelAction
<1>5. ASSUME NEW w \in webhooks, DeliverWebhook(w) \/ LoseWebhook(w)
      PROVE  TypeInv'
  BY <1>5, WebhookStep
<1>6. CASE Reset
  BY <1>6, ResetStep
<1>7. CASE UNCHANGED vars
  BY <1>7 DEF vars, TypeInv, TypeOK, AllShaped
<1> QED
  BY <1>1, <1>2, <1>3, <1>4, <1>5, <1>6, <1>7 DEF Next, GatewayNext

\* Every reachable state is well-typed: amounts stay unsigned words, every
\* id a request, a refund or a webhook carries is one the repository gave
\* out, whatever the panel forces and whenever the store is reset.
THEOREM TypeCorrect == Spec => []TypeOK
<1>1. TypeInv => TypeOK
  BY DEF TypeInv
<1> QED
  BY <1>1, TypeInvInit, TypeInvNext, PTL DEF Spec
=============================================================================
