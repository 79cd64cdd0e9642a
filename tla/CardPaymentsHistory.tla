------------------------ MODULE CardPaymentsHistory ------------------------
(***************************************************************************)
(* What the records of CardPayments keep of their past, and what requests  *)
(* with old snapshots and webhooks not sent yet rest on, for every number  *)
(* of clients, ids and amounts and every word size.                        *)
(*                                                                         *)
(* Every step that touches a payment extends its history by the status it  *)
(* gives it and leaves its bank alone (StoreStep), and a payment is        *)
(* created only under an id nothing else is about, by UniqueIds.  What was *)
(* true of the snapshot a request looked at, its bank and a status in its  *)
(* history, is therefore still true of the record the request writes.      *)
(***************************************************************************)
EXTENDS CardPaymentsIds

-----------------------------------------------------------------------------
(* What the operators of PayDomain leave of a record *)

Extends(old, new) ==
  /\ new.bank = old.bank /\ new.origin = old.origin
  /\ new.history = old.history \cup {new.status}

\* A status change, ...
LEMMA MovedFields ==
  ASSUME NEW rec \in Record, NEW to
  PROVE  /\ Moved(rec, to).status = to
         /\ Moved(rec, to).captured = rec.captured
         /\ Moved(rec, to).refunded = rec.refunded
         /\ Extends(rec, Moved(rec, to))
BY DEF Moved, Record, Extends

\* ... a capture, ...
LEMMA CapturedFields ==
  ASSUME NEW rec \in Record, NEW target \in Uint
  PROVE  /\ Captured(rec, target).status = "CAPTURED"
         /\ Captured(rec, target).refunded = rec.refunded
         /\ Extends(rec, Captured(rec, target))
BY DEF Captured, Moved, Record, Extends

\* ... a refund, whose status and total are computed together, ...
LEMMA RefundedFields ==
  ASSUME NEW rec \in Record, NEW delta \in Uint
  PROVE  /\ Extends(rec, Refunded(rec, delta))
         /\ Refunded(rec, delta).status \in {"REFUNDED", "PARTIAL_REFUNDED"}
         /\ Refunded(rec, delta).status = "REFUNDED"
              <=> Refunded(rec, delta).refunded >= Refunded(rec, delta).captured
         /\ Refunded(rec, delta).captured = rec.captured
         /\ Refunded(rec, delta).refunded = Plus(rec.refunded, delta)
<1> DEFINE total == Plus(rec.refunded, delta)
           base  == [rec EXCEPT !.refunded = total]
           to    == IF total >= rec.captured THEN "REFUNDED" ELSE "PARTIAL_REFUNDED"
<1>1. total \in Uint
  BY UintClosed DEF Record
<1> HIDE DEF total
<1>2. /\ base \in Record /\ base.refunded = total /\ base.captured = rec.captured
      /\ base.bank = rec.bank /\ base.origin = rec.origin /\ base.history = rec.history
  BY <1>1 DEF Record
<1>3. Refunded(rec, delta) = Moved(base, to)
  BY DEF Refunded, total
<1> HIDE DEF base
<1>4. to \in {"REFUNDED", "PARTIAL_REFUNDED"} /\ (to = "REFUNDED" <=> total >= rec.captured)
  OBVIOUS
<1> HIDE DEF to
<1> QED
  BY <1>2, <1>3, <1>4, MovedFields DEF Extends, total

\* ... and a force.
LEMMA ForcedFields ==
  ASSUME NEW rec \in Record, NEW target \in Statuses
  PROVE  /\ Forced(rec, target).status = target
         /\ Extends(rec, Forced(rec, target))
         /\ target = "FAILED" => /\ Forced(rec, target).captured = rec.captured
                                 /\ Forced(rec, target).refunded = rec.refunded
BY DEF Forced, Moved, Record, Extends

-----------------------------------------------------------------------------
(* The invariant of all of Spec *)

Recorded == \A id \in Ids : Exists(id) => store[id].status \in store[id].history

\* What a request that has looked at a payment takes for granted of it.
Rests(r, rec) ==
  /\ r.op \in EpayOps => rec.bank = "epay"
  /\ r.op \in FlittOps => rec.bank = "flitt"
  /\ r.call = "Capture" => "AUTHORIZED" \in rec.history

AllRest ==
  \A c \in Clients : req[c].id \in Ids /\ Exists(req[c].id) =>
    Rests(req[c], store[req[c].id])

StoryInv == IdInv /\ Recorded /\ AllRest /\ WebhooksTellHistory

\* A step extends the histories, and creates a payment only for a request
\* that has reserved its id.
StoreStep ==
  \A id \in Ids : Exists(id)' =>
    IF Exists(id) THEN Extends(store[id], store'[id])
    ELSE /\ store'[id].history = {store'[id].status}
         /\ \E c \in Clients : Reserved(c) /\ req[c].id = id

\* A request goes on with less to take for granted, starts on a payment not
\* there yet, or has looked at the payment.
TakesNothing(r) == r.op \notin EpayOps \cup FlittOps /\ r.call # "Capture"

RequestStep ==
  \A c \in Clients :
    \/ /\ req'[c].id = req[c].id /\ req'[c].op = req[c].op
       /\ req'[c].call = "Capture" => req[c].call = "Capture"
    \/ TakesNothing(req'[c])
    \/ Exists(req'[c].id) /\ Rests(req'[c], store[req'[c].id])

WebhooksStep ==
  \A w \in webhooks' :
    \/ w \in webhooks
    \/ store'[w.id] # NoPayment /\ w.status = store'[w.id].status

StoryStep == StoreStep /\ RequestStep /\ WebhooksStep

LEMMA StoryStepKeeps ==
  ASSUME StoryInv, IdInv', StoryStep
  PROVE  StoryInv'
<1>1. \A c \in Clients : Reserved(c) =>
        /\ \A w \in webhooks : w.id # req[c].id
        /\ \A d \in Clients \ {c} : req[d].id # req[c].id
  BY DEF StoryInv, IdInv, UniqueIds, ReservedIsNew
<1>2. \A c \in Clients : Reserved(c) => TakesNothing(req[c])
  BY DEF StoryInv, IdInv, TypeInv, AllShaped, Shaped, Idle, Reserved, TakesNothing,
         Openers, OneCallOps, EpayOps, FlittOps
<1>3. Recorded'
  BY DEF Recorded, StoryStep, StoreStep, Extends
<1>4. AllRest'
  <2> SUFFICES ASSUME NEW c \in Clients, req'[c].id \in Ids, Exists(req[c].id)'
               PROVE  Rests(req'[c], store'[req'[c].id])
    BY DEF AllRest
  <2>1. CASE TakesNothing(req'[c])
    BY <2>1 DEF TakesNothing, Rests
  <2>2. CASE Exists(req'[c].id) /\ Rests(req'[c], store[req'[c].id])
    BY <2>2 DEF Rests, StoryStep, StoreStep, Extends
  <2>3. CASE /\ req'[c].id = req[c].id /\ req'[c].op = req[c].op
             /\ req'[c].call = "Capture" => req[c].call = "Capture"
    <3>1. CASE Exists(req[c].id)
      <4>1. Rests(req[c], store[req[c].id])
        BY <2>3, <3>1 DEF StoryInv, AllRest
      <4>2. Extends(store[req[c].id], store'[req[c].id])
        BY <2>3, <3>1 DEF StoryStep, StoreStep
      <4> QED
        BY <2>3, <4>1, <4>2 DEF Rests, Extends
    <3>2. CASE ~Exists(req[c].id)
      <4>1. PICK d \in Clients : Reserved(d) /\ req[d].id = req[c].id
        BY <2>3, <3>2 DEF StoryStep, StoreStep
      <4>2. d = c
        BY <1>1, <4>1
      <4> QED
        BY <1>2, <2>3, <4>1, <4>2 DEF TakesNothing, Rests
    <3> QED
      BY <3>1, <3>2
  <2> QED
    BY <2>1, <2>2, <2>3 DEF StoryStep, RequestStep
<1>5. WebhooksTellHistory'
  <2> SUFFICES ASSUME NEW w \in webhooks', Exists(w.id)'
               PROVE  w.status \in store'[w.id].history
    BY DEF WebhooksTellHistory
  <2>1. w.id \in Ids
    BY DEF IdInv, TypeInv, TypeOK, Webhook
  <2>2. CASE w \in webhooks
    <3>1. Exists(w.id)
      BY <1>1, <2>1, <2>2 DEF StoryStep, StoreStep
    <3> QED
      BY <2>1, <2>2, <3>1 DEF StoryInv, WebhooksTellHistory, StoryStep, StoreStep, Extends
  <2>3. CASE w.status = store'[w.id].status
    BY <1>3, <2>1, <2>3 DEF Recorded
  <2> QED
    BY <2>2, <2>3 DEF StoryStep, WebhooksStep
<1> QED
  BY <1>3, <1>4, <1>5 DEF StoryInv

-----------------------------------------------------------------------------
(* The building blocks of the actions *)

LEMMA SameStore ==
  ASSUME TypeInv, Recorded, store' = store
  PROVE  StoreStep
<1>1. \A id \in Ids : Exists(id)' <=> Exists(id)
  BY DEF Exists
<1>2. \A id \in Ids : Exists(id) => Extends(store[id], store'[id])
  BY DEF Recorded, Extends
<1> QED
  BY <1>1, <1>2 DEF StoreStep

LEMMA WriteStep ==
  ASSUME TypeInv, Recorded, NEW id \in Ids, Exists(id), NEW rec,
         Extends(store[id], rec), store' = [store EXCEPT ![id] = rec]
  PROVE  StoreStep /\ store'[id] = rec /\ \A i \in Ids : i # id => store'[i] = store[i]
<1>1. store'[id] = rec /\ \A i \in Ids : i # id => store'[i] = store[i]
  BY DEF TypeInv, TypeOK
<1>2. ASSUME NEW i \in Ids, Exists(i)'
      PROVE  Exists(i) /\ Extends(store[i], store'[i])
  <2>1. CASE i = id
    BY <1>1, <2>1
  <2>2. CASE i # id
    BY <1>1, <1>2, <2>2 DEF Exists, Recorded, Extends
  <2> QED
    BY <2>1, <2>2
<1> QED
  BY <1>1, <1>2 DEF StoreStep

LEMMA SameRequests == ASSUME req' = req PROVE RequestStep
BY DEF RequestStep

LEMMA ReturnRequests ==
  ASSUME TypeInv, NEW c \in Clients, Return(c) PROVE RequestStep
<1>1. \A d \in Clients : req'[d] = IF d = c THEN Idle ELSE req[d]
  BY DEF TypeInv, TypeOK, Return
<1>2. TakesNothing(Idle)
  BY DEF TakesNothing, Idle, EpayOps, FlittOps
<1> QED
  BY <1>1, <1>2 DEF RequestStep

LEMMA ContinueRequests ==
  ASSUME TypeInv, NEW c \in Clients, Continue(c), req[c].call # "NextID"
  PROVE  RequestStep
<1> DEFINE r == req[c]
           n == [r EXCEPT !.call = r.then, !.then = r.last, !.last = "none"]
<1>1. \A d \in Clients : d # c => req'[d] = req[d]
  BY DEF TypeInv, TypeOK, Continue
<1>2. req'[c] = IF r.then = "none" THEN Idle ELSE n
  BY DEF TypeInv, TypeOK, Continue
<1>3. TakesNothing(Idle)
  BY DEF TakesNothing, Idle, EpayOps, FlittOps
<1>4. n.id = r.id /\ n.op = r.op /\ n.call = r.then
  BY DEF TypeInv, TypeOK, Request
<1>5. r.then # "Capture"
  BY DEF TypeInv, AllShaped, Shaped, Idle, OpenerCalls
<1> HIDE DEF n
<1> QED
  BY <1>1, <1>2, <1>3, <1>4, <1>5 DEF RequestStep

LEMMA SameWebhooks == ASSUME webhooks' \subseteq webhooks PROVE WebhooksStep
BY DEF WebhooksStep

LEMMA SpawnWebhooks ==
  ASSUME TypeInv, NEW id \in Ids, NEW rec \in Record, NEW marks, NEW on,
         Spawn(id, rec, marks, on), store'[id] = rec
  PROVE  WebhooksStep
<1>1. store'[id] # NoPayment
  BY NoPaymentAssumption
<1>2. \A w \in webhooks' :
        w \in webhooks \/ w = [id |-> id, status |-> rec.status, marks |-> marks]
  BY DEF Spawn
<1> QED
  BY <1>1, <1>2 DEF WebhooksStep

LEMMA NotifyWebhooks ==
  ASSUME TypeInv, NEW op, NEW id \in Ids, NEW rec \in Record,
         Notify(op, id, rec), store'[id] = rec
  PROVE  WebhooksStep
BY SpawnWebhooks DEF Notify

\* An Update, whatever its callback, if that extends the record.
LEMMA UpdateStory ==
  ASSUME TypeInv, Recorded, NEW c \in Clients, NEW rec, Update(c, rec),
         req[c].call # "none", req[c].call # "NextID",
         Exists(req[c].id) => rec \in Record /\ Extends(store[req[c].id], rec)
  PROVE  /\ StoryStep
         /\ Exists(req[c].id) => store'[req[c].id] = rec
         /\ \A i \in Ids : i # req[c].id \/ ~Exists(i) => store'[i] = store[i]
<1> DEFINE id == req[c].id
<1>1. id \in Ids
  BY DEF TypeInv, AllShaped, Shaped, Idle
<1>2. CASE ~Exists(id)
  <2>1. Return(c) /\ UNCHANGED <<store, nextID, webhooks>>
    BY <1>2 DEF Update
  <2> QED
    BY <1>2, <2>1, SameStore, ReturnRequests, SameWebhooks DEF StoryStep
<1>3. CASE Exists(id)
  <2>1. /\ store' = [store EXCEPT ![id] = rec]
        /\ Continue(c) /\ Notify(req[c].op, id, rec)
    BY <1>3 DEF Update
  <2>2. rec \in Record /\ Extends(store[id], rec)
    BY <1>3
  <2>3. StoreStep /\ store'[id] = rec /\ \A i \in Ids : i # id => store'[i] = store[i]
    BY <1>1, <1>3, <2>1, <2>2, WriteStep
  <2>4. RequestStep
    BY <2>1, ContinueRequests
  <2>5. WebhooksStep
    BY <1>1, <2>1, <2>2, <2>3, NotifyWebhooks
  <2> QED
    BY <1>3, <2>3, <2>4, <2>5 DEF StoryStep
<1> QED
  BY <1>2, <1>3

\* A force, whoever asks for it.
LEMMA ForceStory ==
  ASSUME TypeInv, Recorded, NEW id \in Ids, NEW target \in Statuses,
         Exists(id), ForceTo(id, target)
  PROVE  /\ StoreStep /\ WebhooksStep
         /\ store'[id] = Forced(store[id], target)
         /\ \A i \in Ids : i # id => store'[i] = store[i]
<1>1. store[id] \in Record
  BY StoredRecord DEF TypeInv
<1>2. PICK rec \in Record : rec = Forced(store[id], target)
  BY <1>1, ForcedType
<1>3. Extends(store[id], rec)
  BY <1>1, <1>2, ForcedFields
<1>4. store' = [store EXCEPT ![id] = rec]
  BY <1>2 DEF ForceTo
<1>5. /\ StoreStep /\ store'[id] = rec /\ \A i \in Ids : i # id => store'[i] = store[i]
  BY <1>3, <1>4, WriteStep
<1>6. Spawn(id, rec, FALSE, SwitchOf(store[id].bank) \in AutoWebhook)
  BY <1>5 DEF ForceTo
<1>7. WebhooksStep
  BY <1>5, <1>6, SpawnWebhooks
<1> QED
  BY <1>2, <1>5, <1>7

-----------------------------------------------------------------------------
(* The invariant without the panel: what money rests on *)

RefundCalls == {"NextID", "Refund"}
RefundStatuses == {"REFUNDED", "PARTIAL_REFUNDED"}

\* Where a request is to take its payment.
Aims(r) ==
  /\ "Transition" \in {r.call, r.then} => r.to \in {"AUTHORIZED", "CANCELLED"}
  /\ r.call = "Create" /\ r.then = "Get" => r.to \in {"AUTHORIZED", "CAPTURED"}

AllAim == \A c \in Clients : Aims(req[c])

RefundsRest ==
  \A c \in Clients :
    req[c].call \in RefundCalls /\ Exists(req[c].id) =>
      "CAPTURED" \in store[req[c].id].history

MoneyInv ==
  /\ StoryInv /\ AllAim /\ RefundsRest
  /\ RefundStatusExact /\ ChargesRestOnHolds /\ RefundsRestOnCharges

\* How a step of the gateway's may change a record.
Exact(rec) == rec.status = "REFUNDED" <=> rec.refunded >= rec.captured

KeepsMoney(old, new) ==
  new.captured = old.captured /\ new.refunded = old.refunded

Moves(old, new) ==
  \/ new.status = old.status /\ KeepsMoney(old, new)
  \/ /\ new.status \in {"AUTHORIZED", "CANCELLED"}
     /\ old.status \in AllowedTransitions(new.status)
     /\ KeepsMoney(old, new)
  \/ new.status = "FAILED" /\ KeepsMoney(old, new)
  \/ /\ new.status = "CAPTURED" /\ "AUTHORIZED" \in old.history
     /\ new.refunded = old.refunded
  \/ /\ new.status \in RefundStatuses /\ "CAPTURED" \in old.history /\ Exact(new)
     /\ new.captured = old.captured
     /\ \E delta \in Uint : new.refunded = Plus(old.refunded, delta)

MovesOnly ==
  \A id \in Ids : Exists(id) /\ Exists(id)' => Moves(store[id], store'[id])

Born ==
  \A id \in Ids : ~Exists(id) /\ Exists(id)' =>
    /\ store'[id].status \in {"NEW", "AUTHORIZED", "CAPTURED"}
    /\ store'[id].origin = store'[id].status
    /\ store'[id].refunded = 0
    /\ store'[id].status # "CAPTURED" => store'[id].captured = 0

MoneyRequests ==
  \A c \in Clients :
    /\ Aims(req'[c])
    /\ \/ /\ req'[c].id = req[c].id
          /\ req'[c].call \in RefundCalls => req[c].call \in RefundCalls
       \/ req'[c].call \notin RefundCalls
       \/ Exists(req'[c].id) /\ "CAPTURED" \in store[req'[c].id].history

MoneyStep == MovesOnly /\ Born /\ MoneyRequests

LEMMA MoneyStepKeeps ==
  ASSUME MoneyInv, StoryInv', StoryStep, MoneyStep
  PROVE  MoneyInv'
<1>1. \A id \in Ids : Exists(id) /\ Exists(id)' =>
        /\ Extends(store[id], store'[id]) /\ Moves(store[id], store'[id])
        /\ store[id].status \in store[id].history
  BY DEF StoryStep, StoreStep, MoneyStep, MovesOnly, MoneyInv, StoryInv, Recorded
<1>2. \A id \in Ids : ~Exists(id) /\ Exists(id)' =>
        /\ store'[id].history = {store'[id].status}
        /\ store'[id].status \in {"NEW", "AUTHORIZED", "CAPTURED"}
        /\ store'[id].origin = store'[id].status
  BY DEF StoryStep, StoreStep, MoneyStep, Born
<1>3. ChargesRestOnHolds'
  <2> SUFFICES ASSUME NEW id \in Ids, Exists(id)', "CAPTURED" \in store'[id].history
               PROVE  "AUTHORIZED" \in store'[id].history \/ store'[id].origin = "CAPTURED"
    BY DEF ChargesRestOnHolds
  <2>1. CASE ~Exists(id)
    BY <1>2, <2>1
  <2>2. CASE Exists(id)
    <3>1. "CAPTURED" \in store[id].history =>
            "AUTHORIZED" \in store[id].history \/ store[id].origin = "CAPTURED"
      BY <2>2 DEF MoneyInv, ChargesRestOnHolds
    <3>2. "CAPTURED" \in store[id].history \/ "AUTHORIZED" \in store[id].history
      BY <1>1, <2>2 DEF Moves, Extends, RefundStatuses
    <3> QED
      BY <1>1, <2>2, <3>1, <3>2 DEF Extends
  <2> QED
    BY <2>1, <2>2
<1>4. RefundsRestOnCharges'
  <2> SUFFICES ASSUME NEW id \in Ids, Exists(id)',
                      store'[id].history \cap RefundStatuses # {}
               PROVE  "CAPTURED" \in store'[id].history
    BY DEF RefundsRestOnCharges, RefundStatuses
  <2>1. CASE ~Exists(id)
    BY <1>2, <2>1 DEF RefundStatuses
  <2>2. CASE Exists(id)
    <3>1. store[id].history \cap RefundStatuses # {} => "CAPTURED" \in store[id].history
      BY <2>2 DEF MoneyInv, RefundsRestOnCharges, RefundStatuses
    <3>2. store[id].history \cap RefundStatuses # {} \/ "CAPTURED" \in store[id].history
      BY <1>1, <2>2 DEF Moves, Extends, RefundStatuses
    <3> QED
      BY <1>1, <2>2, <3>1, <3>2 DEF Extends
  <2> QED
    BY <2>1, <2>2
<1>5. RefundStatusExact'
  <2> SUFFICES ASSUME NEW id \in Ids, Exists(id)'
               PROVE  /\ store'[id].status = "REFUNDED" =>
                           store'[id].refunded >= store'[id].captured
                      /\ store'[id].status = "PARTIAL_REFUNDED" =>
                           store'[id].refunded < store'[id].captured
    BY DEF RefundStatusExact
  <2>1. CASE ~Exists(id)
    BY <1>2, <2>1
  <2>2. CASE Exists(id)
    <3>1. store'[id] \in Record
      BY DEF StoryInv, IdInv, TypeInv, TypeOK, Exists
    <3>2. store'[id].refunded \in Int /\ store'[id].captured \in Int
      BY <3>1, WordAssumption DEF Record, Uint
    <3>3. /\ store[id].status = "REFUNDED" => store[id].refunded >= store[id].captured
          /\ store[id].status = "PARTIAL_REFUNDED" =>
               store[id].refunded < store[id].captured
      BY <2>2 DEF MoneyInv, RefundStatusExact
    <3>4. Moves(store[id], store'[id])
      BY <1>1, <2>2
    <3> QED
      BY <3>2, <3>3, <3>4 DEF Moves, KeepsMoney, RefundStatuses, Exact
  <2> QED
    BY <2>1, <2>2
<1>6. AllAim'
  BY DEF AllAim, MoneyStep, MoneyRequests
<1>7. RefundsRest'
  <2> SUFFICES ASSUME NEW c \in Clients, req'[c].call \in RefundCalls,
                      Exists(req[c].id)'
               PROVE  "CAPTURED" \in store'[req'[c].id].history
    BY DEF RefundsRest
  <2>1. req'[c].id \in Ids
    BY DEF StoryInv, IdInv, TypeInv, AllShaped, Shaped, Idle, RefundCalls
  <2>2. CASE Exists(req'[c].id) /\ "CAPTURED" \in store[req'[c].id].history
    BY <1>1, <2>1, <2>2 DEF Extends
  <2>3. CASE req'[c].id = req[c].id /\ req[c].call \in RefundCalls
    <3>1. CASE Exists(req[c].id)
      BY <1>1, <2>1, <2>3, <3>1 DEF MoneyInv, RefundsRest, Extends
    <3>2. CASE ~Exists(req[c].id)
      <4>1. PICK d \in Clients : Reserved(d) /\ req[d].id = req[c].id
        BY <2>1, <2>3, <3>2 DEF StoryStep, StoreStep
      <4>2. d # c
        BY <2>3, <4>1 DEF Reserved, RefundCalls
      <4> QED
        BY <4>1, <4>2 DEF MoneyInv, StoryInv, IdInv, UniqueIds, ReservedIsNew
    <3> QED
      BY <3>1, <3>2
  <2> QED
    BY <2>2, <2>3 DEF MoneyStep, MoneyRequests
<1> QED
  BY <1>3, <1>4, <1>5, <1>6, <1>7 DEF MoneyInv

LEMMA SameMoves == ASSUME store' = store PROVE MovesOnly /\ Born
BY DEF MovesOnly, Born, Moves, KeepsMoney, Exists

LEMMA WriteMoves ==
  ASSUME NEW id \in Ids, Exists(id), Moves(store[id], store'[id]),
         \A i \in Ids : i # id => store'[i] = store[i]
  PROVE  MovesOnly /\ Born
BY DEF MovesOnly, Born, Moves, KeepsMoney, Exists

LEMMA IdleAims == Aims(Idle) /\ Idle.call \notin RefundCalls
BY DEF Aims, Idle, RefundCalls

LEMMA SameMoney == ASSUME AllAim, req' = req PROVE MoneyRequests
BY DEF AllAim, MoneyRequests

LEMMA ReturnMoney ==
  ASSUME TypeInv, AllAim, NEW c \in Clients, Return(c) PROVE MoneyRequests
<1>1. \A d \in Clients : req'[d] = IF d = c THEN Idle ELSE req[d]
  BY DEF TypeInv, TypeOK, Return
<1> QED
  BY <1>1, IdleAims DEF MoneyRequests, AllAim

LEMMA ContinueMoney ==
  ASSUME TypeInv, AllAim, NEW c \in Clients, Continue(c), req[c].call # "NextID"
  PROVE  MoneyRequests
<1> DEFINE r == req[c]
           n == [r EXCEPT !.call = r.then, !.then = r.last, !.last = "none"]
<1>1. \A d \in Clients : d # c => req'[d] = req[d]
  BY DEF TypeInv, TypeOK, Continue
<1>2. req'[c] = IF r.then = "none" THEN Idle ELSE n
  BY DEF TypeInv, TypeOK, Continue
<1>3. n.call = r.then /\ n.then = r.last /\ n.to = r.to
  BY DEF TypeInv, TypeOK, Request
<1>4. r.then \notin RefundCalls /\ r.then # "Create" /\ r.last # "Transition"
  BY DEF TypeInv, AllShaped, Shaped, Idle, OpenerCalls, RefundCalls
<1>5. Aims(r)
  BY DEF AllAim
<1> HIDE DEF n
<1>6. Aims(n) /\ n.call \notin RefundCalls
  BY <1>3, <1>4, <1>5 DEF Aims
<1> QED
  BY <1>1, <1>2, <1>6, IdleAims DEF MoneyRequests, AllAim

LEMMA UpdateMoney ==
  ASSUME TypeInv, AllAim, Recorded, NEW c \in Clients, NEW rec, Update(c, rec),
         req[c].call # "none", req[c].call # "NextID",
         Exists(req[c].id) => /\ rec \in Record /\ Extends(store[req[c].id], rec)
                              /\ Moves(store[req[c].id], rec)
  PROVE  MoneyStep
<1>1. /\ Exists(req[c].id) => store'[req[c].id] = rec
      /\ \A i \in Ids : i # req[c].id \/ ~Exists(i) => store'[i] = store[i]
  BY UpdateStory
<1>2. req[c].id \in Ids
  BY DEF TypeInv, AllShaped, Shaped, Idle
<1>3. CASE ~Exists(req[c].id)
  <2>1. Return(c) /\ UNCHANGED store
    BY <1>3 DEF Update
  <2> QED
    BY <2>1, SameMoves, ReturnMoney DEF MoneyStep
<1>4. CASE Exists(req[c].id)
  <2>1. Continue(c)
    BY <1>4 DEF Update
  <2>2. MoneyRequests
    BY <2>1, ContinueMoney
  <2>3. Moves(store[req[c].id], store'[req[c].id])
    BY <1>1, <1>4
  <2>4. MovesOnly /\ Born
    BY <1>1, <1>2, <1>4, <2>3, WriteMoves
  <2> QED
    BY <2>2, <2>4 DEF MoneyStep
<1> QED
  BY <1>3, <1>4

-----------------------------------------------------------------------------
(* The actions *)

LEMMA OpenStory ==
  ASSUME StoryInv, NEW c \in Clients, NEW op \in Openers, NEW sum, NEW to,
         NEW then, NEW last, NEW force, Open(c, op, sum, to, then, last, force)
  PROVE  /\ StoryStep
         /\ AllAim /\ (then = "Transition" => to \in {"AUTHORIZED", "CANCELLED"})
                   /\ (then = "Get" => to \in {"AUTHORIZED", "CAPTURED"})
              => MoneyStep
<1> DEFINE n == [Idle EXCEPT !.call = "Create", !.then = then, !.last = last,
                             !.op = op, !.id = nextID + 1, !.sum = sum,
                             !.to = to, !.force = force]
<1>1. \A d \in Clients : req'[d] = IF d = c THEN n ELSE req[d]
  BY DEF StoryInv, IdInv, TypeInv, TypeOK, Open
<1>2. n.call = "Create" /\ n.then = then /\ n.op = op /\ n.to = to
  BY DEF Idle
<1> HIDE DEF n
<1>3. TakesNothing(n)
  BY <1>2 DEF TakesNothing, Openers, EpayOps, FlittOps
<1>4. store' = store /\ webhooks' = webhooks
  BY DEF Open
<1>5. RequestStep
  BY <1>1, <1>3 DEF RequestStep
<1>6. StoreStep /\ WebhooksStep /\ MovesOnly /\ Born
  BY <1>4, SameStore, SameWebhooks, SameMoves DEF StoryInv, IdInv
<1>7. ASSUME AllAim, then = "Transition" => to \in {"AUTHORIZED", "CANCELLED"},
             then = "Get" => to \in {"AUTHORIZED", "CAPTURED"}
      PROVE  MoneyRequests
  <2>1. Aims(n) /\ n.call \notin RefundCalls
    BY <1>2, <1>7 DEF Aims, RefundCalls
  <2> QED
    BY <1>1, <1>7, <2>1 DEF MoneyRequests, AllAim
<1> QED
  BY <1>5, <1>6, <1>7 DEF StoryStep, MoneyStep

LEMMA OpenerStory ==
  ASSUME StoryInv, NEW c \in Clients, OpenPayment(c) \/ CreateSynthetic(c)
  PROVE  StoryStep
<1>1. PICK op, sum, to, then, last, force :
        op \in Openers /\ Open(c, op, sum, to, then, last, force)
  BY OpenersOpen DEF StoryInv, IdInv
<1> QED
  BY <1>1, OpenStory

LEMMA OpenerMoney ==
  ASSUME MoneyInv, NEW c \in Clients, OpenPayment(c)
  PROVE  MoneyStep
<1>1. \E op \in Openers : \E sum, to, then, last, force :
        /\ Open(c, op, sum, to, then, last, force)
        /\ then = "Transition" => to \in {"AUTHORIZED", "CANCELLED"}
        /\ then = "Get" => to \in {"AUTHORIZED", "CAPTURED"}
  <2> USE DEF Openers
  <2>1. CASE HoldInit(c) \/ CreateHosted(c) \/ CreateBind(c) \/ FlittCheckout(c)
    BY <2>1 DEF HoldInit, CreateHosted, CreateBind, FlittCheckout
  <2>2. CASE EpayAuthorize(c) \/ EpayDecline(c) \/ EpayLateOperation(c)
    BY <2>2 DEF EpayAuthorize, EpayDecline, EpayLateOperation
  <2>3. CASE FlittDirect(c) \/ FlittRecurring(c)
    BY <2>3 DEF FlittDirect, FlittRecurring
  <2> QED
    BY <2>1, <2>2, <2>3 DEF OpenPayment
<1>2. PICK op, sum, to, then, last, force :
        /\ op \in Openers
        /\ Open(c, op, sum, to, then, last, force)
        /\ then = "Transition" => to \in {"AUTHORIZED", "CANCELLED"}
        /\ then = "Get" => to \in {"AUTHORIZED", "CAPTURED"}
  BY <1>1
<1> QED
  BY <1>2, OpenStory DEF MoneyInv

\* What a method that has looked at a payment starts on.
Grounded(op, call, then, to, rec) ==
  /\ op \in EpayOps => rec.bank = "epay"
  /\ op \in FlittOps => rec.bank = "flitt"
  /\ call = "Capture" => rec.status = "AUTHORIZED"
  /\ call \in RefundCalls => rec.status \in Refundable
  /\ call # "Create" /\ then # "Transition"
  /\ call = "Transition" => to \in {"AUTHORIZED", "CANCELLED"}

LEMMA MethodsGrounded ==
  ASSUME NEW c \in Clients, NEW id \in Ids,
         \/ ProceedingMethod(c, id)
         \/ FlittComplete3DS(c, id) /\ store[id].status = "NEW"
  PROVE  /\ Exists(id)
         /\ \E op, call, then, sum, to :
              /\ Proceed(c, op, id, call, then, sum, to)
              /\ Grounded(op, call, then, to, store[id])
<1> USE DEF Sees, Grounded, RefundCalls, EpayOps, FlittOps
<1>1. CASE Hold(c, id)
  BY <1>1 DEF Hold
<1>2. CASE AuthorizeWallet(c, id)
  BY <1>2 DEF AuthorizeWallet
<1>3. CASE Capture(c, id)
  BY <1>3 DEF Capture
<1>4. CASE EpayCharge(c, id)
  BY <1>4 DEF EpayCharge
<1>5. CASE FlittCapture(c, id)
  BY <1>5 DEF FlittCapture
<1>6. CASE Cancel(c, id)
  BY <1>6 DEF Cancel
<1>7. CASE EpayCancel(c, id)
  BY <1>7 DEF EpayCancel
<1>8. CASE RevokeWithOutcome(c, id)
  BY <1>8 DEF RevokeWithOutcome
<1>9. CASE EpayRefund(c, id)
  BY <1>9 DEF EpayRefund
<1>10. CASE FlittReverse(c, id)
  BY <1>10 DEF FlittReverse
<1>11. CASE FlittComplete3DS(c, id) /\ store[id].status = "NEW"
  BY <1>11 DEF FlittComplete3DS
<1> QED
  BY <1>1, <1>2, <1>3, <1>4, <1>5, <1>6, <1>7, <1>8, <1>9, <1>10, <1>11
  DEF ProceedingMethod

LEMMA MethodStory ==
  ASSUME StoryInv, NEW c \in Clients, NEW id \in Ids,
         \/ ProceedingMethod(c, id)
         \/ FlittComplete3DS(c, id) /\ store[id].status = "NEW"
  PROVE  StoryStep /\ (MoneyInv => MoneyStep)
<1>1. PICK op, call, then, sum, to :
        /\ Proceed(c, op, id, call, then, sum, to)
        /\ Grounded(op, call, then, to, store[id])
  BY MethodsGrounded
<1>2. Exists(id) /\ store[id].status \in store[id].history
  BY MethodsGrounded DEF StoryInv, Recorded
<1> DEFINE n == [Idle EXCEPT !.call = call, !.then = then, !.op = op,
                             !.id = id, !.sum = sum, !.to = to]
<1>3. \A d \in Clients : req'[d] = IF d = c THEN n ELSE req[d]
  BY <1>1 DEF StoryInv, IdInv, TypeInv, TypeOK, Proceed
<1>4. n.call = call /\ n.then = then /\ n.op = op /\ n.to = to /\ n.id = id
  BY DEF Idle
<1> HIDE DEF n
<1>5. store' = store /\ webhooks' = webhooks
  BY <1>1 DEF Proceed
<1>6. Rests(n, store[id])
  BY <1>1, <1>2, <1>4 DEF Grounded, Rests
<1>7. RequestStep
  BY <1>2, <1>3, <1>4, <1>6 DEF RequestStep
<1>8. StoreStep /\ WebhooksStep /\ MovesOnly /\ Born
  BY <1>5, SameStore, SameWebhooks, SameMoves DEF StoryInv, IdInv
<1>9. ASSUME MoneyInv PROVE MoneyRequests
  <2>1. Aims(n)
    BY <1>1, <1>4 DEF Grounded, Aims
  <2>2. call \in RefundCalls => "CAPTURED" \in store[id].history
    BY <1>1, <1>2, <1>9 DEF Grounded, Refundable, MoneyInv, RefundsRestOnCharges
  <2> QED
    BY <1>2, <1>3, <1>4, <1>9, <2>1, <2>2 DEF MoneyRequests, MoneyInv, AllAim
<1> QED
  BY <1>7, <1>8, <1>9 DEF StoryStep, MoneyStep

LEMMA AnsweredStory ==
  ASSUME StoryInv, NEW c \in Clients, NEW id \in Ids,
         FlittComplete3DS(c, id), store[id].status # "NEW"
  PROVE  StoryStep /\ (MoneyInv => MoneyStep)
<1>1. /\ Exists(id) /\ Notify("FlittComplete3DS", id, store[id])
      /\ store' = store /\ req' = req
  BY DEF FlittComplete3DS, Sees
<1>2. store[id] \in Record
  BY <1>1, StoredRecord DEF StoryInv, IdInv, TypeInv
<1>3. WebhooksStep
  BY <1>1, <1>2, NotifyWebhooks DEF StoryInv, IdInv
<1> QED
  BY <1>1, <1>3, SameStore, SameRequests, SameMoves, SameMoney
  DEF StoryInv, IdInv, MoneyInv, StoryStep, MoneyStep

LEMMA CreateStory ==
  ASSUME StoryInv, NEW c \in Clients, Create(c)
  PROVE  StoryStep /\ (MoneyInv => MoneyStep)
<1> DEFINE r     == req[c]
           first == IF r.then = "Get" THEN r.to ELSE "NEW"
           rec   == NewRecord(BankOf(r.op), first, r.sum)
<1>1. r.id \in Ids /\ Reserved(c) /\ r.call = "Create"
  BY DEF StoryInv, IdInv, TypeInv, AllShaped, Shaped, Idle, Create, Reserved
<1>2. ~Exists(r.id)
  BY <1>1 DEF StoryInv, IdInv, UniqueIds, ReservedIsNew
<1>3. /\ rec.history = {first} /\ rec.status = first /\ rec.origin = first
      /\ rec.refunded = 0 /\ (first # "CAPTURED" => rec.captured = 0)
  BY DEF NewRecord
<1> HIDE DEF rec
<1>4. store'[r.id] = rec /\ \A i \in Ids : i # r.id => store'[i] = store[i]
  BY <1>1 DEF Create, rec, StoryInv, IdInv, TypeInv, TypeOK
<1>5. StoreStep
  BY <1>1, <1>2, <1>3, <1>4 DEF StoreStep, Exists, StoryInv, Recorded, Extends
<1>6. RequestStep /\ WebhooksStep
  BY ContinueRequests, SameWebhooks DEF Create, StoryInv, IdInv
<1>7. ASSUME MoneyInv PROVE MoneyStep
  <2>1. first \in {"NEW", "AUTHORIZED", "CAPTURED"}
    BY <1>1, <1>7 DEF MoneyInv, AllAim, Aims
  <2> HIDE DEF first
  <2>2. Born /\ MovesOnly
    BY <1>2, <1>3, <1>4, <2>1 DEF Born, MovesOnly, Moves, KeepsMoney, Exists
  <2>3. MoneyRequests
    BY <1>7, ContinueMoney DEF Create, MoneyInv, StoryInv, IdInv
  <2> QED
    BY <2>2, <2>3 DEF MoneyStep
<1> QED
  BY <1>5, <1>6, <1>7 DEF StoryStep

LEMMA TransitionStory ==
  ASSUME StoryInv, NEW c \in Clients, Transition(c)
  PROVE  StoryStep /\ (MoneyInv => MoneyStep)
<1> DEFINE r == req[c]
<1>1. r.id \in Ids /\ r.to \in Statuses /\ r.call = "Transition"
  BY DEF StoryInv, IdInv, TypeInv, TypeOK, Request, AllShaped, Shaped, Idle, Transition
<1>2. CASE /\ Exists(r.id)
           /\ store[r.id].status \in AllowedTransitions(r.to)
           /\ store' = [store EXCEPT ![r.id] = Moved(@, r.to)]
           /\ Continue(c)
           /\ IF r.op = "AuthorizeWallet" THEN UNCHANGED webhooks
              ELSE Notify(r.op, r.id, store'[r.id])
  <2>1. store[r.id] \in Record
    BY <1>1, <1>2, StoredRecord DEF StoryInv, IdInv, TypeInv
  <2>2. PICK rec \in Record : rec = Moved(store[r.id], r.to)
    BY <1>1, <2>1, MovedType
  <2>3. Extends(store[r.id], rec) /\ rec.status = r.to
    BY <2>1, <2>2, MovedFields
  <2>4. store' = [store EXCEPT ![r.id] = rec]
    BY <1>2, <2>2
  <2>5. StoreStep /\ store'[r.id] = rec /\ \A i \in Ids : i # r.id => store'[i] = store[i]
    BY <1>1, <1>2, <2>3, <2>4, WriteStep DEF StoryInv, IdInv
  <2>6. RequestStep
    BY <1>1, <1>2, ContinueRequests DEF StoryInv, IdInv
  <2>7. WebhooksStep
    <3>1. CASE webhooks' = webhooks
      BY <3>1, SameWebhooks
    <3>2. CASE Notify(r.op, r.id, rec)
      BY <1>1, <2>5, <3>2, NotifyWebhooks DEF StoryInv, IdInv
    <3> QED
      BY <1>2, <2>5, <3>1, <3>2
  <2>8. ASSUME MoneyInv PROVE MoneyStep
    <3>1. r.to \in {"AUTHORIZED", "CANCELLED"}
      BY <1>1, <2>8 DEF MoneyInv, AllAim, Aims
    <3>2. Moves(store[r.id], store'[r.id])
      BY <1>2, <2>1, <2>2, <2>3, <2>5, <3>1, MovedFields DEF Moves, KeepsMoney
    <3>3. MovesOnly /\ Born
      BY <1>1, <1>2, <2>5, <3>2, WriteMoves
    <3>4. MoneyRequests
      BY <1>1, <1>2, <2>8, ContinueMoney DEF MoneyInv, StoryInv, IdInv
    <3> QED
      BY <3>3, <3>4 DEF MoneyStep
  <2> QED
    BY <2>5, <2>6, <2>7, <2>8 DEF StoryStep
<1>3. CASE Return(c) /\ UNCHANGED <<store, webhooks>>
  BY <1>3, SameStore, ReturnRequests, SameWebhooks, SameMoves, ReturnMoney
  DEF StoryInv, IdInv, MoneyInv, StoryStep, MoneyStep
<1> QED
  BY <1>2, <1>3 DEF Transition

\* The repository call of a charge, a refund or a decline is an Update.
LEMMA CommitUpdates ==
  ASSUME StoryInv, NEW c \in Clients,
         \/ CommitCapture(c) \/ CommitRefund(c) \/ CommitRevoke(c)
         \/ CommitFail(c) \/ CommitFields(c)
  PROVE  \E rec :
           /\ Update(c, rec) /\ req[c].call \notin {"none", "NextID", "Create"}
           /\ Exists(req[c].id) =>
                /\ rec \in Record /\ Extends(store[req[c].id], rec)
                /\ MoneyInv => Moves(store[req[c].id], rec)
<1> DEFINE r == req[c]
           old == store[r.id]
<1>1. r.sum \in Uint /\ (r.call \notin {"none", "NextID", "Create"} => r.id \in Ids)
  BY DEF StoryInv, IdInv, TypeInv, TypeOK, Request, AllShaped, Shaped, Idle
<1>2. CASE CommitCapture(c)
  <2>1. r.call = "Capture" /\ Update(c, Captured(old, r.sum)) /\ r.id \in Ids
    BY <1>1, <1>2 DEF CommitCapture
  <2>2. ASSUME Exists(r.id)
        PROVE  /\ Captured(old, r.sum) \in Record /\ Extends(old, Captured(old, r.sum))
               /\ Moves(old, Captured(old, r.sum))
    <3>1. old \in Record
      BY <2>1, <2>2, StoredRecord DEF StoryInv, IdInv, TypeInv
    <3>2. "AUTHORIZED" \in old.history
      BY <2>1, <2>2 DEF StoryInv, AllRest, Rests
    <3> QED
      BY <1>1, <3>1, <3>2, CapturedType, CapturedFields DEF Moves
  <2> QED
    BY <2>1, <2>2
<1>3. ASSUME NEW ok \in BOOLEAN, NEW noted,
             r.call = "Refund", Exists(r.id) => noted \in Record,
             Exists(r.id) => /\ noted.bank = old.bank /\ noted.origin = old.origin
                             /\ noted.status = old.status /\ noted.history = old.history
                             /\ noted.captured = old.captured
                             /\ noted.refunded = old.refunded,
             Update(c, IF ok THEN Refunded(noted, r.sum) ELSE noted)
      PROVE  \E rec :
               /\ Update(c, rec) /\ r.call \notin {"none", "NextID", "Create"}
               /\ Exists(r.id) => /\ rec \in Record /\ Extends(old, rec)
                                  /\ MoneyInv => Moves(old, rec)
  <2>1. r.id \in Ids
    BY <1>1, <1>3
  <2>2. ASSUME Exists(r.id), ~ok
        PROVE  noted \in Record /\ Extends(old, noted) /\ Moves(old, noted)
    BY <1>3, <2>1, <2>2 DEF Extends, Moves, KeepsMoney, StoryInv, Recorded
  <2>3. ASSUME Exists(r.id)
        PROVE  /\ Refunded(noted, r.sum) \in Record /\ Extends(old, Refunded(noted, r.sum))
               /\ MoneyInv => Moves(old, Refunded(noted, r.sum))
    <3>1. /\ Refunded(noted, r.sum) \in Record
          /\ Extends(noted, Refunded(noted, r.sum))
          /\ Refunded(noted, r.sum).status \in RefundStatuses
          /\ Exact(Refunded(noted, r.sum))
          /\ Refunded(noted, r.sum).captured = noted.captured
          /\ Refunded(noted, r.sum).refunded = Plus(noted.refunded, r.sum)
      BY <1>1, <1>3, <2>3, RefundedType, RefundedFields DEF RefundStatuses, Exact
    <3>2. MoneyInv => "CAPTURED" \in old.history
      BY <1>3, <2>3 DEF MoneyInv, RefundsRest, RefundCalls
    <3> QED
      BY <1>1, <1>3, <2>3, <3>1, <3>2 DEF Extends, Moves
  <2>4. CASE ok
    BY <1>3, <2>3, <2>4
  <2>5. CASE ~ok
    BY <1>3, <2>2, <2>5
  <2> QED
    BY <2>4, <2>5
<1>4. CASE CommitRefund(c)
  <2>1. r.call = "Refund" /\ Update(c, Refunded(old, r.sum)) /\ r.id \in Ids
    BY <1>1, <1>4 DEF CommitRefund
  <2>2. Exists(r.id) => old \in Record
    BY <2>1, StoredRecord DEF StoryInv, IdInv, TypeInv
  <2>3. Update(c, IF TRUE THEN Refunded(old, r.sum) ELSE old)
    BY <2>1
  <2> QED
    BY <1>3, <2>1, <2>2, <2>3
<1>5. CASE CommitRevoke(c)
  <2> DEFINE op(ok)    == [id |-> r.refundID, amount |-> -AsInt(r.sum), ok |-> ok]
             noted(ok) == [old EXCEPT !.refunds = @ \cup {op(ok)}]
  <2>1. PICK ok \in BOOLEAN :
          Update(c, IF ok THEN Refunded(noted(ok), r.sum) ELSE noted(ok))
    BY <1>5 DEF CommitRevoke
  <2>2. r.call = "Refund" /\ r.op = "Revoke" /\ Shaped(r)
    BY <1>5 DEF CommitRevoke, StoryInv, IdInv, TypeInv, AllShaped
  <2>3. r.id \in Ids /\ r.refundID \in Ids
    BY <2>2 DEF Shaped, Idle, OneCallOps, Openers
  <2>4. op(ok) \in RefundOp
    BY <1>1, <2>3, RefundOpType
  <2> HIDE DEF op
  <2>5. ASSUME Exists(r.id)
        PROVE  /\ noted(ok) \in Record
               /\ noted(ok).bank = old.bank /\ noted(ok).origin = old.origin
               /\ noted(ok).status = old.status /\ noted(ok).history = old.history
               /\ noted(ok).captured = old.captured /\ noted(ok).refunded = old.refunded
    <3>1. old \in Record
      BY <2>3, <2>5, StoredRecord DEF StoryInv, IdInv, TypeInv
    <3>2. noted(ok) \in Record
      BY <2>4, <3>1, NotedType
    <3> QED
      BY <3>1, <3>2 DEF Record
  <2> HIDE DEF noted
  <2> QED
    BY <1>3, <2>1, <2>2, <2>5
<1>6. CASE CommitFail(c)
  <2>1. r.call = "Fail" /\ Update(c, Moved(old, "FAILED")) /\ r.id \in Ids
    BY <1>1, <1>6 DEF CommitFail
  <2>2. ASSUME Exists(r.id)
        PROVE  /\ Moved(old, "FAILED") \in Record /\ Extends(old, Moved(old, "FAILED"))
               /\ Moves(old, Moved(old, "FAILED"))
    <3>1. old \in Record /\ "FAILED" \in Statuses
      BY <2>1, <2>2, StoredRecord DEF StoryInv, IdInv, TypeInv, Statuses
    <3> QED
      BY <3>1, MovedType, MovedFields DEF Moves, KeepsMoney
  <2> QED
    BY <2>1, <2>2
<1>7. CASE CommitFields(c)
  <2>1. r.call \in {"Challenge", "SetKind"} /\ Update(c, old) /\ r.id \in Ids
    BY <1>1, <1>7 DEF CommitFields
  <2>2. ASSUME Exists(r.id)
        PROVE  old \in Record /\ Extends(old, old) /\ Moves(old, old)
    BY <2>1, <2>2, StoredRecord
    DEF StoryInv, IdInv, TypeInv, Recorded, Extends, Moves, KeepsMoney
  <2> QED
    BY <2>1, <2>2
<1> QED
  BY <1>2, <1>4, <1>5, <1>6, <1>7

LEMMA CommitStory ==
  ASSUME StoryInv, NEW c \in Clients,
         \/ CommitCapture(c) \/ CommitRefund(c) \/ CommitRevoke(c)
         \/ CommitFail(c) \/ CommitFields(c)
  PROVE  StoryStep /\ (MoneyInv => MoneyStep)
<1> DEFINE r == req[c]
           old == store[r.id]
<1>1. PICK rec :
        /\ Update(c, rec) /\ r.call \notin {"none", "NextID", "Create"}
        /\ Exists(r.id) => /\ rec \in Record /\ Extends(old, rec)
                           /\ MoneyInv => Moves(old, rec)
  BY CommitUpdates
<1>2. StoryStep
  BY <1>1, UpdateStory DEF StoryInv, IdInv
<1>3. MoneyInv => MoneyStep
  BY <1>1, UpdateMoney DEF MoneyInv, StoryInv, IdInv
<1> QED
  BY <1>2, <1>3

LEMMA TakeRefundIDStory ==
  ASSUME StoryInv, NEW c \in Clients, TakeRefundID(c)
  PROVE  StoryStep /\ (MoneyInv => MoneyStep)
<1> DEFINE n == [req[c] EXCEPT !.call = "Refund", !.then = "none",
                               !.refundID = nextID + 1]
<1>1. \A d \in Clients : req'[d] = IF d = c THEN n ELSE req[d]
  BY DEF StoryInv, IdInv, TypeInv, TypeOK, TakeRefundID
<1>2. /\ n.id = req[c].id /\ n.op = req[c].op
      /\ n.call = "Refund" /\ n.then = "none" /\ n.to = req[c].to
  BY DEF StoryInv, IdInv, TypeInv, TypeOK, Request
<1> HIDE DEF n
<1>3. req[c].call = "NextID" /\ store' = store /\ webhooks' = webhooks
  BY DEF TakeRefundID
<1>4. RequestStep
  BY <1>1, <1>2 DEF RequestStep
<1>5. StoreStep /\ WebhooksStep /\ MovesOnly /\ Born
  BY <1>3, SameStore, SameWebhooks, SameMoves DEF StoryInv, IdInv
<1>6. ASSUME MoneyInv PROVE MoneyRequests
  <2>1. Aims(n)
    BY <1>2 DEF Aims
  <2> QED
    BY <1>1, <1>2, <1>3, <1>6, <2>1
    DEF MoneyRequests, MoneyInv, AllAim, RefundCalls
<1> QED
  BY <1>4, <1>5, <1>6 DEF StoryStep, MoneyStep

LEMMA ReadBackStory ==
  ASSUME StoryInv, NEW c \in Clients, ReadBack(c)
  PROVE  StoryStep /\ (MoneyInv => MoneyStep)
BY SameStore, ReturnRequests, SameWebhooks, SameMoves, ReturnMoney
DEF ReadBack, StoryInv, IdInv, MoneyInv, StoryStep, MoneyStep

LEMMA DeclinedStory ==
  ASSUME StoryInv, NEW c \in Clients, NEW id \in Ids, ConfirmDeclined(c, id)
  PROVE  StoryStep /\ (MoneyInv => MoneyStep)
<1>1. Exists(id) /\ ForceTo(id, "FAILED") /\ req' = req /\ "FAILED" \in Statuses
  BY DEF ConfirmDeclined, Statuses
<1>2. /\ StoreStep /\ WebhooksStep
      /\ store'[id] = Forced(store[id], "FAILED")
      /\ \A i \in Ids : i # id => store'[i] = store[i]
  BY <1>1, ForceStory DEF StoryInv, IdInv
<1>3. store'[id].status = "FAILED" /\ KeepsMoney(store[id], store'[id])
  BY <1>1, <1>2, StoredRecord, ForcedFields DEF StoryInv, IdInv, TypeInv, KeepsMoney
<1>4. MovesOnly /\ Born
  BY <1>1, <1>2, <1>3, WriteMoves DEF Moves
<1> QED
  BY <1>1, <1>2, <1>4, SameRequests, SameMoney
  DEF StoryStep, MoneyStep, MoneyInv

\* The panel's force may give any status: it is no step of the gateways.
LEMMA ApplyForceStory ==
  ASSUME StoryInv, NEW c \in Clients, NEW id \in Ids, ApplyForce(c, id)
  PROVE  StoryStep
<1>1. PICK target \in PanelTargets : ForceTo(id, target)
  BY DEF ApplyForce
<1>2. Exists(id) /\ req' = req /\ target \in Statuses
  BY DEF ApplyForce, PanelTargets, Statuses
<1>3. StoreStep /\ WebhooksStep
  BY <1>1, <1>2, ForceStory DEF StoryInv, IdInv
<1> QED
  BY <1>2, <1>3, SameRequests DEF StoryStep

LEMMA ForceSyntheticStory ==
  ASSUME StoryInv, NEW c \in Clients, ForceSynthetic(c)
  PROVE  StoryStep
<1>1. RequestStep
  BY ReturnRequests DEF ForceSynthetic, StoryInv, IdInv
<1>2. req[c].id \in Ids /\ req[c].force \in Statuses
  BY DEF ForceSynthetic, StoryInv, IdInv, TypeInv, TypeOK, Request, AllShaped,
         Shaped, Idle
<1>3. CASE Exists(req[c].id) /\ ForceTo(req[c].id, req[c].force)
  BY <1>1, <1>2, <1>3, ForceStory DEF StoryInv, IdInv, StoryStep
<1>4. CASE UNCHANGED <<store, nextID, webhooks>>
  BY <1>1, <1>4, SameStore, SameWebhooks DEF StoryInv, IdInv, StoryStep
<1> QED
  BY <1>3, <1>4 DEF ForceSynthetic

LEMMA WebhookStory ==
  ASSUME StoryInv, NEW w \in webhooks, DeliverWebhook(w) \/ LoseWebhook(w)
  PROVE  StoryStep /\ (MoneyInv => MoneyStep)
<1>1. req' = req /\ webhooks' \subseteq webhooks
  BY DEF DeliverWebhook, LoseWebhook
<1>2. w.id \in Ids
  BY DEF StoryInv, IdInv, TypeInv, TypeOK, Webhook
<1>3. CASE store' = store
  BY <1>1, <1>3, SameStore, SameRequests, SameWebhooks, SameMoves, SameMoney
  DEF StoryInv, IdInv, MoneyInv, StoryStep, MoneyStep
<1>4. CASE Exists(w.id) /\ store' = [store EXCEPT ![w.id].sent = TRUE]
  <2> DEFINE rec == [store[w.id] EXCEPT !.sent = TRUE]
  <2>1. store[w.id] \in Record
    BY <1>2, <1>4, StoredRecord DEF StoryInv, IdInv, TypeInv
  <2>2. /\ rec.status = store[w.id].status /\ rec.bank = store[w.id].bank
        /\ rec.origin = store[w.id].origin /\ rec.history = store[w.id].history
        /\ rec.captured = store[w.id].captured
        /\ rec.refunded = store[w.id].refunded
    BY <2>1 DEF Record
  <2>3. store' = [store EXCEPT ![w.id] = rec]
    BY <1>4
  <2> HIDE DEF rec
  <2>4. Extends(store[w.id], rec) /\ Moves(store[w.id], rec)
    BY <1>2, <1>4, <2>2 DEF StoryInv, Recorded, Extends, Moves, KeepsMoney
  <2>5. /\ StoreStep /\ store'[w.id] = rec
        /\ \A i \in Ids : i # w.id => store'[i] = store[i]
    BY <1>2, <1>4, <2>3, <2>4, WriteStep DEF StoryInv, IdInv
  <2>6. MovesOnly /\ Born
    BY <1>2, <1>4, <2>4, <2>5, WriteMoves
  <2> QED
    BY <1>1, <2>5, <2>6, SameRequests, SameWebhooks, SameMoney
    DEF StoryStep, MoneyStep, MoneyInv
<1> QED
  BY <1>3, <1>4 DEF DeliverWebhook, LoseWebhook

LEMMA ResetStory ==
  ASSUME StoryInv, Reset
  PROVE  StoryStep /\ (MoneyInv => MoneyStep)
<1>1. \A id \in Ids : ~Exists(id)'
  BY DEF Reset, Exists
<1>2. req' = req /\ webhooks' = webhooks
  BY DEF Reset
<1>3. StoreStep /\ MovesOnly /\ Born
  BY <1>1 DEF StoreStep, MovesOnly, Born
<1> QED
  BY <1>2, <1>3, SameRequests, SameWebhooks, SameMoney
  DEF StoryStep, MoneyStep, MoneyInv

-----------------------------------------------------------------------------
(* The invariants hold *)

LEMMA GatewayStory ==
  ASSUME StoryInv, GatewayNext
  PROVE  StoryStep /\ (MoneyInv => MoneyStep)
<1>1. ASSUME NEW c \in Clients, OpenPayment(c)
      PROVE  StoryStep /\ (MoneyInv => MoneyStep)
  BY <1>1, OpenerStory, OpenerMoney
<1>2. ASSUME NEW c \in Clients, RepositoryCall(c)
      PROVE  StoryStep /\ (MoneyInv => MoneyStep)
  BY <1>2, CreateStory, TransitionStory, CommitStory, TakeRefundIDStory, ReadBackStory
  DEF RepositoryCall
<1>3. ASSUME NEW c \in Clients, NEW id \in Ids, StartMethod(c, id)
      PROVE  StoryStep /\ (MoneyInv => MoneyStep)
  <2>1. CASE ProceedingMethod(c, id)
    BY <2>1, MethodStory
  <2>2. CASE FlittComplete3DS(c, id)
    BY <2>2, MethodStory, AnsweredStory
  <2>3. CASE ConfirmDeclined(c, id)
    BY <2>3, DeclinedStory
  <2> QED
    BY <1>3, <2>1, <2>2, <2>3 DEF StartMethod, ProceedingMethod
<1>4. ASSUME NEW w \in webhooks, DeliverWebhook(w) \/ LoseWebhook(w)
      PROVE  StoryStep /\ (MoneyInv => MoneyStep)
  BY <1>4, WebhookStory
<1> QED
  BY <1>1, <1>2, <1>3, <1>4, ResetStory DEF GatewayNext

LEMMA PanelStory ==
  ASSUME StoryInv, NEW c \in Clients, PanelAction(c)
  PROVE  StoryStep
BY OpenerStory, ForceSyntheticStory, ApplyForceStory DEF PanelAction

LEMMA StoryInvInit == Init => StoryInv
<1> SUFFICES ASSUME Init PROVE StoryInv
  OBVIOUS
<1>1. Recorded /\ AllRest /\ WebhooksTellHistory
  BY DEF Init, Recorded, AllRest, WebhooksTellHistory, Exists
<1> QED
  BY <1>1, IdInvInit DEF StoryInv

LEMMA StoryInvNext == StoryInv /\ [Next]_vars => StoryInv'
<1> SUFFICES ASSUME StoryInv, [Next]_vars PROVE StoryInv'
  OBVIOUS
<1>1. IdInv'
  BY IdInvNext DEF StoryInv
<1>2. CASE Next
  <2>1. StoryStep
    BY <1>2, GatewayStory, PanelStory DEF Next
  <2> QED
    BY <1>1, <2>1, StoryStepKeeps
<1>3. CASE UNCHANGED vars
  <2>1. StoryStep
    BY <1>3, SameStore, SameRequests, SameWebhooks DEF vars, StoryStep, StoryInv, IdInv
  <2> QED
    BY <1>1, <2>1, StoryStepKeeps
<1> QED
  BY <1>2, <1>3

LEMMA MoneyInvInit == Init => MoneyInv
<1> SUFFICES ASSUME Init PROVE MoneyInv
  OBVIOUS
<1>1. RefundStatusExact /\ ChargesRestOnHolds /\ RefundsRestOnCharges
  BY DEF Init, RefundStatusExact, ChargesRestOnHolds, RefundsRestOnCharges, Exists
<1>2. AllAim /\ RefundsRest
  BY IdleAims DEF Init, AllAim, RefundsRest
<1> QED
  BY <1>1, <1>2, StoryInvInit DEF MoneyInv

LEMMA MoneySteps ==
  ASSUME MoneyInv, [GatewayNext]_vars
  PROVE  StoryStep /\ MoneyStep
<1>1. CASE GatewayNext
  BY <1>1, GatewayStory DEF MoneyInv
<1>2. CASE UNCHANGED vars
  BY <1>2, SameStore, SameRequests, SameWebhooks, SameMoves, SameMoney
  DEF vars, MoneyInv, StoryInv, IdInv, StoryStep, MoneyStep
<1> QED
  BY <1>1, <1>2

LEMMA MoneyInvNext == MoneyInv /\ [GatewayNext]_vars => MoneyInv'
<1> SUFFICES ASSUME MoneyInv, [GatewayNext]_vars PROVE MoneyInv'
  OBVIOUS
<1>1. StoryInv'
  BY StoryInvNext DEF MoneyInv, Next
<1> QED
  BY <1>1, MoneySteps, MoneyStepKeeps

-----------------------------------------------------------------------------
(* The ledger of a Freedom payment *)

LEMMA AsUintInverse == ASSUME NEW u \in Uint PROVE AsUint(-(-AsInt(u))) = u
BY WordAssumption DEF Uint, AsUint, AsInt

LEMMA PlusCommutes ==
  ASSUME NEW a \in Uint, NEW b \in Uint, NEW c \in Uint
  PROVE  Plus(Plus(a, b), c) = Plus(Plus(a, c), b)
BY WordAssumption DEF Uint, Plus

\* An operation that is not in the ledger yet adds its amount, wherever it is
\* counted.
LEMMA GivesBackMore ==
  ASSUME NEW ops \in SUBSET RefundOp, NEW total, GivesBack(ops, total), NEW op, op \notin ops,
         NEW u \in Uint, op.amount = -AsInt(u)
  PROVE  GivesBack(ops \cup {op}, Plus(total, u))
<1> DEFINE all == ops \cup {op}
           Amount(r) == AsUint(-r.amount)
<1>1. PICK sum \in [SUBSET ops -> Uint] :
        /\ sum[{}] = 0
        /\ \A part \in SUBSET ops : \A r \in part : sum[part] = Plus(sum[part \ {r}], Amount(r))
        /\ sum[ops] = total
  BY DEF GivesBack
<1> DEFINE more == [part \in SUBSET all |->
                      IF op \in part THEN Plus(sum[part \ {op}], u) ELSE sum[part]]
<1>2. Amount(op) = u
  BY AsUintInverse
<1>3. \A part \in SUBSET all : part \ {op} \in SUBSET ops /\ (op \notin part => part \in SUBSET ops)
  OBVIOUS
<1>4. \A part \in SUBSET ops : sum[part] \in Uint
  BY <1>1
<1>5. more \in [SUBSET all -> Uint]
  BY <1>3, <1>4, UintClosed
<1>6. more[{}] = 0 /\ more[all] = Plus(total, u)
  <2>1. all \ {op} = ops
    OBVIOUS
  <2> QED
    BY <1>1, <2>1
<1>7. ASSUME NEW part \in SUBSET all, NEW r \in part
      PROVE  more[part] = Plus(more[part \ {r}], Amount(r))
  <2>1. part \ {r} \in SUBSET all
    OBVIOUS
  <2>2. CASE r = op
    <3>1. op \notin part \ {r}
      BY <2>2
    <3>2. more[part \ {r}] = sum[part \ {r}]
      BY <2>1, <3>1
    <3> QED
      BY <1>2, <2>2, <3>2
  <2>3. CASE op \notin part
    <3>1. part \in SUBSET ops /\ op \notin part \ {r}
      BY <2>3
    <3>2. more[part] = sum[part] /\ more[part \ {r}] = sum[part \ {r}]
      BY <2>1, <2>3, <3>1
    <3> QED
      BY <1>1, <3>1, <3>2
  <2>4. CASE r # op /\ op \in part
    <3> DEFINE old == part \ {op}
    <3>1. old \in SUBSET ops /\ r \in old /\ old \ {r} \in SUBSET ops
      BY <2>4
    <3>2. (part \ {r}) \ {op} = old \ {r} /\ op \in part \ {r}
      BY <2>4
    <3>3. more[part] = Plus(sum[old], u)
      BY <2>4
    <3>4. more[part \ {r}] = Plus(sum[old \ {r}], u)
      BY <2>1, <3>2
    <3>5. sum[old] = Plus(sum[old \ {r}], Amount(r))
      BY <1>1, <3>1
    <3>6. Amount(r) \in Uint
      <4>1. PICK v \in Uint : r.amount = -AsInt(v)
        BY <3>1 DEF RefundOp
      <4> QED
        BY <4>1, AsUintInverse
    <3> HIDE DEF more, Amount, old
    <3> QED
      BY <1>4, <3>1, <3>3, <3>4, <3>5, <3>6, PlusCommutes
  <2> QED
    BY <2>2, <2>3, <2>4
<1> HIDE DEF more
<1> QED
  BY <1>5, <1>6, <1>7 DEF GivesBack

\* A step of the gateways leaves a Freedom payment's ledger alone or adds an
\* operation to it, together with what the bank accepted of it.
Keeps(old, new) == new.refunds = old.refunds /\ new.refunded = old.refunded

Adds(old, new) ==
  \E op \in RefundOp, u \in Uint :
    /\ op.amount = -AsInt(u) /\ op \notin old.refunds
    /\ new.refunds = old.refunds \cup {op}
    /\ new.refunded = IF op.ok THEN Plus(old.refunded, u) ELSE old.refunded

LedgerStep ==
  \A id \in Ids : Exists(id)' =>
    IF Exists(id)
    THEN store[id].bank = "any" =>
           Keeps(store[id], store'[id]) \/ Adds(store[id], store'[id])
    ELSE store'[id].refunds = {} /\ store'[id].refunded = 0

LedgerInv == StoryInv /\ LedgerAgrees

LEMMA LedgerStepKeeps ==
  ASSUME LedgerInv, StoreStep, LedgerStep
  PROVE  LedgerAgrees'
<1> SUFFICES ASSUME NEW id \in Ids, Exists(id)', store'[id].bank = "any"
             PROVE  GivesBack({r \in store'[id].refunds : r.ok}, store'[id].refunded)
  BY DEF LedgerAgrees, GivesBack, AsUint, Plus, Uint
<1> DEFINE Accepted(ops) == {r \in ops : r.ok}
<1>1. CASE ~Exists(id)
  <2>1. store'[id].refunds = {} /\ store'[id].refunded = 0
    BY <1>1 DEF LedgerStep
  <2>2. Accepted(store'[id].refunds) = {}
    BY <2>1
  <2>3. GivesBack({}, 0)
    <3> DEFINE sum == [part \in SUBSET {} |-> 0]
    <3>1. sum \in [SUBSET {} -> Uint]
      BY WordAssumption DEF Uint
    <3>2. sum[{}] = 0 /\ \A part \in SUBSET {} : part = {}
      OBVIOUS
    <3> HIDE DEF sum
    <3> QED
      BY <3>1, <3>2 DEF GivesBack
  <2> QED
    BY <2>1, <2>2, <2>3
<1>2. CASE Exists(id)
  <2>1. store[id] \in Record /\ store[id].bank = "any"
    BY <1>2, StoredRecord DEF LedgerInv, StoryInv, IdInv, TypeInv, StoreStep, Extends
  <2>2. GivesBack(Accepted(store[id].refunds), store[id].refunded)
    BY <1>2, <2>1 DEF LedgerInv, LedgerAgrees
  <2>3. CASE Keeps(store[id], store'[id])
    BY <2>2, <2>3 DEF Keeps
  <2>4. CASE Adds(store[id], store'[id])
    <3>1. PICK op \in RefundOp, u \in Uint :
            /\ op.amount = -AsInt(u) /\ op \notin store[id].refunds
            /\ store'[id].refunds = store[id].refunds \cup {op}
            /\ store'[id].refunded =
                 IF op.ok THEN Plus(store[id].refunded, u) ELSE store[id].refunded
      BY <2>4 DEF Adds
    <3>2. Accepted(store[id].refunds) \in SUBSET RefundOp
      BY <2>1 DEF Record
    <3>3. CASE op.ok
      <4>1. Accepted(store'[id].refunds) = Accepted(store[id].refunds) \cup {op}
        BY <3>1, <3>3
      <4>2. op \notin Accepted(store[id].refunds)
        BY <3>1
      <4> HIDE DEF Accepted
      <4>3. GivesBack(Accepted(store[id].refunds) \cup {op}, Plus(store[id].refunded, u))
        BY <2>2, <3>1, <3>2, <4>2, GivesBackMore
      <4> QED
        BY <3>1, <3>3, <4>1, <4>3 DEF Accepted
    <3>4. CASE ~op.ok
      <4>1. Accepted(store'[id].refunds) = Accepted(store[id].refunds)
        BY <3>1, <3>4
      <4> QED
        BY <2>2, <3>1, <3>4, <4>1
    <3> QED
      BY <3>3, <3>4
  <2> QED
    BY <1>2, <2>1, <2>3, <2>4 DEF LedgerStep
<1> QED
  BY <1>1, <1>2

LEMMA SameLedger == ASSUME store' = store PROVE LedgerStep
BY DEF LedgerStep, Keeps, Exists

\* A step that writes one record.
LEMMA WriteLedger ==
  ASSUME StoryInv, NEW id \in Ids, Exists(id), NEW rec, store' = [store EXCEPT ![id] = rec],
         store[id].bank = "any" => Keeps(store[id], rec) \/ Adds(store[id], rec)
  PROVE  LedgerStep
<1>1. \A i \in Ids : store'[i] = IF i = id THEN rec ELSE store[i]
  BY DEF StoryInv, IdInv, TypeInv, TypeOK
<1> QED
  BY <1>1 DEF LedgerStep, Keeps, Exists

LEMMA UpdateLedger ==
  ASSUME StoryInv, NEW c \in Clients, NEW rec, Update(c, rec), req[c].id \in Ids,
         Exists(req[c].id) /\ store[req[c].id].bank = "any"
           => Keeps(store[req[c].id], rec) \/ Adds(store[req[c].id], rec)
  PROVE  LedgerStep
BY SameLedger, WriteLedger DEF Update

LEMMA MovedKeeps ==
  ASSUME NEW rec \in Record, NEW to
  PROVE  Keeps(rec, Moved(rec, to))
BY DEF Moved, Record, Keeps

LEMMA CapturedKeeps ==
  ASSUME NEW rec \in Record, NEW target
  PROVE  Keeps(rec, Captured(rec, target))
BY DEF Captured, Moved, Record, Keeps

LEMMA RefundedLedger ==
  ASSUME NEW rec \in Record, NEW u \in Uint
  PROVE  /\ Refunded(rec, u).refunds = rec.refunds
         /\ Refunded(rec, u).refunded = Plus(rec.refunded, u)
BY DEF Refunded, Moved, Record

LEMMA RevokeLedger ==
  ASSUME StoryInv, NEW c \in Clients, CommitRevoke(c)
  PROVE  LedgerStep
<1> DEFINE r == req[c]
           old == store[r.id]
           op(ok)    == [id |-> r.refundID, amount |-> -AsInt(r.sum), ok |-> ok]
           noted(ok) == [old EXCEPT !.refunds = @ \cup {op(ok)}]
           rec(ok)   == IF ok THEN Refunded(noted(ok), r.sum) ELSE noted(ok)
<1>1. PICK ok \in BOOLEAN : Update(c, rec(ok))
  BY DEF CommitRevoke
<1>2. RefundTaken(c) /\ Shaped(r) /\ r.sum \in Uint
  BY DEF CommitRevoke, RefundTaken, StoryInv, IdInv, TypeInv, TypeOK, AllShaped, Request
<1>3. r.id \in Ids /\ r.refundID \in Ids
  BY <1>2 DEF RefundTaken, Shaped, Idle, OneCallOps, Openers
<1>4. ASSUME Exists(r.id) PROVE Adds(old, rec(ok))
  <2>1. old \in Record
    BY <1>3, <1>4, StoredRecord DEF StoryInv, IdInv, TypeInv
  <2>2. op(ok) \in RefundOp /\ op(ok).amount = -AsInt(r.sum) /\ op(ok).id = r.refundID
        /\ op(ok).ok = ok
    BY <1>2, <1>3, RefundOpType
  <2>3. op(ok) \notin old.refunds
    BY <1>2, <1>3, <1>4, <2>2 DEF StoryInv, IdInv, UniqueIds, TakenRefundIsNew, RefundIds
  <2> HIDE DEF op
  <2>4. /\ noted(ok) \in Record /\ noted(ok).refunded = old.refunded
        /\ noted(ok).refunds = old.refunds \cup {op(ok)}
    BY <2>1, <2>2, NotedType DEF Record
  <2> HIDE DEF noted
  <2>5. /\ rec(ok).refunds = old.refunds \cup {op(ok)}
        /\ rec(ok).refunded = IF ok THEN Plus(old.refunded, r.sum) ELSE old.refunded
    BY <1>2, <2>4, RefundedLedger
  <2> QED
    BY <1>2, <2>2, <2>3, <2>5 DEF Adds
<1> HIDE DEF rec
<1> QED
  BY <1>1, <1>3, <1>4, UpdateLedger

LEMMA CommitLedger ==
  ASSUME StoryInv, NEW c \in Clients,
         \/ CommitCapture(c) \/ CommitRefund(c) \/ CommitRevoke(c)
         \/ CommitFail(c) \/ CommitFields(c)
  PROVE  LedgerStep
<1> DEFINE r == req[c]
           old == store[r.id]
<1>1. r.call # "none" => r.id \in Ids
  BY DEF StoryInv, IdInv, TypeInv, AllShaped, Shaped, Idle
<1>2. Exists(r.id) /\ r.id \in Ids => old \in Record
  BY StoredRecord DEF StoryInv, IdInv, TypeInv
<1>3. CASE CommitCapture(c)
  BY <1>1, <1>2, <1>3, CapturedKeeps, UpdateLedger DEF CommitCapture
<1>4. CASE CommitRefund(c)
  <2>1. r.call = "Refund" /\ r.op # "Revoke" /\ r.id \in Ids
    BY <1>1, <1>4 DEF CommitRefund
  <2>2. r.op \in EpayOps \cup FlittOps
    BY <2>1 DEF StoryInv, IdInv, TypeInv, AllShaped, Shaped, Idle, OpenerCalls,
                EpayOps, FlittOps
  <2>3. Exists(r.id) => old.bank # "any"
    BY <2>1, <2>2 DEF StoryInv, AllRest, Rests
  <2> QED
    BY <1>4, <2>1, <2>3, UpdateLedger DEF CommitRefund
<1>5. CASE CommitRevoke(c)
  BY <1>5, RevokeLedger
<1>6. CASE CommitFail(c)
  BY <1>1, <1>2, <1>6, MovedKeeps, UpdateLedger DEF CommitFail
<1>7. CASE CommitFields(c)
  <2>1. Keeps(old, old) /\ Update(c, old) /\ r.id \in Ids
    BY <1>1, <1>7 DEF Keeps, CommitFields
  <2> QED
    BY <2>1, UpdateLedger
<1> QED
  BY <1>3, <1>4, <1>5, <1>6, <1>7

LEMMA CreateLedger ==
  ASSUME StoryInv, NEW c \in Clients, Create(c)
  PROVE  LedgerStep
<1> DEFINE r     == req[c]
           first == IF r.then = "Get" THEN r.to ELSE "NEW"
           rec   == NewRecord(BankOf(r.op), first, r.sum)
<1>1. Reserved(c) /\ r.id \in Ids
  BY DEF StoryInv, IdInv, TypeInv, AllShaped, Shaped, Idle, Create, Reserved
<1>2. ~Exists(r.id)
  BY <1>1 DEF StoryInv, IdInv, UniqueIds, ReservedIsNew
<1>3. rec.refunds = {} /\ rec.refunded = 0
  BY DEF NewRecord
<1> HIDE DEF rec
<1>4. \A i \in Ids : store'[i] = IF i = r.id THEN rec ELSE store[i]
  BY DEF Create, rec, StoryInv, IdInv, TypeInv, TypeOK
<1> QED
  BY <1>2, <1>3, <1>4 DEF LedgerStep, Keeps, Exists

LEMMA TransitionLedger ==
  ASSUME StoryInv, NEW c \in Clients, Transition(c)
  PROVE  LedgerStep
<1> DEFINE r == req[c]
<1>1. r.id \in Ids
  BY DEF StoryInv, IdInv, TypeInv, AllShaped, Shaped, Idle, Transition
<1>2. CASE store' = store
  BY <1>2, SameLedger
<1>3. CASE Exists(r.id) /\ store' = [store EXCEPT ![r.id] = Moved(store[r.id], r.to)]
  <2>1. store[r.id] \in Record
    BY <1>1, <1>3, StoredRecord DEF StoryInv, IdInv, TypeInv
  <2> QED
    BY <1>1, <1>3, <2>1, MovedKeeps, WriteLedger
<1> QED
  BY <1>2, <1>3 DEF Transition

LEMMA MethodLedger ==
  ASSUME StoryInv, NEW c \in Clients, NEW id \in Ids, StartMethod(c, id)
  PROVE  LedgerStep
<1>1. CASE \/ ProceedingMethod(c, id)
           \/ FlittComplete3DS(c, id) /\ store[id].status = "NEW"
  <2>1. PICK op, call, then, sum, to : Proceed(c, op, id, call, then, sum, to)
    BY <1>1, MethodsGrounded
  <2> QED
    BY <2>1, SameLedger DEF Proceed
<1>2. CASE FlittComplete3DS(c, id) /\ store[id].status # "NEW"
  BY <1>2, SameLedger DEF FlittComplete3DS, Sees
<1>3. CASE ConfirmDeclined(c, id)
  <2>1. Exists(id) /\ store[id].bank # "any"
    BY <1>3 DEF ConfirmDeclined
  <2>2. store' = [store EXCEPT ![id] = Forced(store[id], "FAILED")]
    BY <1>3 DEF ConfirmDeclined, ForceTo
  <2> QED
    BY <2>1, <2>2, WriteLedger
<1> QED
  BY <1>1, <1>2, <1>3 DEF StartMethod, ProceedingMethod

LEMMA WebhookLedger ==
  ASSUME StoryInv, NEW w \in webhooks, DeliverWebhook(w) \/ LoseWebhook(w)
  PROVE  LedgerStep
<1>1. w.id \in Ids
  BY DEF StoryInv, IdInv, TypeInv, TypeOK, Webhook
<1>2. CASE store' = store
  BY <1>2, SameLedger
<1>3. CASE Exists(w.id) /\ store' = [store EXCEPT ![w.id].sent = TRUE]
  <2> DEFINE rec == [store[w.id] EXCEPT !.sent = TRUE]
  <2>1. store[w.id] \in Record
    BY <1>1, <1>3, StoredRecord DEF StoryInv, IdInv, TypeInv
  <2>2. Keeps(store[w.id], rec) /\ store' = [store EXCEPT ![w.id] = rec]
    BY <1>3, <2>1 DEF Keeps, Record
  <2> HIDE DEF rec
  <2> QED
    BY <1>1, <1>3, <2>2, WriteLedger
<1> QED
  BY <1>2, <1>3 DEF DeliverWebhook, LoseWebhook

LEMMA GatewayLedger ==
  ASSUME StoryInv, [GatewayNext]_vars
  PROVE  LedgerStep
<1>1. ASSUME NEW c \in Clients, OpenPayment(c)
      PROVE  LedgerStep
  BY <1>1, OpenersOpen, SameLedger DEF Open, StoryInv, IdInv
<1>2. ASSUME NEW c \in Clients, RepositoryCall(c)
      PROVE  LedgerStep
  BY <1>2, CreateLedger, TransitionLedger, CommitLedger, SameLedger
  DEF RepositoryCall, TakeRefundID, ReadBack
<1>3. CASE Reset
  BY <1>3 DEF Reset, LedgerStep, Exists
<1>4. CASE UNCHANGED vars
  BY <1>4, SameLedger DEF vars
<1> QED
  BY <1>1, <1>2, <1>3, <1>4, MethodLedger, WebhookLedger DEF GatewayNext

LEMMA LedgerInvNext == LedgerInv /\ [GatewayNext]_vars => LedgerInv'
<1> SUFFICES ASSUME LedgerInv, [GatewayNext]_vars PROVE LedgerInv'
  OBVIOUS
<1>1. StoryInv'
  BY StoryInvNext DEF LedgerInv, Next
<1>2. StoreStep
  <2>1. CASE GatewayNext
    BY <2>1, GatewayStory DEF LedgerInv, StoryStep
  <2>2. CASE UNCHANGED vars
    BY <2>2, SameStore DEF vars, LedgerInv, StoryInv, IdInv
  <2> QED
    BY <2>1, <2>2
<1>3. LedgerAgrees'
  BY <1>2, GatewayLedger, LedgerStepKeeps DEF LedgerInv
<1> QED
  BY <1>1, <1>3 DEF LedgerInv

-----------------------------------------------------------------------------
(* The atomic changes of ConcurrentLifecycle *)

\* A step opens a payment, changes one, takes an id or forgets them all.
UsedIds == 1 .. nextID \ {req[c].id : c \in {d \in Clients : Reserved(d)}}

Takes(id) == id \notin UsedIds /\ UsedIds' = UsedIds \cup {id}

Only(id) == \A i \in Ids : i # id => store'[i] = store[i]

Opens(id) == ~Exists(id) /\ Exists(id)' /\ Only(id) /\ Takes(id)

Alters(id) == Exists(id) /\ Exists(id)' /\ Only(id) /\ UsedIds' = UsedIds

ForgetsAll == (\A id \in Ids : ~Exists(id)') /\ UsedIds' = UsedIds

OneEffect ==
  \/ UNCHANGED <<store, UsedIds>>
  \/ \E id \in Ids : Opens(id) \/ Alters(id) \/ (store' = store /\ Takes(id))
  \/ ForgetsAll

\* Ids are kept back and given out by the clients that store them.
LEMMA UsedByOthers ==
  ASSUME TypeInv, NEW c \in Clients, \A d \in Clients : d # c => req'[d] = req[d]
  PROVE  /\ ~Reserved(c) /\ ~Reserved(c)' /\ nextID' = nextID => UsedIds' = UsedIds
         /\ ~Reserved(c) /\ Reserved(c)' /\ nextID' = nextID + 1
              /\ req'[c].id = nextID + 1 => UsedIds' = UsedIds
<1> DEFINE kept  == {req[d].id : d \in {e \in Clients : Reserved(e)}}
           keeps == {req'[d].id : d \in {e \in Clients : Reserved(e)'}}
<1>1. UsedIds = 1 .. nextID \ kept /\ UsedIds' = 1 .. nextID' \ keeps
  BY DEF UsedIds
<1>2. \A d \in Clients : d # c => (Reserved(d)' <=> Reserved(d))
  BY DEF Reserved
<1>3. ~Reserved(c) => keeps = kept \cup (IF Reserved(c)' THEN {req'[c].id} ELSE {})
  BY <1>2
<1>4. nextID \in Nat
  BY DEF TypeInv, TypeOK
<1> HIDE DEF kept, keeps
<1> QED
  BY <1>1, <1>3, <1>4

LEMMA ReturnEffect ==
  ASSUME TypeInv, NEW c \in Clients, Return(c) \/ Continue(c)
  PROVE  /\ \A d \in Clients : d # c => req'[d] = req[d]
         /\ req[c].call # "NextID" => ~Reserved(c)'
         /\ req[c].call \notin {"Create", "NextID"} /\ nextID' = nextID
              => UsedIds' = UsedIds
<1> DEFINE r == req[c]
           n == [r EXCEPT !.call = r.then, !.then = r.last, !.last = "none"]
<1>1. \A d \in Clients : d # c => req'[d] = req[d]
  BY DEF TypeInv, TypeOK, Return, Continue
<1>2. req'[c] = Idle \/ req'[c] = n
  BY DEF TypeInv, TypeOK, Return, Continue
<1>3. Idle.call = "none" /\ n.call = r.then
  BY DEF Idle, TypeInv, TypeOK, Request
<1>4. r.then # "Create"
  BY DEF TypeInv, AllShaped, Shaped, Idle, OpenerCalls
<1> HIDE DEF n
<1>5. ~Reserved(c)'
  BY <1>2, <1>3, <1>4 DEF Reserved
<1> QED
  BY <1>1, <1>5, UsedByOthers DEF Reserved

\* A step that writes a payment that is there.
LEMMA WriteEffect ==
  ASSUME TypeInv, NEW id \in Ids, Exists(id), NEW rec \in Record,
         store' = [store EXCEPT ![id] = rec], UsedIds' = UsedIds
  PROVE  OneEffect
<1>1. Exists(id)' /\ Only(id)
  BY NoPaymentAssumption DEF TypeInv, TypeOK, Exists, Only
<1> QED
  BY <1>1 DEF OneEffect, Alters

LEMMA UpdateEffect ==
  ASSUME TypeInv, NEW c \in Clients, NEW rec, Update(c, rec),
         req[c].call \notin {"none", "NextID", "Create"},
         Exists(req[c].id) => rec \in Record
  PROVE  OneEffect
<1>1. req[c].id \in Ids
  BY DEF TypeInv, AllShaped, Shaped, Idle
<1>2. UsedIds' = UsedIds
  BY ReturnEffect DEF Update
<1>3. CASE Exists(req[c].id)
  BY <1>1, <1>2, <1>3, WriteEffect DEF Update
<1>4. CASE ~Exists(req[c].id)
  BY <1>2, <1>4 DEF Update, OneEffect
<1> QED
  BY <1>3, <1>4

LEMMA OpenEffect ==
  ASSUME TypeInv, NEW c \in Clients, OpenPayment(c)
  PROVE  OneEffect
<1>1. PICK op, sum, to, then, last, force : Open(c, op, sum, to, then, last, force)
  BY OpenersOpen
<1> DEFINE n == [Idle EXCEPT !.call = "Create", !.then = then, !.last = last,
                             !.op = op, !.id = nextID + 1, !.sum = sum,
                             !.to = to, !.force = force]
<1>2. \A d \in Clients : req'[d] = IF d = c THEN n ELSE req[d]
  BY <1>1 DEF TypeInv, TypeOK, Open
<1>3. n.call = "Create" /\ n.id = nextID + 1
  BY DEF Idle
<1> HIDE DEF n
<1>4. ~Reserved(c) /\ Reserved(c)' /\ req'[c].id = nextID + 1
  BY <1>1, <1>2, <1>3 DEF Open, Free, Reserved
<1>5. UsedIds' = UsedIds
  BY <1>1, <1>2, <1>4, UsedByOthers DEF Open
<1> QED
  BY <1>1, <1>5 DEF Open, OneEffect

LEMMA CreateEffect ==
  ASSUME StoryInv, NEW c \in Clients, Create(c)
  PROVE  OneEffect
<1> DEFINE first == IF req[c].then = "Get" THEN req[c].to ELSE "NEW"
           rec   == NewRecord(BankOf(req[c].op), first, req[c].sum)
<1>1. PICK id \in Ids : id = req[c].id /\ Reserved(c)
  BY DEF StoryInv, IdInv, TypeInv, AllShaped, Shaped, Idle, Create, Reserved
<1>2. /\ ~Exists(id) /\ id <= nextID
      /\ \A d \in Clients \ {c} : req[d].id # id
  BY <1>1 DEF StoryInv, IdInv, UniqueIds, ReservedIsNew, IdsBounded
<1>3. first \in Statuses /\ req[c].sum \in Uint
  BY DEF StoryInv, IdInv, TypeInv, TypeOK, Request, Statuses
<1>4. rec \in Record
  BY <1>3, NewRecordType DEF BankOf, Banks
<1> HIDE DEF rec, first
<1>5. store' = [store EXCEPT ![id] = rec] /\ Continue(c) /\ nextID' = nextID
  BY <1>1 DEF Create, rec, first
<1>6. Exists(id)' /\ Only(id)
  <2>1. store'[id] = rec /\ \A i \in Ids : i # id => store'[i] = store[i]
    BY <1>1, <1>5 DEF StoryInv, IdInv, TypeInv, TypeOK
  <2> QED
    BY <1>4, <2>1, NoPaymentAssumption DEF Exists, Only
<1>7. Takes(id)
  <2> DEFINE kept  == {req[d].id : d \in {e \in Clients : Reserved(e)}}
             keeps == {req'[d].id : d \in {e \in Clients : Reserved(e)'}}
  <2>1. UsedIds = 1 .. nextID \ kept /\ UsedIds' = 1 .. nextID \ keeps
    BY <1>5 DEF UsedIds
  <2>2. /\ \A d \in Clients : d # c => req'[d] = req[d]
        /\ ~Reserved(c)'
    BY <1>5, ReturnEffect DEF StoryInv, IdInv, Create
  <2>3. \A d \in Clients : d # c => (Reserved(d)' <=> Reserved(d))
    BY <2>2 DEF Reserved
  <2>4. id \in kept /\ keeps = kept \ {id}
    BY <1>1, <1>2, <2>2, <2>3
  <2>5. id \in 1 .. nextID
    BY <1>1, <1>2 DEF Ids
  <2> HIDE DEF kept, keeps
  <2> QED
    BY <2>1, <2>4, <2>5 DEF Takes
<1> QED
  BY <1>1, <1>2, <1>6, <1>7 DEF OneEffect, Opens

LEMMA TransitionEffect ==
  ASSUME StoryInv, NEW c \in Clients, Transition(c)
  PROVE  OneEffect
<1> DEFINE r == req[c]
<1>1. r.id \in Ids /\ r.to \in Statuses
  BY DEF StoryInv, IdInv, TypeInv, TypeOK, Request, AllShaped, Shaped, Idle, Transition
<1>2. UsedIds' = UsedIds
  BY ReturnEffect DEF StoryInv, IdInv, Transition
<1>3. CASE store' = store
  BY <1>2, <1>3 DEF OneEffect
<1>4. CASE Exists(r.id) /\ store' = [store EXCEPT ![r.id] = Moved(store[r.id], r.to)]
  <2>1. Moved(store[r.id], r.to) \in Record
    BY <1>1, <1>4, StoredRecord, MovedType DEF StoryInv, IdInv, TypeInv
  <2> QED
    BY <1>1, <1>2, <1>4, <2>1, WriteEffect DEF StoryInv, IdInv
<1> QED
  BY <1>3, <1>4 DEF Transition

LEMMA MethodEffect ==
  ASSUME StoryInv, NEW c \in Clients, NEW id \in Ids, StartMethod(c, id)
  PROVE  OneEffect
<1>1. CASE \/ ProceedingMethod(c, id)
           \/ FlittComplete3DS(c, id) /\ store[id].status = "NEW"
  <2>1. PICK op, call, then, sum, to :
          /\ Proceed(c, op, id, call, then, sum, to)
          /\ Grounded(op, call, then, to, store[id])
    BY <1>1, MethodsGrounded
  <2> DEFINE n == [Idle EXCEPT !.call = call, !.then = then, !.op = op,
                               !.id = id, !.sum = sum, !.to = to]
  <2>2. \A d \in Clients : req'[d] = IF d = c THEN n ELSE req[d]
    BY <2>1 DEF StoryInv, IdInv, TypeInv, TypeOK, Proceed
  <2>3. n.call = call /\ call # "Create"
    BY <2>1 DEF Idle, Grounded
  <2> HIDE DEF n
  <2>4. Free(c)
    BY <1>1 DEF ProceedingMethod, Hold, AuthorizeWallet, Capture, EpayCharge,
                FlittCapture, Cancel, EpayCancel, RevokeWithOutcome, EpayRefund,
                FlittReverse, FlittComplete3DS, Sees
  <2>5. ~Reserved(c) /\ ~Reserved(c)'
    BY <2>2, <2>3, <2>4 DEF Free, Reserved
  <2>6. store' = store /\ nextID' = nextID
    BY <2>1 DEF Proceed
  <2> QED
    BY <2>2, <2>5, <2>6, UsedByOthers DEF StoryInv, IdInv, OneEffect
<1>2. CASE FlittComplete3DS(c, id) /\ store[id].status # "NEW"
  BY <1>2 DEF FlittComplete3DS, Sees, OneEffect, UsedIds, Reserved
<1>3. CASE ConfirmDeclined(c, id)
  <2>1. Exists(id) /\ store' = [store EXCEPT ![id] = Forced(store[id], "FAILED")]
    BY <1>3 DEF ConfirmDeclined, ForceTo
  <2>2. Forced(store[id], "FAILED") \in Record
    BY <2>1, StoredRecord, ForcedType DEF StoryInv, IdInv, TypeInv, Statuses
  <2>3. UsedIds' = UsedIds
    BY <1>3 DEF ConfirmDeclined, ForceTo, UsedIds, Reserved
  <2> QED
    BY <2>1, <2>2, <2>3, WriteEffect DEF StoryInv, IdInv
<1> QED
  BY <1>1, <1>2, <1>3 DEF StartMethod, ProceedingMethod

LEMMA CommitEffect ==
  ASSUME StoryInv, NEW c \in Clients,
         \/ CommitCapture(c) \/ CommitRefund(c) \/ CommitRevoke(c)
         \/ CommitFail(c) \/ CommitFields(c)
  PROVE  OneEffect
<1> DEFINE r == req[c]
<1>1. \E rec :
        /\ Update(c, rec) /\ r.call \notin {"none", "NextID", "Create"}
        /\ Exists(r.id) => rec \in Record
  BY CommitUpdates
<1> QED
  BY <1>1, UpdateEffect DEF StoryInv, IdInv

LEMMA TakeRefundIDEffect ==
  ASSUME StoryInv, NEW c \in Clients, TakeRefundID(c)
  PROVE  OneEffect
<1> DEFINE n == [req[c] EXCEPT !.call = "Refund", !.then = "none",
                               !.refundID = nextID + 1]
           kept  == {req[d].id : d \in {e \in Clients : Reserved(e)}}
           keeps == {req'[d].id : d \in {e \in Clients : Reserved(e)'}}
<1>1. \A d \in Clients : req'[d] = IF d = c THEN n ELSE req[d]
  BY DEF StoryInv, IdInv, TypeInv, TypeOK, TakeRefundID
<1>2. n.call = "Refund" /\ req[c].call = "NextID"
  BY DEF StoryInv, IdInv, TypeInv, TypeOK, Request, TakeRefundID
<1> HIDE DEF n
<1>3. \A d \in Clients : (Reserved(d)' <=> Reserved(d)) /\ (Reserved(d) => req'[d] = req[d])
  BY <1>1, <1>2 DEF Reserved
<1>4. keeps = kept
  BY <1>3
<1>5. /\ nextID \in Nat /\ nextID + 1 \in Ids /\ nextID' = nextID + 1
      /\ store' = store
  BY MaxIdAssumption DEF StoryInv, IdInv, TypeInv, TypeOK, TakeRefundID, Ids
<1>6. \A i \in kept : i <= nextID
  BY DEF StoryInv, IdInv, UniqueIds, IdsBounded
<1>7. UsedIds = 1 .. nextID \ kept /\ UsedIds' = 1 .. (nextID + 1) \ kept
  BY <1>4, <1>5 DEF UsedIds
<1>8. nextID + 1 \notin kept
  BY <1>5, <1>6
<1> HIDE DEF kept, keeps
<1>9. Takes(nextID + 1)
  BY <1>5, <1>7, <1>8 DEF Takes
<1> QED
  BY <1>5, <1>9 DEF OneEffect

LEMMA WebhookEffect ==
  ASSUME StoryInv, NEW w \in webhooks, DeliverWebhook(w) \/ LoseWebhook(w)
  PROVE  OneEffect
<1>1. w.id \in Ids
  BY DEF StoryInv, IdInv, TypeInv, TypeOK, Webhook
<1>2. UsedIds' = UsedIds
  BY DEF DeliverWebhook, LoseWebhook, UsedIds, Reserved
<1>3. CASE store' = store
  BY <1>2, <1>3 DEF OneEffect
<1>4. CASE Exists(w.id) /\ store' = [store EXCEPT ![w.id].sent = TRUE]
  <2> DEFINE rec == [store[w.id] EXCEPT !.sent = TRUE]
  <2>1. store[w.id] \in Record
    BY <1>1, <1>4, StoredRecord DEF StoryInv, IdInv, TypeInv
  <2>2. rec \in Record /\ store' = [store EXCEPT ![w.id] = rec]
    BY <1>4, <2>1 DEF Record
  <2> HIDE DEF rec
  <2> QED
    BY <1>1, <1>2, <1>4, <2>2, WriteEffect DEF StoryInv, IdInv
<1> QED
  BY <1>3, <1>4 DEF DeliverWebhook, LoseWebhook

LEMMA GatewayEffects ==
  ASSUME StoryInv, [GatewayNext]_vars
  PROVE  OneEffect
<1>1. ASSUME NEW c \in Clients, RepositoryCall(c)
      PROVE  OneEffect
  <2>1. CASE ReadBack(c)
    BY <2>1, ReturnEffect DEF ReadBack, StoryInv, IdInv, OneEffect
  <2> QED
    BY <1>1, <2>1, CreateEffect, TransitionEffect, CommitEffect, TakeRefundIDEffect
    DEF RepositoryCall
<1>2. CASE Reset
  BY <1>2 DEF Reset, OneEffect, ForgetsAll, Exists, UsedIds, Reserved
<1>3. CASE UNCHANGED vars
  BY <1>3 DEF vars, OneEffect, UsedIds, Reserved
<1>4. ASSUME NEW c \in Clients, OpenPayment(c)
      PROVE  OneEffect
  BY <1>4, OpenEffect DEF StoryInv, IdInv
<1> QED
  BY <1>1, <1>2, <1>3, <1>4, MethodEffect, WebhookEffect DEF GatewayNext

\* Each effect is a step of ConcurrentLifecycle.
Payments == [id \in Ids |-> PaymentOf(id)]

ConcurrentStep == [Concurrent!ConcurrentNext]_(Concurrent!concurrentVars)

LEMMA DomainIsShared ==
  /\ Concurrent!Ids = Ids /\ Concurrent!Uint = Uint
  /\ \A to : Concurrent!AllowedTransitions(to) = AllowedTransitions(to)
  /\ \A a, b : Concurrent!Plus(a, b) = Plus(a, b)
  /\ Concurrent!None = [status |-> "NONE", past |-> {}, captured |-> 0, refunded |-> 0]
BY DEF Ids, Concurrent!Ids, Uint, Concurrent!Uint, AllowedTransitions,
       Concurrent!AllowedTransitions, Statuses, Concurrent!Statuses,
       Refundable, Concurrent!Refundable, Plus, Concurrent!Plus, Concurrent!None

LEMMA StutterMaps ==
  ASSUME Payments' = Payments, UsedIds' = UsedIds
  PROVE  ConcurrentStep
BY DEF Payments, UsedIds, ConcurrentStep, Concurrent!concurrentVars

LEMMA OpensMaps ==
  ASSUME TypeInv', NEW id \in Ids, Opens(id), StoreStep, Born
  PROVE  ConcurrentStep
<1> DEFINE new == store'[id]
<1>1. ~Exists(id) /\ Exists(id)' /\ Only(id) /\ Takes(id)
  BY DEF Opens
<1>2. /\ new.status \in {"NEW", "AUTHORIZED", "CAPTURED"} /\ new.history = {new.status}
      /\ new.refunded = 0 /\ (new.status # "CAPTURED" => new.captured = 0)
  BY <1>1 DEF StoreStep, Born
<1>3. new.captured \in Uint
  BY <1>1 DEF TypeInv, TypeOK, Exists, Record
<1>4. PaymentOf(id)' = [status |-> new.status, past |-> {new.status},
                        captured |-> IF new.status = "CAPTURED" THEN new.captured ELSE 0,
                        refunded |-> 0]
  BY <1>1, <1>2 DEF PaymentOf, Exists
<1>5. Payments' = [Payments EXCEPT ![id] = PaymentOf(id)']
  BY <1>1 DEF Payments, PaymentOf, Exists, Only
<1>6. \E s \in {"NEW", "AUTHORIZED", "CAPTURED"}, sum \in Uint :
        Payments' = [Payments EXCEPT ![id] =
                       [status |-> s, past |-> {s},
                        captured |-> IF s = "CAPTURED" THEN sum ELSE 0,
                        refunded |-> 0]]
  BY <1>2, <1>3, <1>4, <1>5
<1>7. Concurrent!Open(id)
  BY <1>1, <1>6, DomainIsShared DEF Payments, UsedIds, Takes, Concurrent!Open
<1> QED
  BY <1>7, DomainIsShared DEF ConcurrentStep, Concurrent!ConcurrentNext

LEMMA AltersMaps ==
  ASSUME TypeInv, TypeInv', Recorded, NEW id \in Ids, Alters(id),
         Extends(store[id], store'[id]), Moves(store[id], store'[id])
  PROVE  ConcurrentStep
<1> DEFINE old == store[id]
           new == store'[id]
<1>1. Exists(id) /\ Exists(id)' /\ Only(id) /\ UsedIds' = UsedIds
  BY DEF Alters
<1>2. new.captured \in Uint
  BY <1>1 DEF TypeInv, TypeOK, Exists, Record
<1>3. /\ Payments[id] = PaymentOf(id)
      /\ PaymentOf(id) = [status |-> old.status, past |-> old.history,
                          captured |-> old.captured, refunded |-> old.refunded]
  BY <1>1 DEF Payments, PaymentOf
<1>4. PaymentOf(id)' = [status |-> new.status, past |-> old.history \cup {new.status},
                        captured |-> new.captured, refunded |-> new.refunded]
  BY <1>1 DEF PaymentOf, Exists, Extends
<1>5. Payments' = [Payments EXCEPT ![id] = PaymentOf(id)']
  BY <1>1 DEF Payments, PaymentOf, Exists, Only
<1>6. /\ Payments[id].status = old.status /\ Payments[id].past = old.history
      /\ Payments[id].captured = old.captured /\ Payments[id].refunded = old.refunded
  BY <1>3
<1>7. Concurrent!Becomes(id, new.status, new.captured, new.refunded)
  BY <1>4, <1>5, <1>6 DEF Payments, Concurrent!Becomes
<1>8. CASE new.status = old.status /\ KeepsMoney(old, new)
  <2>1. old.history \cup {new.status} = old.history
    BY <1>1, <1>8 DEF Recorded
  <2>2. PaymentOf(id)' = PaymentOf(id)
    BY <1>3, <1>4, <1>8, <2>1 DEF KeepsMoney
  <2>3. Payments' = Payments
    BY <1>3, <1>5, <2>2 DEF Payments
  <2> QED
    BY <1>1, <2>3, StutterMaps
<1>9. CASE /\ new.status \in {"AUTHORIZED", "CANCELLED"}
           /\ old.status \in AllowedTransitions(new.status)
           /\ KeepsMoney(old, new)
  <2>1. Concurrent!Settle(id)
    BY <1>1, <1>6, <1>7, <1>9, DomainIsShared
    DEF Payments, UsedIds, KeepsMoney, Concurrent!Settle
  <2> QED
    BY <2>1, DomainIsShared DEF ConcurrentStep, Concurrent!ConcurrentNext
<1>10. CASE new.status = "FAILED" /\ KeepsMoney(old, new)
  <2>1. Payments[id] # Concurrent!None
    <3>1. old.status \in Statuses
      BY <1>1, StoredRecord DEF TypeInv, Record
    <3> QED
      BY <1>6, <3>1, DomainIsShared DEF Statuses
  <2>2. Concurrent!Decline(id)
    BY <1>1, <1>6, <1>7, <1>10, <2>1
    DEF Payments, UsedIds, KeepsMoney, Concurrent!Decline
  <2> QED
    BY <2>2, DomainIsShared DEF ConcurrentStep, Concurrent!ConcurrentNext
<1>11. CASE /\ new.status = "CAPTURED" /\ "AUTHORIZED" \in old.history
            /\ new.refunded = old.refunded
  <2>1. Concurrent!Charge(id)
    BY <1>1, <1>2, <1>6, <1>7, <1>11, DomainIsShared
    DEF Payments, UsedIds, Concurrent!Charge
  <2> QED
    BY <2>1, DomainIsShared DEF ConcurrentStep, Concurrent!ConcurrentNext
<1>12. CASE /\ new.status \in RefundStatuses /\ "CAPTURED" \in old.history /\ Exact(new)
            /\ new.captured = old.captured
            /\ \E delta \in Uint : new.refunded = Plus(old.refunded, delta)
  <2>1. PICK delta \in Uint : new.refunded = Plus(old.refunded, delta)
    BY <1>12
  <2>2. new.status = IF new.refunded >= new.captured THEN "REFUNDED"
                     ELSE "PARTIAL_REFUNDED"
    BY <1>12 DEF RefundStatuses, Exact
  <2>3. Concurrent!Becomes(id, IF Plus(old.refunded, delta) >= old.captured
                               THEN "REFUNDED" ELSE "PARTIAL_REFUNDED",
                           old.captured, Plus(old.refunded, delta))
    BY <1>7, <1>12, <2>1, <2>2
  <2>4. Concurrent!GiveBack(id)
    BY <1>1, <1>6, <1>12, <2>3, DomainIsShared
    DEF Payments, UsedIds, Concurrent!GiveBack
  <2> QED
    BY <2>4, DomainIsShared DEF ConcurrentStep, Concurrent!ConcurrentNext
<1> HIDE DEF old, new
<1> QED
  BY <1>8, <1>9, <1>10, <1>11, <1>12 DEF Moves, old, new

LEMMA EffectMaps ==
  ASSUME MoneyInv, TypeInv', OneEffect, StoreStep, MovesOnly, Born
  PROVE  ConcurrentStep
<1>1. CASE UNCHANGED <<store, UsedIds>>
  BY <1>1, StutterMaps DEF Payments, PaymentOf, Exists
<1>2. ASSUME NEW id \in Ids, Opens(id)
      PROVE  ConcurrentStep
  BY <1>2, OpensMaps
<1>3. ASSUME NEW id \in Ids, Alters(id)
      PROVE  ConcurrentStep
  BY <1>3, AltersMaps DEF Alters, StoreStep, MovesOnly, MoneyInv, StoryInv, IdInv
<1>4. ASSUME NEW id \in Ids, store' = store, Takes(id)
      PROVE  ConcurrentStep
  <2>1. Payments' = Payments
    BY <1>4 DEF Payments, PaymentOf, Exists
  <2>2. Concurrent!TakeId(id)
    BY <1>4, <2>1 DEF Payments, UsedIds, Takes, Concurrent!TakeId
  <2> QED
    BY <2>2, DomainIsShared DEF ConcurrentStep, Concurrent!ConcurrentNext
<1>5. CASE ForgetsAll
  <2>1. Concurrent!Forget
    BY <1>5, DomainIsShared
    DEF ForgetsAll, PaymentOf, Exists, UsedIds, Concurrent!Forget
  <2> QED
    BY <2>1 DEF ConcurrentStep, Concurrent!ConcurrentNext
<1> QED
  BY <1>1, <1>2, <1>3, <1>4, <1>5 DEF OneEffect

-----------------------------------------------------------------------------
(* The theorems *)

\* A webhook goroutine that maybeWebhook, a Flitt callback or the panel's
\* force has started and that has not sent yet speaks of a status its
\* payment has been in, whatever requests, forces and resets come between:
\* never of another payment under the same id.
THEOREM WebhooksAreTrue == Spec => []WebhooksTellHistory
<1>1. StoryInv => WebhooksTellHistory
  BY DEF StoryInv
<1> QED
  BY <1>1, StoryInvInit, StoryInvNext, PTL DEF Spec

\* However refunds, repeated captures, declines and resets interleave, the
\* REFUNDED and PARTIAL_REFUNDED that the repository's refund callbacks write
\* tell exactly whether the money refunded covers the money captured, in the
\* machine's own arithmetic.
THEOREM RefundStatusIsExact == GatewaySpec => []RefundStatusExact
<1>1. MoneyInv => RefundStatusExact
  BY DEF MoneyInv
<1> QED
  BY <1>1, MoneyInvInit, MoneyInvNext, PTL DEF GatewaySpec

\* The running total and the list of refund operations that get_status3
\* reports of a Freedom payment are written by RevokeWithOutcome's callback
\* together, and agree however refunds, the banks' refusals, captures and
\* resets interleave, in whatever order the refund ids are stored, and in the
\* machine's own arithmetic.
THEOREM LedgersAgree == GatewaySpec => []LedgerAgrees
<1>1. Init => LedgerInv
  BY StoryInvInit DEF LedgerInv, LedgerAgrees, Init, Exists
<1>2. LedgerInv => LedgerAgrees
  BY DEF LedgerInv
<1> QED
  BY <1>1, <1>2, LedgerInvNext, PTL DEF GatewaySpec

\* The capture callbacks of the three banks do not look at the status again.
\* Still they only ever charge a payment whose hold was authorized at some
\* time, or that the bank reported charged in the first place.
THEOREM ChargesHaveHolds == GatewaySpec => []ChargesRestOnHolds
<1>1. MoneyInv => ChargesRestOnHolds
  BY DEF MoneyInv
<1> QED
  BY <1>1, MoneyInvInit, MoneyInvNext, PTL DEF GatewaySpec

\* The refund callbacks do not look at the status again either, and still
\* refund only payments that were charged.
THEOREM RefundsHaveCharges == GatewaySpec => []RefundsRestOnCharges
<1>1. MoneyInv => RefundsRestOnCharges
  BY DEF MoneyInv
<1> QED
  BY <1>1, MoneyInvInit, MoneyInvNext, PTL DEF GatewaySpec

\* repo.Transition checks the status under its lock, so that no hold and no
\* cancellation, by whatever method and however late, lands on a payment
\* whose status does not allow it.
THEOREM TransitionsAreRechecked == GatewaySpec => RecheckedTransitions
<1>1. ASSUME MoneyInv, [GatewayNext]_vars
      PROVE  \A id \in Ids :
               Changes(id) /\ store'[id].status \in {"AUTHORIZED", "CANCELLED"}
                 => store[id].status \in AllowedTransitions(store'[id].status)
  <2>1. MovesOnly
    BY <1>1, MoneySteps DEF MoneyStep
  <2> QED
    BY <2>1 DEF MovesOnly, Moves, Changes, Stays, Exists, RefundStatuses
<1> QED
  BY <1>1, MoneyInvInit, MoneyInvNext, PTL DEF GatewaySpec, RecheckedTransitions

\* The service implements ConcurrentLifecycle for any number of clients.  A
\* method decides on a snapshot, and every one of its repository calls may
\* come after anything the other clients, late declines and resets have done;
\* yet every step of CardPayments maps to one atomic change of one payment
\* that the payment's own past allows, or to a stutter, and no id is ever
\* taken twice.
THEOREM ServiceIsAtomic == GatewaySpec => ImplementsConcurrent
<1>1. Init => Concurrent!ConcurrentInit
  <2> SUFFICES ASSUME Init PROVE Concurrent!ConcurrentInit
    OBVIOUS
  <2>1. Payments = [id \in Ids |-> Concurrent!None]
    BY DomainIsShared DEF Init, Payments, PaymentOf, Exists
  <2>2. UsedIds = {}
    BY DEF Init, UsedIds
  <2> QED
    BY <2>1, <2>2, DomainIsShared DEF Payments, UsedIds, Concurrent!ConcurrentInit
<1>2. MoneyInv /\ [GatewayNext]_vars =>
        [Concurrent!ConcurrentNext]_(Concurrent!concurrentVars)
  <2> SUFFICES ASSUME MoneyInv, [GatewayNext]_vars PROVE ConcurrentStep
    BY DEF ConcurrentStep
  <2>1. TypeInv'
    BY MoneyInvNext DEF MoneyInv, StoryInv, IdInv
  <2>2. OneEffect /\ StoreStep /\ MovesOnly /\ Born
    BY GatewayEffects, MoneySteps DEF MoneyInv, StoryStep, MoneyStep
  <2> QED
    BY <2>1, <2>2, EffectMaps
<1> QED
  BY <1>1, <1>2, MoneyInvInit, MoneyInvNext, PTL
  DEF GatewaySpec, ImplementsConcurrent, Concurrent!ConcurrentSpec

\* A request writes only the payment it is about.
LEMMA WritesItsOwn ==
  ASSUME StoryInv, [Next]_vars, NEW c \in Clients, NEW id \in Ids, Writes(c, id),
         req[c].op \in EpayOps \cup FlittOps
  PROVE  req[c].id = id
<1>1. req'[c] # req[c] /\ Exists(id) /\ store'[id] # store[id]
  BY DEF Writes
<1>2. \A d \in Clients : Return(d) \/ Continue(d) =>
        \A e \in Clients : e # d => req'[e] = req[e]
  BY DEF Return, Continue, StoryInv, IdInv, TypeInv, TypeOK
<1>3. \A i, rec : store' = [store EXCEPT ![i] = rec] /\ i # id
        => store'[id] = store[id]
  BY DEF StoryInv, IdInv, TypeInv, TypeOK
<1>4. ASSUME NEW d \in Clients, OpenPayment(d) \/ CreateSynthetic(d)
      PROVE  FALSE
  <2>1. PICK op, sum, to, then, last, force :
          op \in Openers /\ Open(d, op, sum, to, then, last, force)
    BY <1>4, OpenersOpen DEF StoryInv, IdInv
  <2> QED
    BY <1>1, <2>1 DEF Open
<1>5. ASSUME NEW d \in Clients, NEW rec, Update(d, rec)
      PROVE  req[c].id = id
  <2>1. Return(d) \/ Continue(d)
    BY <1>5 DEF Update
  <2>2. store' = store \/ store' = [store EXCEPT ![req[d].id] = rec]
    BY <1>5 DEF Update
  <2> QED
    BY <1>1, <1>2, <1>3, <2>1, <2>2
<1>6. ASSUME NEW d \in Clients, RepositoryCall(d)
      PROVE  req[c].id = id
  <2>1. CASE Create(d)
    BY <1>1, <1>2, <1>3, <2>1 DEF Create
  <2>2. CASE Transition(d)
    <3>1. Return(d) \/ Continue(d)
      BY <2>2 DEF Transition
    <3>2. \/ store' = store
          \/ \E rec : store' = [store EXCEPT ![req[d].id] = rec]
      BY <2>2 DEF Transition
    <3> QED
      BY <1>1, <1>2, <1>3, <3>1, <3>2
  <2>3. CASE \/ CommitCapture(d) \/ CommitRefund(d) \/ CommitRevoke(d)
             \/ CommitFail(d) \/ CommitFields(d)
    <3>1. \E rec : Update(d, rec)
      BY <2>3 DEF CommitCapture, CommitRefund, CommitRevoke, CommitFail, CommitFields
    <3> QED
      BY <1>5, <3>1
  <2>4. CASE TakeRefundID(d) \/ ReadBack(d)
    BY <1>1, <2>4 DEF TakeRefundID, ReadBack
  <2> QED
    BY <1>6, <2>1, <2>2, <2>3, <2>4 DEF RepositoryCall
<1>7. ASSUME NEW d \in Clients, NEW i \in Ids, StartMethod(d, i)
      PROVE  FALSE
  <2>1. CASE ConfirmDeclined(d, i)
    BY <1>1, <2>1 DEF ConfirmDeclined
  <2>2. CASE \/ ProceedingMethod(d, i)
             \/ FlittComplete3DS(d, i) /\ store[i].status = "NEW"
    <3>1. PICK op, call, then, sum, to : Proceed(d, op, i, call, then, sum, to)
      BY <2>2, MethodsGrounded
    <3> QED
      BY <1>1, <3>1 DEF Proceed
  <2>3. CASE FlittComplete3DS(d, i) /\ store[i].status # "NEW"
    BY <1>1, <2>3 DEF FlittComplete3DS, Sees
  <2>4. ProceedingMethod(d, i) \/ FlittComplete3DS(d, i) \/ ConfirmDeclined(d, i)
    BY <1>7 DEF StartMethod, ProceedingMethod
  <2> QED
    BY <2>1, <2>2, <2>3, <2>4
<1>8. ASSUME NEW d \in Clients, PanelAction(d)
      PROVE  req[c].id = id
  <2>1. CASE ForceSynthetic(d)
    <3>1. Return(d)
      BY <2>1 DEF ForceSynthetic
    <3>2. \/ store' = store
          \/ \E rec : store' = [store EXCEPT ![req[d].id] = rec]
      BY <2>1 DEF ForceSynthetic, ForceTo
    <3> QED
      BY <1>1, <1>2, <1>3, <3>1, <3>2
  <2>2. CASE \E i \in Ids : ApplyForce(d, i)
    BY <1>1, <2>2 DEF ApplyForce
  <2> QED
    BY <1>4, <1>8, <2>1, <2>2 DEF PanelAction
<1>9. ASSUME NEW w \in webhooks, DeliverWebhook(w) \/ LoseWebhook(w)
      PROVE  FALSE
  BY <1>1, <1>9 DEF DeliverWebhook, LoseWebhook
<1>10. CASE Reset
  BY <1>1, <1>10 DEF Reset
<1>11. CASE UNCHANGED vars
  BY <1>1, <1>11 DEF vars
<1> QED
  BY <1>4, <1>6, <1>7, <1>8, <1>9, <1>10, <1>11 DEF Next, GatewayNext

\* A request of Epay's or Flitt's API looks at its payment's bank once, on a
\* snapshot, and the repository calls it makes later do not look again: even
\* so it only ever changes payments of that bank.
THEOREM BanksAreIsolated == Spec => BankIsolation
<1>1. ASSUME StoryInv, [Next]_vars
      PROVE  \A c \in Clients, id \in Ids : Writes(c, id) =>
               /\ req[c].op \in EpayOps  => store[id].bank = "epay"
               /\ req[c].op \in FlittOps => store[id].bank = "flitt"
  <2> SUFFICES ASSUME NEW c \in Clients, NEW id \in Ids, Writes(c, id),
                      req[c].op \in EpayOps \cup FlittOps
               PROVE  /\ req[c].op \in EpayOps  => store[id].bank = "epay"
                      /\ req[c].op \in FlittOps => store[id].bank = "flitt"
    OBVIOUS
  <2>1. req[c].id = id /\ Exists(id)
    BY <1>1, WritesItsOwn DEF Writes
  <2> QED
    BY <1>1, <2>1 DEF StoryInv, AllRest, Rests
<1> QED
  BY <1>1, StoryInvInit, StoryInvNext, PTL DEF Spec, BankIsolation
=============================================================================
