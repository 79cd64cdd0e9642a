----------------------- MODULE CardPaymentsSequential -----------------------
(***************************************************************************)
(* Served one request at a time, the payment service does what its status  *)
(* machine says: CardPayments with a single client implements              *)
(* PaymentLifecycle and never touches the money of a payment that is over, *)
(* for every number of ids and amounts and every word size.                *)
(*                                                                         *)
(* The callbacks of captures and refunds do not look at the status again.  *)
(* With one client nothing has changed it since the request looked at it   *)
(* (InTime): only webhook goroutines, which leave it alone, and a reset,   *)
(* which leaves no payment to write, come between.                         *)
(***************************************************************************)
EXTENDS CardPaymentsHistory

-----------------------------------------------------------------------------
(* The invariant *)

InTime ==
  \A c \in Clients : Exists(req[c].id) =>
    /\ req[c].call = "Capture" => store[req[c].id].status = "AUTHORIZED"
    /\ req[c].call \in RefundCalls => store[req[c].id].status \in Refundable

AloneInv == MoneyInv /\ InTime

\* What a step does to payments that are over, and to PaymentLifecycle's
\* variables.
Over == {"REFUNDED", "CANCELLED", "FAILED"}

LeavesMoney(old, new) ==
  /\ new.captured = old.captured /\ new.refunded = old.refunded
  /\ new.refunds = old.refunds

LeavesOver ==
  \A id \in Ids : Stays(id) /\ store[id].status \in Over =>
    LeavesMoney(store[id], store'[id])

StatusOf == [id \in Ids |-> IF Exists(id) THEN store[id].status ELSE "NONE"]

LifecycleStep == [Lifecycle!LifecycleNext]_(Lifecycle!lifecycleVars)

AloneStep == InTime' /\ LeavesOver /\ LifecycleStep

-----------------------------------------------------------------------------
(* The building blocks of the actions *)

\* The steps of PaymentLifecycle, in terms of StatusOf and UsedIds.
LEMMA StutterStep ==
  ASSUME StatusOf' = StatusOf, UsedIds' = UsedIds
  PROVE  LifecycleStep
BY DEF StatusOf, UsedIds, LifecycleStep, Lifecycle!lifecycleVars

LEMMA TableIsShared ==
  /\ Lifecycle!Ids = Ids /\ Lifecycle!Statuses = Statuses
  /\ \A to : Lifecycle!AllowedTransitions(to) = AllowedTransitions(to)
BY DEF Ids, Lifecycle!Ids, Statuses, Lifecycle!Statuses, AllowedTransitions,
       Lifecycle!AllowedTransitions, Refundable, Lifecycle!Refundable

LEMMA MoveStep ==
  ASSUME NEW id \in Ids, NEW to \in Statuses, to # "NEW",
         StatusOf[id] \in AllowedTransitions(to),
         StatusOf' = [StatusOf EXCEPT ![id] = to], UsedIds' = UsedIds
  PROVE  LifecycleStep
<1>1. Lifecycle!Move(id, to)
  BY TableIsShared DEF StatusOf, UsedIds, Lifecycle!Move
<1> QED
  BY <1>1, TableIsShared DEF LifecycleStep, Lifecycle!LifecycleNext

LEMMA OpenAsStep ==
  ASSUME NEW id \in Ids, NEW s \in {"NEW", "AUTHORIZED", "CAPTURED"},
         id \notin UsedIds, UsedIds' = UsedIds \cup {id},
         StatusOf' = [StatusOf EXCEPT ![id] = s]
  PROVE  LifecycleStep
<1>1. Lifecycle!OpenAs(id, s)
  BY DEF StatusOf, UsedIds, Lifecycle!OpenAs
<1>2. s \in Lifecycle!Statuses
  BY DEF Lifecycle!Statuses
<1> QED
  BY <1>1, <1>2, TableIsShared DEF LifecycleStep, Lifecycle!LifecycleNext

LEMMA TakeIdStep ==
  ASSUME NEW id \in Ids, UsedIds' = UsedIds \cup {id}, StatusOf' = StatusOf
  PROVE  LifecycleStep
<1>1. Lifecycle!TakeId(id)
  BY DEF StatusOf, UsedIds, Lifecycle!TakeId
<1> QED
  BY <1>1, TableIsShared DEF LifecycleStep, Lifecycle!LifecycleNext

LEMMA ForgetStep ==
  ASSUME StatusOf' = [id \in Ids |-> "NONE"], UsedIds' = UsedIds
  PROVE  LifecycleStep
<1>1. Lifecycle!Forget
  BY TableIsShared DEF StatusOf, UsedIds, Lifecycle!Forget
<1> QED
  BY <1>1 DEF LifecycleStep, Lifecycle!LifecycleNext

\* Which ids are used, when c is the only client.
LEMMA UsedAlone ==
  ASSUME NEW c \in Clients, Clients = {c}
  PROVE  /\ UsedIds = IF Reserved(c) THEN 1 .. nextID \ {req[c].id} ELSE 1 .. nextID
         /\ UsedIds' = IF Reserved(c)' THEN 1 .. nextID' \ {req'[c].id}
                       ELSE 1 .. nextID'
BY DEF UsedIds, Reserved

LEMMA SameStatuses ==
  ASSUME store' = store PROVE StatusOf' = StatusOf /\ LeavesOver
BY DEF StatusOf, Exists, LeavesOver, LeavesMoney

\* One record is written, by a move the table allows or none.
LEMMA WriteAlone ==
  ASSUME NEW id \in Ids, Exists(id), NEW rec \in Record, store'[id] = rec,
         \A i \in Ids : i # id => store'[i] = store[i],
         UsedIds' = UsedIds,
         \/ rec.status = store[id].status
         \/ rec.status # "NEW" /\ store[id].status \in AllowedTransitions(rec.status),
         store[id].status \in Over => LeavesMoney(store[id], rec)
  PROVE  LeavesOver /\ LifecycleStep
<1>1. LeavesOver
  BY DEF LeavesOver, LeavesMoney
<1>2. StatusOf[id] = store[id].status /\ rec.status \in Statuses /\ rec # NoPayment
  BY NoPaymentAssumption DEF StatusOf, Record
<1>3. StatusOf' = [StatusOf EXCEPT ![id] = rec.status]
  BY <1>2 DEF StatusOf, Exists
<1>4. CASE rec.status = store[id].status
  <2>1. StatusOf' = StatusOf
    BY <1>2, <1>3, <1>4 DEF StatusOf
  <2> QED
    BY <1>1, <2>1, StutterStep
<1>5. CASE rec.status # "NEW" /\ store[id].status \in AllowedTransitions(rec.status)
  BY <1>1, <1>2, <1>3, <1>5, MoveStep
<1> QED
  BY <1>4, <1>5

\* A request that is not about to capture or refund has nothing to be in
\* time for.
LEMMA NothingPending ==
  ASSUME NEW c \in Clients, Clients = {c},
         req'[c].call \notin {"Capture"} \cup RefundCalls
  PROVE  InTime'
BY DEF InTime, RefundCalls

\* A repository call that ends the request, or leaves it its next call.
LEMMA AfterCall ==
  ASSUME TypeInv, NEW c \in Clients, Clients = {c},
         Return(c) \/ Continue(c), req[c].call # "NextID"
  PROVE  InTime' /\ ~Reserved(c)'
<1> DEFINE r == req[c]
           n == [r EXCEPT !.call = r.then, !.then = r.last, !.last = "none"]
<1>1. req'[c] = Idle \/ req'[c] = n
  BY DEF TypeInv, TypeOK, Return, Continue
<1>2. n.call = r.then
  BY DEF TypeInv, TypeOK, Request
<1>3. r.then \notin {"Capture", "Create"} \cup RefundCalls
  BY DEF TypeInv, AllShaped, Shaped, Idle, OpenerCalls, RefundCalls
<1>4. Idle.call \notin {"Capture", "Create"} \cup RefundCalls
  BY DEF Idle, RefundCalls
<1> HIDE DEF n
<1>5. req'[c].call \notin {"Capture", "Create"} \cup RefundCalls
  BY <1>1, <1>2, <1>3, <1>4
<1> QED
  BY <1>5, NothingPending DEF Reserved

LEMMA UpdateAlone ==
  ASSUME AloneInv, NEW c \in Clients, Clients = {c}, NEW rec, Update(c, rec),
         req[c].call \notin {"none", "NextID", "Create"},
         Exists(req[c].id) =>
           /\ rec \in Record
           /\ \/ rec.status = store[req[c].id].status
              \/ /\ rec.status # "NEW"
                 /\ store[req[c].id].status \in AllowedTransitions(rec.status)
           /\ store[req[c].id].status \in Over => LeavesMoney(store[req[c].id], rec)
  PROVE  AloneStep
<1> DEFINE id == req[c].id
<1>1. TypeInv /\ id \in Ids
  BY DEF AloneInv, MoneyInv, StoryInv, IdInv, TypeInv, AllShaped, Shaped, Idle
<1>2. Return(c) \/ Continue(c)
  BY DEF Update
<1>3. InTime' /\ ~Reserved(c)'
  BY <1>1, <1>2, AfterCall
<1>4. nextID' = nextID
  BY DEF Update
<1>5. UsedIds' = UsedIds
  BY <1>3, <1>4, UsedAlone DEF Reserved
<1>6. CASE ~Exists(id)
  <2>1. store' = store
    BY <1>6 DEF Update
  <2> QED
    BY <1>3, <1>5, <2>1, SameStatuses, StutterStep DEF AloneStep
<1>7. CASE Exists(id)
  <2>1. store' = [store EXCEPT ![id] = rec]
    BY <1>7 DEF Update
  <2>2. store'[id] = rec /\ \A i \in Ids : i # id => store'[i] = store[i]
    BY <1>1, <2>1 DEF TypeInv, TypeOK
  <2> QED
    BY <1>1, <1>3, <1>5, <1>7, <2>2, WriteAlone DEF AloneStep
<1> QED
  BY <1>6, <1>7

-----------------------------------------------------------------------------
(* The actions *)

LEMMA OpenAlone ==
  ASSUME AloneInv, NEW c \in Clients, Clients = {c}, OpenPayment(c)
  PROVE  AloneStep
<1>1. PICK op, sum, to, then, last, force :
        op \in Openers /\ Open(c, op, sum, to, then, last, force)
  BY OpenersOpen DEF AloneInv, MoneyInv, StoryInv, IdInv
<1> DEFINE n == [Idle EXCEPT !.call = "Create", !.then = then, !.last = last,
                             !.op = op, !.id = nextID + 1, !.sum = sum,
                             !.to = to, !.force = force]
<1>2. req'[c] = n /\ nextID' = nextID + 1 /\ store' = store
  BY <1>1 DEF Open, AloneInv, MoneyInv, StoryInv, IdInv, TypeInv, TypeOK
<1>3. n.call = "Create" /\ n.id = nextID + 1
  BY DEF Idle
<1> HIDE DEF n
<1>4. nextID \in Nat
  BY DEF AloneInv, MoneyInv, StoryInv, IdInv, TypeInv, TypeOK
<1>5. ~Reserved(c) /\ Reserved(c)'
  BY <1>1, <1>2, <1>3 DEF Open, Free, Reserved
<1>6. UsedIds' = UsedIds
  <2>1. UsedIds = 1 .. nextID /\ UsedIds' = 1 .. nextID' \ {req'[c].id}
    BY <1>5, UsedAlone
  <2>2. UsedIds' = 1 .. (nextID + 1) \ {nextID + 1}
    BY <1>2, <1>3, <2>1
  <2> QED
    BY <1>4, <2>1, <2>2
<1>7. InTime'
  BY <1>2, <1>3, NothingPending DEF RefundCalls
<1> QED
  BY <1>2, <1>6, <1>7, SameStatuses, StutterStep DEF AloneStep

\* A method starts on what it has just seen.
LEMMA MethodAlone ==
  ASSUME AloneInv, NEW c \in Clients, Clients = {c}, NEW id \in Ids,
         \/ ProceedingMethod(c, id)
         \/ FlittComplete3DS(c, id) /\ store[id].status = "NEW"
  PROVE  AloneStep
<1>1. PICK op, call, then, sum, to :
        /\ Proceed(c, op, id, call, then, sum, to)
        /\ Grounded(op, call, then, to, store[id])
  BY MethodsGrounded
<1>2. Free(c)
  BY DEF ProceedingMethod, FlittComplete3DS, Hold, AuthorizeWallet, Capture,
         EpayCharge, FlittCapture, Cancel, EpayCancel, RevokeWithOutcome,
         EpayRefund, FlittReverse, Sees
<1> DEFINE n == [Idle EXCEPT !.call = call, !.then = then, !.op = op,
                             !.id = id, !.sum = sum, !.to = to]
<1>3. req'[c] = n /\ store' = store /\ nextID' = nextID
  BY <1>1 DEF Proceed, AloneInv, MoneyInv, StoryInv, IdInv, TypeInv, TypeOK
<1>4. n.call = call /\ n.id = id
  BY DEF Idle
<1> HIDE DEF n
<1>5. ~Reserved(c) /\ ~Reserved(c)'
  BY <1>1, <1>2, <1>3, <1>4 DEF Free, Reserved, Grounded
<1>6. UsedIds' = UsedIds
  BY <1>3, <1>5, UsedAlone
<1>7. InTime'
  BY <1>1, <1>3, <1>4 DEF InTime, Grounded, Exists
<1> QED
  BY <1>3, <1>6, <1>7, SameStatuses, StutterStep DEF AloneStep

\* Steps that are no request's: the request in progress is left alone, and
\* its payment keeps its status or is gone.
LEMMA OthersAlone ==
  ASSUME AloneInv, NEW c \in Clients, Clients = {c}, UNCHANGED <<req, nextID>>,
         \A id \in Ids : Exists(id)' =>
           Exists(id) /\ store'[id].status = store[id].status
  PROVE  InTime' /\ UsedIds' = UsedIds
<1>1. req[c].call \in {"Capture"} \cup RefundCalls => req[c].id \in Ids
  BY DEF AloneInv, MoneyInv, StoryInv, IdInv, TypeInv, AllShaped, Shaped, Idle,
         RefundCalls
<1>2. InTime'
  BY <1>1 DEF AloneInv, InTime, RefundCalls
<1> QED
  BY <1>2 DEF UsedIds, Reserved

LEMMA AnsweredAlone ==
  ASSUME AloneInv, NEW c \in Clients, Clients = {c}, NEW id \in Ids,
         FlittComplete3DS(c, id), store[id].status # "NEW"
  PROVE  AloneStep
<1>1. UNCHANGED <<store, nextID, req>>
  BY DEF FlittComplete3DS, Sees
<1>2. InTime' /\ UsedIds' = UsedIds
  BY <1>1, OthersAlone DEF Exists
<1> QED
  BY <1>1, <1>2, SameStatuses, StutterStep DEF AloneStep

LEMMA DeclinedAlone ==
  ASSUME AloneInv, NEW c \in Clients, Clients = {c}, NEW id \in Ids,
         ConfirmDeclined(c, id)
  PROVE  AloneStep
<1>1. /\ Free(c) /\ Exists(id) /\ ForceTo(id, "FAILED") /\ req' = req
      /\ nextID' = nextID /\ "FAILED" \in Statuses
  BY DEF ConfirmDeclined, ForceTo, Statuses
<1>2. store[id] \in Record
  BY <1>1, StoredRecord DEF AloneInv, MoneyInv, StoryInv, IdInv, TypeInv
<1>3. PICK rec \in Record : rec = Forced(store[id], "FAILED")
  BY <1>1, <1>2, ForcedType
<1>4. rec.status = "FAILED" /\ LeavesMoney(store[id], rec)
  BY <1>2, <1>3 DEF Forced, Moved, Record, LeavesMoney
<1>5. store'[id] = rec /\ \A i \in Ids : i # id => store'[i] = store[i]
  BY <1>1, <1>3, ForceStory DEF AloneInv, MoneyInv, StoryInv, IdInv
<1>6. UsedIds' = UsedIds
  BY <1>1 DEF UsedIds, Reserved
<1>7. "FAILED" # "NEW" /\ store[id].status \in AllowedTransitions("FAILED")
  BY <1>2 DEF AllowedTransitions, Record
<1>8. LeavesOver /\ LifecycleStep
  BY <1>1, <1>4, <1>5, <1>6, <1>7, WriteAlone
<1>9. InTime'
  BY <1>1, NothingPending DEF Free, RefundCalls
<1> QED
  BY <1>8, <1>9 DEF AloneStep

LEMMA CreateAlone ==
  ASSUME AloneInv, NEW c \in Clients, Clients = {c}, Create(c)
  PROVE  AloneStep
<1> DEFINE r     == req[c]
           first == IF r.then = "Get" THEN r.to ELSE "NEW"
           rec   == NewRecord(BankOf(r.op), first, r.sum)
<1>1. /\ TypeInv /\ r.call = "Create" /\ Reserved(c) /\ r.id \in Ids
      /\ nextID' = nextID /\ nextID \in Nat /\ r.id <= nextID
  BY DEF AloneInv, MoneyInv, StoryInv, IdInv, UniqueIds, IdsBounded, TypeInv, TypeOK,
         AllShaped, Shaped, Idle, Create, Reserved
<1>2. ~Exists(r.id)
  BY <1>1 DEF AloneInv, MoneyInv, StoryInv, IdInv, UniqueIds, ReservedIsNew
<1>3. first \in {"NEW", "AUTHORIZED", "CAPTURED"}
  BY <1>1 DEF AloneInv, MoneyInv, AllAim, Aims
<1>4. rec.status = first
  BY DEF NewRecord
<1>5. store'[r.id] = rec /\ \A i \in Ids : i # r.id => store'[i] = store[i]
  BY <1>1 DEF Create, TypeInv, TypeOK
<1> HIDE DEF rec, first
<1>6. InTime' /\ ~Reserved(c)'
  BY <1>1, AfterCall DEF Create
<1>7. r.id \notin UsedIds /\ UsedIds' = UsedIds \cup {r.id}
  BY <1>1, <1>6, UsedAlone DEF Ids
<1>8. rec # NoPayment
  <2>1. store'[r.id] \in Record \cup {NoPayment}
    BY <1>1, CreateStep DEF TypeInv, TypeOK
  <2>2. BankOf(r.op) \in Banks /\ first \in Statuses /\ r.sum \in Uint
    BY <1>1, <1>3 DEF BankOf, Banks, Statuses, TypeInv, TypeOK, Request
  <2> QED
    BY <2>2, NewRecordType, NoPaymentAssumption DEF rec
<1>9. StatusOf' = [StatusOf EXCEPT ![r.id] = first]
  BY <1>1, <1>4, <1>5, <1>8 DEF StatusOf, Exists
<1>10. LeavesOver
  BY <1>2, <1>5 DEF LeavesOver, Stays, LeavesMoney, Exists
<1> QED
  BY <1>1, <1>3, <1>6, <1>7, <1>9, <1>10, OpenAsStep DEF AloneStep

LEMMA TransitionAlone ==
  ASSUME AloneInv, NEW c \in Clients, Clients = {c}, Transition(c)
  PROVE  AloneStep
<1> DEFINE r == req[c]
<1>1. /\ TypeInv /\ r.id \in Ids /\ r.to \in Statuses /\ r.call = "Transition"
      /\ r.to \in {"AUTHORIZED", "CANCELLED"} /\ nextID' = nextID
  BY DEF AloneInv, MoneyInv, AllAim, Aims, StoryInv, IdInv, TypeInv, TypeOK, Request,
         AllShaped, Shaped, Idle, Transition
<1>2. InTime' /\ ~Reserved(c)'
  BY <1>1, AfterCall DEF Transition
<1>3. UsedIds' = UsedIds
  BY <1>1, <1>2, UsedAlone DEF Reserved
<1>4. CASE store' = store
  BY <1>2, <1>3, <1>4, SameStatuses, StutterStep DEF AloneStep
<1>5. CASE /\ Exists(r.id) /\ store[r.id].status \in AllowedTransitions(r.to)
           /\ store' = [store EXCEPT ![r.id] = Moved(@, r.to)]
  <2>1. store[r.id] \in Record
    BY <1>1, <1>5, StoredRecord DEF TypeInv
  <2>2. PICK rec \in Record : rec = Moved(store[r.id], r.to)
    BY <1>1, <2>1, MovedType
  <2>3. rec.status = r.to /\ LeavesMoney(store[r.id], rec)
    BY <2>1, <2>2 DEF Moved, Record, LeavesMoney
  <2>4. store'[r.id] = rec /\ \A i \in Ids : i # r.id => store'[i] = store[i]
    BY <1>1, <1>5, <2>2 DEF TypeInv, TypeOK
  <2>5. rec.status # "NEW" /\ store[r.id].status \in AllowedTransitions(rec.status)
    BY <1>1, <1>5, <2>3
  <2> QED
    BY <1>1, <1>2, <1>3, <1>5, <2>3, <2>4, <2>5, WriteAlone DEF AloneStep
<1> QED
  BY <1>4, <1>5 DEF Transition

LEMMA CommitAlone ==
  ASSUME AloneInv, NEW c \in Clients, Clients = {c},
         \/ CommitCapture(c) \/ CommitRefund(c) \/ CommitRevoke(c)
         \/ CommitFail(c) \/ CommitFields(c)
  PROVE  AloneStep
<1> DEFINE r == req[c]
           old == store[r.id]
           Lands(rec) ==
             /\ rec \in Record
             /\ \/ rec.status = old.status
                \/ rec.status # "NEW" /\ old.status \in AllowedTransitions(rec.status)
             /\ old.status \in Over => LeavesMoney(old, rec)
<1>1. TypeInv /\ r.sum \in Uint
  BY DEF AloneInv, MoneyInv, StoryInv, IdInv, TypeInv, TypeOK, Request
<1>2. r.call \notin {"none", "NextID"} => r.id \in Ids
  BY <1>1 DEF TypeInv, AllShaped, Shaped, Idle
<1>3. r.call \notin {"none", "NextID"} /\ Exists(r.id) => old \in Record
  BY <1>1, <1>2, StoredRecord DEF TypeInv
<1>4. CASE CommitCapture(c)
  <2>1. r.call = "Capture" /\ Update(c, Captured(old, r.sum))
    BY <1>4 DEF CommitCapture
  <2>2. ASSUME Exists(r.id) PROVE Lands(Captured(old, r.sum))
    <3>1. old \in Record /\ old.status = "AUTHORIZED"
      BY <1>3, <2>1, <2>2 DEF AloneInv, InTime
    <3> QED
      BY <1>1, <3>1, CapturedType, CapturedFields DEF AllowedTransitions, Over
  <2> QED
    BY <2>1, <2>2, UpdateAlone
<1>5. ASSUME NEW ok \in BOOLEAN, NEW noted, r.call = "Refund",
             Exists(r.id) => noted \in Record /\ noted.status = old.status,
             Update(c, IF ok THEN Refunded(noted, r.sum) ELSE noted)
      PROVE  AloneStep
  <2>1. Exists(r.id) => old \in Record /\ old.status \in Refundable
    BY <1>3, <1>5 DEF AloneInv, InTime, RefundCalls
  <2>2. \A s \in RefundStatuses : s # "NEW" /\ AllowedTransitions(s) = Refundable
    BY DEF RefundStatuses, AllowedTransitions
  <2>3. CASE ok
    <3>1. ASSUME Exists(r.id) PROVE Lands(Refunded(noted, r.sum))
      <4>1. /\ Refunded(noted, r.sum) \in Record
            /\ Refunded(noted, r.sum).status \in RefundStatuses
        BY <1>1, <1>5, <3>1, RefundedType, RefundedFields DEF RefundStatuses
      <4> QED
        BY <2>1, <2>2, <3>1, <4>1 DEF Over, Refundable
    <3>2. Update(c, Refunded(noted, r.sum))
      BY <1>5, <2>3
    <3> QED
      BY <1>5, <3>1, <3>2, UpdateAlone
  <2>4. CASE ~ok
    <3>1. Exists(r.id) => Lands(noted)
      BY <1>5, <2>1 DEF Over, Refundable
    <3>2. Update(c, noted)
      BY <1>5, <2>4
    <3> QED
      BY <1>5, <3>1, <3>2, UpdateAlone
  <2> QED
    BY <2>3, <2>4
<1>6. CASE CommitRefund(c)
  <2>1. r.call = "Refund" /\ Update(c, IF TRUE THEN Refunded(old, r.sum) ELSE old)
    BY <1>6 DEF CommitRefund
  <2> QED
    BY <1>3, <1>5, <2>1
<1>7. CASE CommitRevoke(c)
  <2> DEFINE op(ok)    == [id |-> r.refundID, amount |-> -AsInt(r.sum), ok |-> ok]
             noted(ok) == [old EXCEPT !.refunds = @ \cup {op(ok)}]
  <2>1. PICK ok \in BOOLEAN :
          Update(c, IF ok THEN Refunded(noted(ok), r.sum) ELSE noted(ok))
    BY <1>7 DEF CommitRevoke
  <2>2. r.call = "Refund" /\ r.op = "Revoke" /\ Shaped(r)
    BY <1>1, <1>7 DEF CommitRevoke, TypeInv, AllShaped
  <2>3. r.refundID \in Ids
    BY <2>2 DEF Shaped, Idle, OneCallOps, Openers
  <2>4. op(ok) \in RefundOp
    BY <1>1, <2>3, RefundOpType
  <2> HIDE DEF op
  <2>5. Exists(r.id) => noted(ok) \in Record /\ noted(ok).status = old.status
    <3>1. Exists(r.id) => old \in Record
      BY <1>3, <2>2
    <3> QED
      BY <2>4, <3>1, NotedType DEF Record
  <2> HIDE DEF noted
  <2> QED
    BY <1>5, <2>1, <2>2, <2>5
<1>8. CASE CommitFail(c)
  <2>1. r.call = "Fail" /\ Update(c, Moved(old, "FAILED")) /\ "FAILED" \in Statuses
    BY <1>8 DEF CommitFail, Statuses
  <2>2. ASSUME Exists(r.id) PROVE Lands(Moved(old, "FAILED"))
    <3>1. old \in Record
      BY <1>3, <2>1, <2>2
    <3>2. old.status \in AllowedTransitions("FAILED")
      BY <3>1 DEF AllowedTransitions, Record
    <3>3. LeavesMoney(old, Moved(old, "FAILED"))
      BY <3>1 DEF LeavesMoney, Moved, Record
    <3> QED
      BY <2>1, <3>1, <3>2, <3>3, MovedType, MovedFields
  <2> QED
    BY <2>1, <2>2, UpdateAlone
<1>9. CASE CommitFields(c)
  <2>1. r.call \in {"Challenge", "SetKind"} /\ Update(c, old)
    BY <1>9 DEF CommitFields
  <2>2. Exists(r.id) => Lands(old)
    BY <1>3, <2>1 DEF LeavesMoney
  <2> QED
    BY <2>1, <2>2, UpdateAlone
<1> QED
  BY <1>4, <1>6, <1>7, <1>8, <1>9

\* The refund's own id is taken.
LEMMA TakeRefundIDAlone ==
  ASSUME AloneInv, NEW c \in Clients, Clients = {c}, TakeRefundID(c)
  PROVE  AloneStep
<1> DEFINE n == [req[c] EXCEPT !.call = "Refund", !.then = "none",
                               !.refundID = nextID + 1]
<1>1. /\ TypeInv /\ nextID \in Nat /\ nextID + 1 \in Ids /\ nextID' = nextID + 1
      /\ store' = store /\ req[c].call = "NextID" /\ req'[c] = n
  BY MaxIdAssumption
  DEF AloneInv, MoneyInv, StoryInv, IdInv, TypeInv, TypeOK, TakeRefundID, Ids
<1>2. n.call = "Refund" /\ n.id = req[c].id
  BY <1>1 DEF TypeInv, TypeOK, Request
<1> HIDE DEF n
<1>3. InTime'
  BY <1>1, <1>2 DEF AloneInv, InTime, RefundCalls, Exists
<1>4. UsedIds' = UsedIds \cup {nextID + 1}
  <2>1. ~Reserved(c) /\ ~Reserved(c)'
    BY <1>1, <1>2 DEF Reserved
  <2>2. UsedIds = 1 .. nextID /\ UsedIds' = 1 .. nextID'
    BY <2>1, UsedAlone
  <2> QED
    BY <1>1, <2>2
<1> QED
  BY <1>1, <1>3, <1>4, SameStatuses, TakeIdStep DEF AloneStep

LEMMA ReadBackAlone ==
  ASSUME AloneInv, NEW c \in Clients, Clients = {c}, ReadBack(c)
  PROVE  AloneStep
<1>1. /\ TypeInv /\ req[c].call = "Get" /\ Return(c)
      /\ store' = store /\ nextID' = nextID
  BY DEF AloneInv, MoneyInv, StoryInv, IdInv, ReadBack
<1>2. InTime' /\ ~Reserved(c)'
  BY <1>1, AfterCall
<1>3. UsedIds' = UsedIds
  BY <1>1, <1>2, UsedAlone DEF Reserved
<1> QED
  BY <1>1, <1>2, <1>3, SameStatuses, StutterStep DEF AloneStep

LEMMA WebhookAlone ==
  ASSUME AloneInv, NEW c \in Clients, Clients = {c},
         NEW w \in webhooks, DeliverWebhook(w) \/ LoseWebhook(w)
  PROVE  AloneStep
<1>1. UNCHANGED <<req, nextID>>
  BY DEF DeliverWebhook, LoseWebhook
<1>2. w.id \in Ids /\ TypeInv
  BY DEF AloneInv, MoneyInv, StoryInv, IdInv, TypeInv, TypeOK, Webhook
<1>3. CASE store' = store
  <2>1. InTime' /\ UsedIds' = UsedIds
    BY <1>1, <1>3, OthersAlone DEF Exists
  <2> QED
    BY <1>3, <2>1, SameStatuses, StutterStep DEF AloneStep
<1>4. CASE Exists(w.id) /\ store' = [store EXCEPT ![w.id].sent = TRUE]
  <2>1. PICK rec : rec = [store[w.id] EXCEPT !.sent = TRUE]
    OBVIOUS
  <2>2. store[w.id] \in Record
    BY <1>2, <1>4, StoredRecord DEF TypeInv
  <2>3. /\ rec \in Record /\ rec.status = store[w.id].status
        /\ LeavesMoney(store[w.id], rec)
    BY <2>1, <2>2 DEF Record, LeavesMoney
  <2>4. store'[w.id] = rec /\ \A i \in Ids : i # w.id => store'[i] = store[i]
    BY <1>2, <1>4, <2>1 DEF TypeInv, TypeOK
  <2>5. InTime' /\ UsedIds' = UsedIds
    BY <1>1, <1>4, <2>3, <2>4, OthersAlone DEF Exists
  <2> QED
    BY <1>2, <1>4, <2>3, <2>4, <2>5, WriteAlone DEF AloneStep
<1> QED
  BY <1>3, <1>4 DEF DeliverWebhook, LoseWebhook

LEMMA ResetAlone ==
  ASSUME AloneInv, NEW c \in Clients, Clients = {c}, Reset
  PROVE  AloneStep
<1>1. UNCHANGED <<req, nextID>> /\ \A id \in Ids : store'[id] = NoPayment
  BY DEF Reset
<1>2. InTime' /\ UsedIds' = UsedIds
  BY <1>1, OthersAlone DEF Exists
<1>3. StatusOf' = [id \in Ids |-> "NONE"] /\ LeavesOver
  BY <1>1 DEF StatusOf, Exists, LeavesOver, Stays
<1> QED
  BY <1>2, <1>3, ForgetStep DEF AloneStep

-----------------------------------------------------------------------------
(* The theorems *)

LEMMA AloneSteps ==
  ASSUME AloneInv, [GatewayNext]_vars, NEW c, Clients = {c}
  PROVE  AloneStep
<1>1. ASSUME OpenPayment(c) PROVE AloneStep
  BY <1>1, OpenAlone
<1>2. ASSUME RepositoryCall(c) PROVE AloneStep
  BY <1>2, CreateAlone, TransitionAlone, CommitAlone, TakeRefundIDAlone, ReadBackAlone
  DEF RepositoryCall
<1>3. ASSUME NEW id \in Ids, StartMethod(c, id) PROVE AloneStep
  <2>1. ProceedingMethod(c, id) \/ FlittComplete3DS(c, id) \/ ConfirmDeclined(c, id)
    BY <1>3 DEF StartMethod, ProceedingMethod
  <2> QED
    BY <2>1, MethodAlone, AnsweredAlone, DeclinedAlone
<1>4. ASSUME NEW w \in webhooks, DeliverWebhook(w) \/ LoseWebhook(w)
      PROVE  AloneStep
  BY <1>4, WebhookAlone
<1>5. CASE UNCHANGED vars
  <2>1. UNCHANGED <<store, req, nextID>>
    BY <1>5 DEF vars
  <2>2. InTime' /\ UsedIds' = UsedIds
    BY <2>1, OthersAlone DEF Exists
  <2> QED
    BY <2>1, <2>2, SameStatuses, StutterStep DEF AloneStep
<1> QED
  BY <1>1, <1>2, <1>3, <1>4, <1>5, ResetAlone DEF GatewayNext

LEMMA AloneInvInit == Init => AloneInv
<1> SUFFICES ASSUME Init PROVE AloneInv
  OBVIOUS
<1>1. InTime
  BY DEF Init, InTime, Idle, RefundCalls
<1> QED
  BY <1>1, MoneyInvInit DEF AloneInv

LEMMA AloneInvNext ==
  ASSUME AloneInv, [GatewayNext]_vars, NEW c, Clients = {c}
  PROVE  AloneInv'
BY AloneSteps, MoneyInvNext DEF AloneInv, AloneStep

\* Served one request at a time, a payment that is refunded, cancelled or
\* declined keeps what was captured and refunded of it and its refund
\* operations: no later request and no webhook touches them, although the
\* callbacks of captures and refunds do not look at the status.
THEOREM OverIsOver ==
  ASSUME NEW c, Clients = {c}
  PROVE  GatewaySpec => FinalMeansFinal
<1>1. Init => AloneInv
  BY AloneInvInit
<1>2. AloneInv /\ [GatewayNext]_vars => AloneInv'
  BY AloneInvNext
<1>3. AloneInv /\ [GatewayNext]_vars =>
        \A id \in Ids :
          Stays(id) /\ store[id].status \in {"REFUNDED", "CANCELLED", "FAILED"}
            => /\ store'[id].captured = store[id].captured
               /\ store'[id].refunded = store[id].refunded
               /\ store'[id].refunds  = store[id].refunds
  BY AloneSteps DEF AloneStep, LeavesOver, LeavesMoney, Over
<1> QED
  BY <1>1, <1>2, <1>3, PTL DEF GatewaySpec, FinalMeansFinal

\* Served one request at a time, the service and its repository implement
\* the status machine: each initial state and each step of CardPayments maps
\* to one of PaymentLifecycle or to a stutter, and no payment is ever opened
\* under an id that was used.
THEOREM ServiceKeepsLifecycle ==
  ASSUME NEW c, Clients = {c}
  PROVE  GatewaySpec => ImplementsLifecycle
<1>1. Init => AloneInv
  BY AloneInvInit
<1>2. AloneInv /\ [GatewayNext]_vars => AloneInv'
  BY AloneInvNext
<1>3. Init => Lifecycle!LifecycleInit
  <2> SUFFICES ASSUME Init PROVE Lifecycle!LifecycleInit
    OBVIOUS
  <2>1. StatusOf = [id \in Ids |-> "NONE"]
    BY DEF Init, StatusOf, Exists
  <2>2. UsedIds = {}
    BY DEF Init, UsedIds
  <2> QED
    BY <2>1, <2>2, TableIsShared DEF StatusOf, UsedIds, Lifecycle!LifecycleInit
<1>4. AloneInv /\ [GatewayNext]_vars =>
        [Lifecycle!LifecycleNext]_(Lifecycle!lifecycleVars)
  BY AloneSteps DEF AloneStep, LifecycleStep
<1> QED
  BY <1>1, <1>2, <1>3, <1>4, PTL
  DEF GatewaySpec, ImplementsLifecycle, Lifecycle!LifecycleSpec
=============================================================================
