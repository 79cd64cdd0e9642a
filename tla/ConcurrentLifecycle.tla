------------------------ MODULE ConcurrentLifecycle ------------------------
(***************************************************************************)
(* What the card-payment component promises any number of clients at once, *)
(* when requests act on what they saw of a payment some time ago.  The     *)
(* statuses no longer follow the table of PaymentLifecycle: a charge or a  *)
(* refund may land on a payment that has moved on, and a decline on any.   *)
(* What remains is that each change takes effect in one step, on one       *)
(* payment, and rests on the payment's own past: holds and cancellations   *)
(* obey the table, what was never authorized is not charged, what was      *)
(* never charged is not refunded, and only charges and refunds touch the   *)
(* money.                                                                  *)
(***************************************************************************)
EXTENDS PayDomain

VARIABLES
  payment,  \* the payment under each id: its status, the statuses it has
            \* been in, what was captured and what was refunded of it
  used      \* ids that have been taken, by a payment or by a refund

concurrentVars == <<payment, used>>

None == [status |-> "NONE", past |-> {}, captured |-> 0, refunded |-> 0]

ConcurrentInit ==
  /\ payment = [id \in Ids |-> None]
  /\ used = {}

\* A payment starts NEW; an operation the bank reports late starts as the
\* bank left it.
Open(id) ==
  /\ id \notin used
  /\ used' = used \cup {id}
  /\ \E s \in {"NEW", "AUTHORIZED", "CAPTURED"}, sum \in Uint :
       payment' = [payment EXCEPT ![id] =
                     [status |-> s, past |-> {s},
                      captured |-> IF s = "CAPTURED" THEN sum ELSE 0,
                      refunded |-> 0]]

Becomes(id, s, captured, refunded) ==
  payment' = [payment EXCEPT ![id] =
                [status |-> s, past |-> @.past \cup {s},
                 captured |-> captured, refunded |-> refunded]]

\* A hold or a cancellation.
Settle(id) ==
  /\ UNCHANGED used
  /\ \E to \in {"AUTHORIZED", "CANCELLED"} :
       /\ payment[id].status \in AllowedTransitions(to)
       /\ Becomes(id, to, payment[id].captured, payment[id].refunded)

\* A charge replaces the amount an earlier one has captured.
Charge(id) ==
  /\ UNCHANGED used
  /\ "AUTHORIZED" \in payment[id].past
  /\ \E sum \in Uint : Becomes(id, "CAPTURED", sum, payment[id].refunded)

GiveBack(id) ==
  /\ UNCHANGED used
  /\ "CAPTURED" \in payment[id].past
  /\ \E sum \in Uint :
       LET total == Plus(payment[id].refunded, sum)
       IN  Becomes(id,
                   IF total >= payment[id].captured THEN "REFUNDED"
                   ELSE "PARTIAL_REFUNDED",
                   payment[id].captured, total)

Decline(id) ==
  /\ UNCHANGED used
  /\ payment[id] # None
  /\ Becomes(id, "FAILED", payment[id].captured, payment[id].refunded)

\* A refund takes an id of its own.
TakeId(id) ==
  /\ id \notin used
  /\ used' = used \cup {id}
  /\ UNCHANGED payment

Forget ==
  /\ payment' = [id \in Ids |-> None]
  /\ UNCHANGED used

ConcurrentNext ==
  \/ \E id \in Ids : \/ Open(id) \/ TakeId(id)
                     \/ Settle(id) \/ Charge(id) \/ GiveBack(id) \/ Decline(id)
  \/ Forget

ConcurrentSpec == ConcurrentInit /\ [][ConcurrentNext]_concurrentVars
=============================================================================
