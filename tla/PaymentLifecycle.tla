-------------------------- MODULE PaymentLifecycle --------------------------
(***************************************************************************)
(* What the card-payment component promises of each payment: the status    *)
(* machine of docs/architecture.md, with the moves AllowedTransitions      *)
(* lists and nothing else.  A payment is opened, authorized, captured or   *)
(* cancelled, refunded, declined; a reset forgets every payment, and an id *)
(* that was used once is never opened again.                               *)
(***************************************************************************)
EXTENDS PayDomain

VARIABLES
  status,  \* status of the payment under each id, "NONE" when there is none
  used     \* ids that have been taken, by a payment or by a refund

lifecycleVars == <<status, used>>

LifecycleInit ==
  /\ status = [id \in Ids |-> "NONE"]
  /\ used = {}

\* A payment starts NEW; an operation the bank reports late starts as the
\* bank left it.
OpenAs(id, s) ==
  /\ id \notin used
  /\ s \in {"NEW", "AUTHORIZED", "CAPTURED"}
  /\ used' = used \cup {id}
  /\ status' = [status EXCEPT ![id] = s]

Move(id, to) ==
  /\ status[id] \in AllowedTransitions(to)
  /\ to # "NEW"
  /\ status' = [status EXCEPT ![id] = to]
  /\ UNCHANGED used

\* A refund takes an id of its own.
TakeId(id) ==
  /\ used' = used \cup {id}
  /\ UNCHANGED status

Forget ==
  /\ status' = [id \in Ids |-> "NONE"]
  /\ UNCHANGED used

LifecycleNext ==
  \/ \E id \in Ids, s \in Statuses : OpenAs(id, s) \/ Move(id, s)
  \/ \E id \in Ids : TakeId(id)
  \/ Forget

LifecycleSpec == LifecycleInit /\ [][LifecycleNext]_lifecycleVars
=============================================================================
