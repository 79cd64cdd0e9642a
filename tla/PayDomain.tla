----------------------------- MODULE PayDomain -----------------------------
(***************************************************************************)
(* The card-payment record of ChaosPay, the status table it is moved by,   *)
(* and the unsigned arithmetic its amounts are kept in.  Pure operators:   *)
(* the repository and the service that use them are CardPayments.          *)
(***************************************************************************)
EXTENDS Integers

CONSTANTS
  Word,      \* modulus of Go's uint: 2^64 in the program, small under TLC
  MaxId      \* bound on the ids the repository hands out

ASSUME WordAssumption  == Word \in Nat /\ Word > 1
ASSUME MaxIdAssumption == MaxId \in Nat

Uint == 0 .. (Word - 1)
Ids  == 1 .. MaxId

(***************************************************************************)
(* uint arithmetic: both operands are in Uint, so one wrap is enough.      *)
(* AsInt is Go's conversion int(u).                                        *)
(***************************************************************************)
Plus(a, b)  == IF a + b < Word THEN a + b ELSE a + b - Word
\* (Mutant: the difference kept as a signed number.)
SignedMinus(a, b) == a - b
Minus(a, b) == IF a >= b THEN a - b ELSE a - b + Word
AsInt(u)    == IF 2 * u < Word THEN u ELSE u - Word

(***************************************************************************)
(* "any" is bank.Any, the empty bank: the records the Freedom flow creates *)
(* carry it, because no Freedom constructor fills Record.Bank.             *)
(***************************************************************************)
Banks == {"any", "freedom", "epay", "flitt"}

Statuses == {"NEW", "HOLD_PENDING", "AUTHORIZED", "CAPTURED",
             "CANCELLED", "REFUNDED", "PARTIAL_REFUNDED", "FAILED"}

\* Statuses a refund may start from.
\* (Mutant: a payment that is refunded can be refunded again.)
RefundableForEver == {"CAPTURED", "PARTIAL_REFUNDED", "REFUNDED"}
Refundable == {"CAPTURED", "PARTIAL_REFUNDED"}

\* From which statuses a checked transition to target may start; the nil
\* map the code returns for every other target allows them all.
AllowedTransitions(target) ==
  CASE target = "AUTHORIZED" -> {"NEW", "HOLD_PENDING"}
    [] target \in {"CAPTURED", "CANCELLED"} -> {"AUTHORIZED"}
    [] target \in {"REFUNDED", "PARTIAL_REFUNDED"} -> Refundable
    [] OTHER -> Statuses

\* pay.RefundOp: its own payment id, the amount (a uint turned into a signed
\* number and then negated) and whether the bank accepted it.
RefundOp == [id : Ids, amount : {-AsInt(u) : u \in Uint}, ok : BOOLEAN]

\* pay.Record.  history is the set of statuses History has recorded, origin
\* the first of them, sent is WebhookSent.
Record == [bank : Banks, status : Statuses, amount : Uint,
           captured : Uint, refunded : Uint, refunds : SUBSET RefundOp,
           history : SUBSET Statuses, origin : Statuses, sent : BOOLEAN]

\* The record repo.Create stores for a call, in status s.
NewRecord(bank, s, amount) ==
  [bank |-> bank, status |-> s, amount |-> amount,
   captured |-> IF s = "CAPTURED" THEN amount ELSE 0,
   refunded |-> 0, refunds |-> {},
   history |-> {s}, origin |-> s, sent |-> FALSE]

\* The tail of repo.Update: the status a callback returned is stored and,
\* when it differs from the old one, added to the history.
Moved(rec, to) ==
  [rec EXCEPT !.status = to, !.history = @ \cup {to}]

\* The callback Update runs for a capture: no check of the stored status.
Captured(rec, target) == Moved([rec EXCEPT !.captured = target], "CAPTURED")

\* The callback Update runs for a successful refund of delta.
\* (Mutant: off by one in the comparison.)
RefundedOffByOne(rec, delta) ==
  LET total == Plus(rec.refunded, delta)
  IN  Moved([rec EXCEPT !.refunded = total],
            IF total > rec.captured THEN "REFUNDED" ELSE "PARTIAL_REFUNDED")

Refunded(rec, delta) ==
  LET total == Plus(rec.refunded, delta)
  IN  Moved([rec EXCEPT !.refunded = total],
            IF total >= rec.captured THEN "REFUNDED" ELSE "PARTIAL_REFUNDED")

\* A refund of 0 asks for all that is left, and wraps when less than
\* nothing is left.
RefundDelta(rec, asked) ==
  IF asked = 0 THEN Minus(rec.captured, rec.refunded) ELSE asked

\* The callback of the panel's ApplyForce: no check of any kind.
Forced(rec, target) ==
  Moved([rec EXCEPT
           !.captured = IF target = "CAPTURED" /\ @ = 0 THEN rec.amount ELSE @,
           !.refunded = IF target = "REFUNDED" THEN rec.captured ELSE @],
        target)
=============================================================================
