------------------------------ MODULE QRCodes ------------------------------
(***************************************************************************)
(* FreedomQR: the memory store of the QR codes, the service above it, and  *)
(* the handlers of the bank's API and of the panel that use it.            *)
(*                                                                         *)
(* Every method of the store runs under its lock and is one step.  A code  *)
(* is changed by the bank's API and by the panel, and by a goroutine that  *)
(* waits for its time to live to pass, reads the code, and only then, in   *)
(* another step, marks it expired.  Requests that are refused change       *)
(* nothing and are no steps; amounts and references are left out.          *)
(***************************************************************************)
EXTENDS Naturals, Sequences, FiniteSets

CONSTANTS
  Codes,       \* the uuids; the factory never gives one twice
  Merchants,   \* bin, tid and mid of a code
  Readers,     \* requests for the status of a refund that may be under way
  MaxClock,    \* bound on the wall clock, which is assumed not to run back
  NoCode       \* what the store has under an unknown uuid

VARIABLES
  codes,       \* r.store
  counter,     \* r.trnCounter
  clock,       \* time.Now, in the resolution of TrnID
  timer,       \* the goroutine autoExpire of a code
  reader,      \* the refunds get-refund-status has read and lists payments for
  issued,      \* history: every TrnID given out
  told,        \* history: what the webhooks' goroutines were handed
  autos,       \* history: the automatic webhooks of a code
  confirmed,   \* history: the confirmations of a refund that were answered OK
  offers       \* history: the payments offered for a refund

qrVars == <<codes, counter, clock, timer, reader, issued, told, autos, confirmed, offers>>
histories == <<issued, told, autos, confirmed, offers>>

Open  == {"NEW", "SCANNED", "other"}
Final == {"SUCCESS", "EXPIRED", "CANCELLED", "ERROR"}

Code ==
  [status : Open \cup Final, refund : BOOLEAN, merchant : Merchants, trn : Nat,
   returned : BOOLEAN, sent : BOOLEAN]

ASSUME NoCodeAssumption == NoCode \notin Code

Known(u)   == codes[u] # NoCode
IsFinal(u) == codes[u].status \in Final

NewCode(refund, m) ==
  [status |-> "NEW", refund |-> refund, merchant |-> m, trn |-> 0,
   returned |-> FALSE, sent |-> FALSE]

QRInit ==
  /\ codes = [u \in Codes |-> NoCode] /\ counter = 0 /\ clock = 1
  /\ timer = [u \in Codes |-> "none"] /\ reader = [r \in Readers |-> NoCode]
  /\ issued = <<>> /\ told = {} /\ offers = {}
  /\ autos = [u \in Codes |-> 0] /\ confirmed = [u \in Codes |-> 0]

Tick ==
  /\ clock < MaxClock
  /\ clock' = clock + 1
  /\ UNCHANGED <<codes, counter, timer, reader, histories>>

\* The code is stored, and a goroutine waits for its time to live to pass.
Generate(u, refund, m) ==
  /\ timer[u] = "none"
  /\ codes' = [codes EXCEPT ![u] = NewCode(refund, m)]
  /\ timer' = [timer EXCEPT ![u] = "armed"]
  /\ UNCHANGED <<counter, clock, reader, histories>>

-----------------------------------------------------------------------------
(* Statuses *)

\* TrnID is the clock and a counter, so that two of one instant differ.
Trn == clock + counter + 1

Succeed(u, returned) ==
  /\ codes' = [codes EXCEPT ![u].status = "SUCCESS", ![u].trn = Trn,
                            ![u].returned = returned]
  /\ counter' = counter + 1
  /\ issued' = Append(issued, Trn)

Snapshot(u) == [uuid |-> u, says |-> codes'[u].status, trn |-> codes'[u].trn]

\* UpdateStatus checks under the lock what its caller may have checked before.
\* (Mutant: it does not.)
StillKnown(u) == Known(u)
MayChange(u)  == Known(u) /\ ~IsFinal(u)

\* UpdateStatus, and the webhook of a code that has come to its end.
UpdateStatus(u, s) ==
  /\ MayChange(u)
  /\ \/ s = "SUCCESS" /\ Succeed(u, FALSE)
     \/ /\ s # "SUCCESS"
        /\ codes' = [codes EXCEPT ![u].status = s]
        /\ UNCHANGED <<counter, issued>>
  /\ told'  = IF s \in Final THEN told \cup {Snapshot(u)} ELSE told
  /\ autos' = IF s \in Final THEN [autos EXCEPT ![u] = @ + 1] ELSE autos
  /\ UNCHANGED <<clock, reader, confirmed, offers>>

\* change-status of the API, which takes any status, and the panel's buttons.
ChangeStatus(u, s) == UpdateStatus(u, s) /\ UNCHANGED timer

\* The panel's "Send Webhook".
SendWebhook(u) ==
  /\ Known(u) /\ IsFinal(u)
  /\ codes' = [codes EXCEPT ![u].sent = TRUE]
  /\ told' = told \cup {Snapshot(u)}
  /\ UNCHANGED <<counter, clock, timer, reader, issued, autos, confirmed, offers>>

\* (Mutant: the numbering starts again.)
CounterReset == 0
CounterKept  == counter

QRReset ==
  /\ codes' = [u \in Codes |-> NoCode]
  /\ counter' = CounterKept
  /\ UNCHANGED <<clock, timer, reader, histories>>

-----------------------------------------------------------------------------
(* Expiry: autoExpire *)

\* The timer fires after the time to live; a second later its context is done
\* as well, and a goroutine that has not run by then takes either.
TimeUp(u) ==
  /\ timer[u] = "armed"
  /\ timer' = [timer EXCEPT ![u] = "fired"]
  /\ UNCHANGED <<codes, counter, clock, reader, histories>>

TooLate(u) ==
  /\ timer[u] = "fired"
  /\ timer' = [timer EXCEPT ![u] = "late"]
  /\ UNCHANGED <<codes, counter, clock, reader, histories>>

GiveUp(u) ==
  /\ timer[u] = "late"
  /\ timer' = [timer EXCEPT ![u] = "missed"]
  /\ UNCHANGED <<codes, counter, clock, reader, histories>>

LookAgain(u) ==
  /\ timer[u] \in {"fired", "late"}
  /\ timer' = [timer EXCEPT ![u] = IF MayChange(u) THEN "expiring" ELSE "done"]
  /\ UNCHANGED <<codes, counter, clock, reader, histories>>

\* (Mutant: the goroutine does not go on to expire the code.)
ExpiredLater(u) == UNCHANGED <<codes, counter, clock, reader, histories>>
MarkExpired(u) ==
  \/ UpdateStatus(u, "EXPIRED")
  \/ /\ ~MayChange(u)
     /\ UNCHANGED <<codes, counter, clock, reader, histories>>

Expire(u) ==
  /\ timer[u] = "expiring"
  /\ timer' = [timer EXCEPT ![u] = "done"]
  /\ MarkExpired(u)

AutoExpire(u) == GiveUp(u) \/ LookAgain(u) \/ Expire(u)

-----------------------------------------------------------------------------
(* Refunds *)

\* get-refund-status reads the code, and if it is scanned the payments of its
\* merchant, each under the lock, but not both at once.
ReadRefund(r, u) ==
  /\ reader[r] = NoCode
  /\ Known(u) /\ codes[u].refund /\ codes[u].status = "SCANNED"
  /\ reader' = [reader EXCEPT ![r] = [refund |-> u, merchant |-> codes[u].merchant]]
  /\ UNCHANGED <<codes, counter, clock, timer, histories>>

\* (Mutants: payments that did not succeed are listed too; those of another
\* merchant are.)
AnyPayment(u, m)  == Known(u) /\ ~codes[u].refund /\ codes[u].merchant = m
AnyMerchant(u, m) == Known(u) /\ ~codes[u].refund /\ codes[u].status = "SUCCESS"
Refundable(u, m)  == AnyPayment(u, m) /\ codes[u].status = "SUCCESS"

ListPayments(r) ==
  /\ reader[r] # NoCode
  /\ offers' = offers \cup
       {[uuid |-> u, trn |-> codes[u].trn, refund |-> reader[r].refund] :
          u \in {x \in Codes : Refundable(x, reader[r].merchant)}}
  /\ reader' = [reader EXCEPT ![r] = NoCode]
  /\ UNCHANGED <<codes, counter, clock, timer, issued, told, autos, confirmed>>

\* A refund is confirmed without a webhook.
\* (Mutant: a refund that was confirmed may be confirmed again.)
ConfirmsAgain(u) == codes[u].status \in {"SCANNED", "SUCCESS"}
Confirmable(u)   == codes[u].status = "SCANNED"

ConfirmRefund(u) ==
  /\ Known(u) /\ codes[u].refund
  /\ Confirmable(u)
  /\ Succeed(u, TRUE)
  /\ confirmed' = [confirmed EXCEPT ![u] = @ + 1]
  /\ UNCHANGED <<clock, timer, reader, told, autos, offers>>

QRNext ==
  \/ Tick \/ QRReset
  \/ \E u \in Codes :
       \/ \E refund \in BOOLEAN : \E m \in Merchants : Generate(u, refund, m)
       \/ \E s \in Open \cup Final : ChangeStatus(u, s)
       \/ SendWebhook(u) \/ ConfirmRefund(u)
       \/ TimeUp(u) \/ TooLate(u) \/ AutoExpire(u)
       \/ \E r \in Readers : ReadRefund(r, u)
  \/ \E r \in Readers : ListPayments(r)

\* Time passes, and a goroutine that is ready runs.
QRFairness == \A u \in Codes : WF_qrVars(TimeUp(u)) /\ WF_qrVars(AutoExpire(u))

QRSpec == QRInit /\ [][QRNext]_qrVars /\ QRFairness

-----------------------------------------------------------------------------
(* Properties *)

QRTypeOK ==
  /\ \A u \in Codes : Known(u) => codes[u] \in Code /\ timer[u] # "none"
  /\ clock \in Nat /\ counter \in Nat /\ Len(issued) >= counter
  /\ \A r \in Readers : reader[r] \in [refund : Codes, merchant : Merchants] \cup {NoCode}

\* What has come to an end stays as it is, until the panel forgets it: neither
\* the goroutine that found it open before nor a second button press changes
\* its status or its TrnID (QRRepo.UpdateStatus, "already in terminal state").
EndIsFinal ==
  [][\A u \in Codes :
       Known(u) /\ IsFinal(u) /\ codes'[u] # NoCode =>
         /\ codes'[u].status = codes[u].status
         /\ codes'[u].trn = codes[u].trn]_qrVars

\* A TrnID is there exactly when the code succeeded, and no two codes of a run
\* ever have the same one, however many succeed at the same instant and
\* whatever the panel resets.
TrnIdentifies ==
  /\ \A u \in Codes : Known(u) => (codes[u].status = "SUCCESS" <=> codes[u].trn # 0)
  /\ \A i, j \in DOMAIN issued : i # j => issued[i] # issued[j]

\* All webhooks about a code, automatic or not, say the same, and what the
\* store says: the order they arrive in does not matter.
WebhooksAgree ==
  /\ \A a, b \in told : a.uuid = b.uuid => a = b
  /\ \A a \in told : Known(a.uuid) =>
       codes[a.uuid].status = a.says /\ codes[a.uuid].trn = a.trn

\* The end of a code is announced once without being asked for, whoever
\* brought it about; only the end of a confirmed refund is not.
AnnouncedOnce ==
  \A u \in Codes :
    Known(u) => autos[u] = IF IsFinal(u) /\ ~codes[u].returned THEN 1 ELSE 0

\* At most one confirmation of a refund is answered OK, and then the refund
\* has succeeded for good: it is neither cancelled nor expired under the
\* client that was told so.
RefundConfirmedOnce ==
  \A u \in Codes :
    /\ confirmed[u] <= 1
    /\ confirmed[u] = 1 /\ Known(u) => codes[u].returned /\ codes[u].status = "SUCCESS"

\* What was offered for a refund is a payment, and remains a successful one of
\* the refund's own merchant under the same TrnID, as long as the panel forgets
\* neither, although it is listed in a second call, by what the first one read
\* of the refund (ListSuccessfulPayments).
OffersStayGood ==
  \A o \in offers :
    /\ o.trn # 0
    /\ Known(o.uuid) =>
         /\ ~codes[o.uuid].refund
         /\ codes[o.uuid].status = "SUCCESS" /\ codes[o.uuid].trn = o.trn
         /\ Known(o.refund) => codes[o.uuid].merchant = codes[o.refund].merchant

\* An open code is never on its own: its goroutine is still to come to it, or
\* took its context for the timer.  One that is through with it has left no
\* code open, whoever changed it between the look and the write (autoExpire).
OpenIsWatched ==
  \A u \in Codes :
    Known(u) /\ ~IsFinal(u) =>
      timer[u] \in {"armed", "fired", "late", "expiring", "missed"}

\* Every code comes to an end, unless its goroutine ran more than a second
\* late and took the context for the timer.
CodesEnd ==
  \A u \in Codes :
    timer[u] = "armed" ~> (~Known(u) \/ IsFinal(u) \/ timer[u] = "missed")
=============================================================================
