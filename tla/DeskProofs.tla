----------------------------- MODULE DeskProofs -----------------------------
(***************************************************************************)
(* Proofs about the parts of Desk, for every value of the constants: the   *)
(* QR codes, the Kaspi payments, the request log, and in the end the three *)
(* together.                                                               *)
(*                                                                         *)
(* QRInv is inductive.  TrnIDs are distinct because each is above all      *)
(* those given out, and none is above the clock plus the counter.  All the *)
(* rest is about one code at a time (CodeInv): a code that was never       *)
(* generated has left no trace, so that one that is forgotten is forgotten *)
(* for ever; and what the webhooks, the confirmations and the offers       *)
(* recorded of a code is what the store says of it, as long as it does.    *)
(* Belongs, inductive on top of it, is about pairs: a payment offered for  *)
(* a refund, and a refund read for a list, have one merchant.              *)
(*                                                                         *)
(* KaspiInv is inductive: the links made are numbered 1, 2, ... in the     *)
(* order made, each is stored under its number, and has the status that    *)
(* was set for that number last.                                           *)
(*                                                                         *)
(* LogInv is inductive.  It says what IdsAreRecent says, of the ids, of    *)
(* how many there are and of the requests under them, and of a page shown  *)
(* since the last reset that each of its ids is still in the log or has    *)
(* been pushed out of it; OpenedAsShown rests on the last two.             *)
(***************************************************************************)
EXTENDS Desk, SequenceTheorems, TLAPS

Timers == {"none", "armed", "fired", "late", "missed", "expiring", "done"}

QRTypes ==
  /\ codes \in [Codes -> Code \cup {NoCode}]
  /\ counter \in Nat /\ clock \in Nat
  /\ timer \in [Codes -> Timers]
  /\ autos \in [Codes -> Nat] /\ confirmed \in [Codes -> Nat]
  /\ issued \in Seq(Nat)
  /\ told \subseteq [uuid : Codes, says : Open \cup Final, trn : Nat]

IssuedInOrder ==
  /\ \A i \in DOMAIN issued : issued[i] <= clock + counter
  /\ \A i, j \in DOMAIN issued : i < j => issued[i] < issued[j]

NoTrace(u) ==
  /\ ~Known(u) /\ autos[u] = 0 /\ confirmed[u] = 0
  /\ \A a \in told : a.uuid # u
  /\ \A o \in offers : o.uuid # u

\* The code as the store has it, against what was told of it.
InStore(u) ==
  /\ codes[u].status = "SUCCESS" <=> codes[u].trn # 0
  /\ codes[u].returned => codes[u].status = "SUCCESS"
  /\ autos[u] = IF IsFinal(u) /\ ~codes[u].returned THEN 1 ELSE 0
  /\ confirmed[u] = 1 => codes[u].returned
  /\ \A a \in told : a.uuid = u =>
       IsFinal(u) /\ a.says = codes[u].status /\ a.trn = codes[u].trn
  /\ \A o \in offers : o.uuid = u =>
       codes[u].status = "SUCCESS" /\ codes[u].trn = o.trn

OneStory(u) ==
  /\ confirmed[u] <= 1
  /\ \A a, b \in told : a.uuid = u /\ b.uuid = u => a = b
  /\ \A o \in offers : o.uuid = u => o.trn # 0

CodeInv(u) ==
  /\ timer[u] = "none" => NoTrace(u)
  /\ OneStory(u)
  /\ Known(u) => InStore(u)

OffersOfCodes == \A o \in offers : o.uuid \in Codes

QRInv == QRTypes /\ IssuedInOrder /\ OffersOfCodes /\ \A u \in Codes : CodeInv(u)

-----------------------------------------------------------------------------
(* Steps that leave the codes and their histories alone *)

Quiet ==
  /\ UNCHANGED <<codes, counter, histories>>
  /\ clock' \in Nat /\ clock <= clock'
  /\ timer' \in [Codes -> Timers]
  /\ \A u \in Codes : timer'[u] = "none" => timer[u] = "none"

LEMMA QuietKeeps == ASSUME QRInv, Quiet PROVE QRInv'
<1>1. QRTypes'
  BY DEF QRInv, QRTypes, Quiet, histories
<1>2. IssuedInOrder'
  <2>1. clock \in Nat /\ counter \in Nat /\ issued \in Seq(Nat)
    BY DEF QRInv, QRTypes
  <2>2. \A i \in DOMAIN issued : issued[i] \in Nat /\ issued[i] <= clock + counter
    BY <2>1 DEF QRInv, IssuedInOrder
  <2>3. \A i \in DOMAIN issued : issued[i] <= clock' + counter
    BY <2>1, <2>2 DEF Quiet
  <2> QED
    BY <2>3 DEF QRInv, IssuedInOrder, Quiet, histories
<1>3. ASSUME NEW u \in Codes
      PROVE  CodeInv(u)'
  <2>1. CodeInv(u)
    BY DEF QRInv
  <2> QED
    BY <2>1 DEF CodeInv, NoTrace, InStore, OneStory, Known, IsFinal, Quiet, histories
<1>4. OffersOfCodes'
  BY DEF QRInv, OffersOfCodes, Quiet, histories
<1> QED
  BY <1>1, <1>2, <1>3, <1>4 DEF QRInv

LEMMA TimersAreQuiet ==
  ASSUME QRInv, NEW u \in Codes, TimeUp(u) \/ TooLate(u) \/ GiveUp(u) \/ LookAgain(u)
  PROVE  Quiet
<1>1. PICK s \in Timers : s # "none" /\ timer' = [timer EXCEPT ![u] = s]
  <2>1. CASE TimeUp(u) \/ TooLate(u) \/ GiveUp(u)
    BY <2>1 DEF TimeUp, TooLate, GiveUp, Timers
  <2>2. CASE LookAgain(u)
    <3>1. CASE MayChange(u)
      BY <2>2, <3>1 DEF LookAgain, Timers
    <3>2. CASE ~MayChange(u)
      BY <2>2, <3>2 DEF LookAgain, Timers
    <3> QED
      BY <3>1, <3>2
  <2> QED
    BY <2>1, <2>2
<1>2. UNCHANGED <<codes, counter, clock, histories>>
  BY DEF TimeUp, TooLate, GiveUp, LookAgain
<1> QED
  BY <1>1, <1>2 DEF Quiet, QRInv, QRTypes

LEMMA ClockAndReadersAreQuiet ==
  ASSUME QRInv, Tick \/ \E u \in Codes : \E r \in Readers : ReadRefund(r, u)
  PROVE  Quiet
  BY DEF Tick, ReadRefund, Quiet, QRInv, QRTypes

-----------------------------------------------------------------------------
(* Steps about one code *)

LEMMA GenerateKeeps ==
  ASSUME QRInv, NEW u \in Codes, NEW refund \in BOOLEAN, NEW m \in Merchants,
         Generate(u, refund, m)
  PROVE  QRInv'
<1>1. /\ timer[u] = "none" /\ timer' = [timer EXCEPT ![u] = "armed"]
      /\ codes' = [codes EXCEPT ![u] = NewCode(refund, m)]
      /\ UNCHANGED <<counter, clock, histories>>
  BY DEF Generate
<1>2. NewCode(refund, m) \in Code /\ NewCode(refund, m) # NoCode
      /\ NewCode(refund, m).status = "NEW" /\ NewCode(refund, m).trn = 0
      /\ NewCode(refund, m).returned = FALSE
  <2>1. NewCode(refund, m) \in Code
    BY DEF NewCode, Code, Open
  <2>2. NewCode(refund, m) # NoCode
    BY <2>1, NoCodeAssumption
  <2> QED
    BY <2>1, <2>2 DEF NewCode
<1>3. QRTypes'
  <2>1. codes' \in [Codes -> Code \cup {NoCode}]
    BY <1>1, <1>2 DEF QRInv, QRTypes
  <2>2. timer' \in [Codes -> Timers]
    BY <1>1 DEF QRInv, QRTypes, Timers
  <2> QED
    BY <1>1, <2>1, <2>2 DEF QRInv, QRTypes, histories
<1>4. IssuedInOrder'
  BY <1>1 DEF QRInv, IssuedInOrder, histories
<1>5. NoTrace(u)
  BY <1>1 DEF QRInv, CodeInv
<1>6. ASSUME NEW v \in Codes
      PROVE  CodeInv(v)'
  <2>1. CodeInv(v)
    BY DEF QRInv
  <2>2. CASE v # u
    <3>1. codes'[v] = codes[v] /\ timer'[v] = timer[v]
      BY <1>1, <2>2 DEF QRInv, QRTypes
    <3> QED
      BY <1>1, <2>1, <3>1 DEF CodeInv, NoTrace, InStore, OneStory, Known, IsFinal, histories
  <2>3. CASE v = u
    <3>1. codes'[v] = NewCode(refund, m) /\ timer'[v] = "armed"
      BY <1>1, <2>3 DEF QRInv, QRTypes
    <3>2. ~IsFinal(v)'
      BY <1>2, <3>1 DEF IsFinal, Final
    <3>3. InStore(v)'
      BY <1>1, <1>2, <1>5, <2>3, <3>1, <3>2 DEF NoTrace, InStore, histories
    <3>4. OneStory(v)'
      BY <1>1, <2>1 DEF CodeInv, OneStory, histories
    <3> QED
      BY <3>1, <3>3, <3>4 DEF CodeInv
  <2> QED
    BY <2>2, <2>3
<1>7. OffersOfCodes'
  BY <1>1 DEF QRInv, OffersOfCodes, histories
<1> QED
  BY <1>3, <1>4, <1>6, <1>7 DEF QRInv

\* A code that succeeds is given a TrnID above all others.
LEMMA SucceedIssues ==
  ASSUME QRTypes, IssuedInOrder, clock' = clock,
         counter' = counter + 1, issued' = Append(issued, Trn)
  PROVE  issued' \in Seq(Nat) /\ IssuedInOrder' /\ Trn \in Nat /\ Trn # 0
<1>1. PICK n, k \in Nat : n = Len(issued) /\ k = clock + counter
  BY DEF QRTypes
<1>2. Trn = k + 1 /\ clock' + counter' = k + 1
  BY <1>1 DEF QRTypes, Trn
<1>3. /\ issued \in Seq(Nat) /\ issued' \in Seq(Nat)
      /\ DOMAIN issued = 1 .. n /\ DOMAIN issued' = 1 .. (n + 1)
      /\ \A i \in 1 .. n : issued'[i] = issued[i] /\ issued[i] \in Nat
      /\ issued'[n + 1] = k + 1
  BY <1>1, <1>2 DEF QRTypes
<1>4. \A i \in 1 .. n : issued[i] <= k
  BY <1>1, <1>3 DEF IssuedInOrder
<1>5. \A i \in 1 .. (n + 1) : i = n + 1 \/ i \in 1 .. n
  OBVIOUS
<1>6. \A i \in 1 .. (n + 1) : issued'[i] <= k + 1
  BY <1>3, <1>4, <1>5
<1>7. ASSUME NEW i \in 1 .. (n + 1), NEW j \in 1 .. (n + 1), i < j
      PROVE  issued'[i] < issued'[j]
  <2>1. i \in 1 .. n
    BY <1>7
  <2>2. CASE j = n + 1
    BY <1>3, <1>4, <2>1, <2>2
  <2>3. CASE j \in 1 .. n
    BY <1>3, <1>7, <2>1, <2>3 DEF IssuedInOrder
  <2> QED
    BY <1>5, <2>2, <2>3
<1> QED
  BY <1>2, <1>3, <1>6, <1>7 DEF IssuedInOrder

\* What UpdateStatus does to a code that is open, in one form for every status.
LEMMA UpdateStatusEffect ==
  ASSUME QRInv, NEW u \in Codes, NEW s \in Open \cup Final, UpdateStatus(u, s)
  PROVE  /\ Known(u) /\ ~IsFinal(u)
         /\ codes' \in [Codes -> Code \cup {NoCode}] /\ codes'[u] \in Code
         /\ \A v \in Codes : v # u => codes'[v] = codes[v]
         /\ codes'[u].status = s
         /\ s = "SUCCESS" <=> codes'[u].trn # 0
         /\ codes'[u].returned = FALSE
         /\ counter' \in Nat /\ issued' \in Seq(Nat) /\ IssuedInOrder'
<1>1. Known(u) /\ ~IsFinal(u) /\ codes[u] \in Code /\ clock' = clock
  BY DEF UpdateStatus, MayChange, QRInv, QRTypes, Known
<1>2. InStore(u)
  BY <1>1 DEF QRInv, CodeInv
<1>3. codes[u].status # "SUCCESS" /\ codes[u].trn = 0 /\ codes[u].returned = FALSE
  BY <1>1, <1>2 DEF InStore, IsFinal, Final, Code
<1>4. CASE s = "SUCCESS" /\ Succeed(u, FALSE)
  <2>1. Trn \in Nat /\ Trn # 0 /\ issued' \in Seq(Nat) /\ IssuedInOrder'
    BY <1>1, <1>4, SucceedIssues DEF Succeed, QRInv
  <2>2. codes' = [codes EXCEPT ![u].status = "SUCCESS", ![u].trn = Trn, ![u].returned = FALSE]
        /\ counter' = counter + 1
    BY <1>4 DEF Succeed
  <2>3. codes'[u] = [codes[u] EXCEPT !.status = "SUCCESS", !.trn = Trn, !.returned = FALSE]
        /\ \A v \in Codes : v # u => codes'[v] = codes[v]
        /\ DOMAIN codes' = Codes
    BY <2>2 DEF QRInv, QRTypes
  <2>4. codes'[u] \in Code
    BY <1>1, <2>1, <2>3 DEF Code, Final
  <2>5. codes' \in [Codes -> Code \cup {NoCode}]
    BY <2>2, <2>3, <2>4 DEF QRInv, QRTypes
  <2>6. codes'[u].status = "SUCCESS" /\ codes'[u].trn = Trn /\ codes'[u].returned = FALSE
    BY <1>1, <2>3 DEF Code
  <2> QED
    BY <1>1, <1>4, <2>1, <2>2, <2>3, <2>4, <2>5, <2>6 DEF QRInv, QRTypes
<1>5. CASE /\ s # "SUCCESS" /\ codes' = [codes EXCEPT ![u].status = s]
           /\ UNCHANGED <<counter, issued>>
  <2>1. codes'[u] = [codes[u] EXCEPT !.status = s]
        /\ \A v \in Codes : v # u => codes'[v] = codes[v]
    BY <1>5 DEF QRInv, QRTypes
  <2>2. codes'[u] \in Code /\ codes'[u].status = s /\ codes'[u].trn = codes[u].trn
        /\ codes'[u].returned = codes[u].returned
    BY <1>1, <2>1 DEF Code
  <2>3. codes' \in [Codes -> Code \cup {NoCode}]
    BY <1>5, <2>1, <2>2 DEF QRInv, QRTypes
  <2>4. IssuedInOrder' /\ counter' \in Nat /\ issued' \in Seq(Nat)
    BY <1>1, <1>5 DEF QRInv, QRTypes, IssuedInOrder
  <2> QED
    BY <1>1, <1>3, <1>5, <2>1, <2>2, <2>3, <2>4
<1> QED
  BY <1>4, <1>5 DEF UpdateStatus

\* timer' stands for what the caller of UpdateStatus does to the timers.
LEMMA UpdateStatusKeeps ==
  ASSUME QRInv, NEW u \in Codes, NEW s \in Open \cup Final, UpdateStatus(u, s),
         timer' \in [Codes -> Timers],
         \A v \in Codes : timer'[v] = "none" => timer[v] = "none"
  PROVE  QRInv'
<1>1. /\ Known(u) /\ ~IsFinal(u)
      /\ codes' \in [Codes -> Code \cup {NoCode}] /\ codes'[u] \in Code
      /\ \A v \in Codes : v # u => codes'[v] = codes[v]
      /\ codes'[u].status = s
      /\ s = "SUCCESS" <=> codes'[u].trn # 0
      /\ codes'[u].returned = FALSE
      /\ counter' \in Nat /\ issued' \in Seq(Nat) /\ IssuedInOrder'
  BY UpdateStatusEffect
<1>2. /\ UNCHANGED <<clock, confirmed, offers>>
      /\ told' = IF s \in Final THEN told \cup {Snapshot(u)} ELSE told
      /\ autos' = IF s \in Final THEN [autos EXCEPT ![u] = @ + 1] ELSE autos
  BY DEF UpdateStatus
<1>3. Snapshot(u) = [uuid |-> u, says |-> s, trn |-> codes'[u].trn]
  BY <1>1 DEF Snapshot
<1>4. Snapshot(u) \in [uuid : Codes, says : Open \cup Final, trn : Nat]
  BY <1>1, <1>3 DEF Code
<1>5. QRTypes'
  BY <1>1, <1>2, <1>4 DEF QRInv, QRTypes
<1>6. ASSUME NEW v \in Codes
      PROVE  CodeInv(v)'
  <2>1. CodeInv(v)
    BY DEF QRInv
  <2>2. CASE v # u
    <3>1. codes'[v] = codes[v] /\ autos'[v] = autos[v] /\ (timer'[v] = "none" => timer[v] = "none")
      BY <1>1, <1>2, <2>2 DEF QRInv, QRTypes
    <3>2. \A a \in told' : a.uuid = v => a \in told
      BY <1>2, <1>3, <2>2
    <3>3. NoTrace(v) => NoTrace(v)'
      BY <1>2, <3>1, <3>2 DEF NoTrace, Known
    <3>4. OneStory(v)'
      BY <1>2, <2>1, <3>2 DEF CodeInv, OneStory
    <3>5. Known(v)' => InStore(v)'
      BY <1>2, <2>1, <3>1, <3>2 DEF CodeInv, InStore, Known, IsFinal
    <3> QED
      BY <2>1, <3>1, <3>3, <3>4, <3>5 DEF CodeInv
  <2>3. CASE v = u
    <3>1. InStore(u) /\ OneStory(u)
      BY <1>1, <2>1, <2>3 DEF CodeInv
    <3>2. timer'[u] # "none"
      BY <1>1, <2>1, <2>3 DEF CodeInv, NoTrace
    <3>3. (\A a \in told : a.uuid # u) /\ (\A o \in offers : o.uuid # u)
      <4>1. codes[u].status # "SUCCESS"
        BY <1>1 DEF IsFinal, Final
      <4> QED
        BY <1>1, <3>1, <4>1 DEF InStore
    <3>4. \A a \in told' : a.uuid = u => a = Snapshot(u) /\ s \in Final
      BY <1>2, <3>3
    <3>5. autos'[u] = IF s \in Final THEN 1 ELSE 0
      <4>1. autos[u] = 0
        BY <1>1, <3>1 DEF InStore
      <4> QED
        BY <1>2, <4>1 DEF QRInv, QRTypes
    <3>6. confirmed[u] # 1
      BY <1>1, <3>1 DEF InStore, IsFinal, Final
    <3>7. InStore(u)'
      BY <1>1, <1>2, <1>3, <3>3, <3>4, <3>5, <3>6 DEF InStore, IsFinal
    <3>8. OneStory(u)'
      BY <1>2, <3>1, <3>3, <3>4 DEF OneStory
    <3> QED
      BY <2>3, <3>2, <3>7, <3>8 DEF CodeInv
  <2> QED
    BY <2>2, <2>3
<1>7. OffersOfCodes'
  BY <1>2 DEF QRInv, OffersOfCodes
<1> QED
  BY <1>1, <1>5, <1>6, <1>7 DEF QRInv

LEMMA ChangeStatusKeeps ==
  ASSUME QRInv, NEW u \in Codes, NEW s \in Open \cup Final, ChangeStatus(u, s)
  PROVE  QRInv'
<1>1. UpdateStatus(u, s) /\ timer' = timer
  BY DEF ChangeStatus
<1>2. timer' \in [Codes -> Timers]
  BY <1>1 DEF QRInv, QRTypes
<1> QED
  BY <1>1, <1>2, UpdateStatusKeeps

LEMMA ExpireKeeps ==
  ASSUME QRInv, NEW u \in Codes, Expire(u)
  PROVE  QRInv'
<1>1. /\ timer' \in [Codes -> Timers]
      /\ \A v \in Codes : timer'[v] = "none" => timer[v] = "none"
  BY DEF Expire, QRInv, QRTypes, Timers
<1>2. CASE UpdateStatus(u, "EXPIRED")
  <2>1. "EXPIRED" \in Open \cup Final
    BY DEF Final
  <2> QED
    BY <1>1, <1>2, <2>1, UpdateStatusKeeps
<1>3. CASE UNCHANGED <<codes, counter, clock, reader, histories>>
  <2>1. Quiet
    BY <1>1, <1>3 DEF Quiet, QRInv, QRTypes
  <2> QED
    BY <2>1, QuietKeeps
<1> QED
  BY <1>2, <1>3 DEF Expire, MarkExpired

LEMMA SendWebhookKeeps ==
  ASSUME QRInv, NEW u \in Codes, SendWebhook(u)
  PROVE  QRInv'
<1>1. /\ Known(u) /\ IsFinal(u)
      /\ codes' = [codes EXCEPT ![u].sent = TRUE]
      /\ told' = told \cup {Snapshot(u)}
      /\ UNCHANGED <<counter, clock, timer, issued, autos, confirmed, offers>>
  BY DEF SendWebhook
<1>2. codes[u] \in Code
  BY <1>1 DEF QRInv, QRTypes, Known
<1>3. codes'[u] = [codes[u] EXCEPT !.sent = TRUE]
      /\ \A v \in Codes : v # u => codes'[v] = codes[v]
  BY <1>1 DEF QRInv, QRTypes
<1>4. /\ codes'[u] \in Code /\ codes'[u].status = codes[u].status
      /\ codes'[u].trn = codes[u].trn /\ codes'[u].returned = codes[u].returned
  BY <1>2, <1>3 DEF Code
<1>5. Snapshot(u) = [uuid |-> u, says |-> codes[u].status, trn |-> codes[u].trn]
  BY <1>4 DEF Snapshot
<1>6. QRTypes'
  <2>1. Snapshot(u) \in [uuid : Codes, says : Open \cup Final, trn : Nat]
    BY <1>2, <1>5 DEF Code
  <2>2. codes' \in [Codes -> Code \cup {NoCode}]
    BY <1>1, <1>3, <1>4 DEF QRInv, QRTypes
  <2> QED
    BY <1>1, <2>1, <2>2 DEF QRInv, QRTypes
<1>7. IssuedInOrder'
  BY <1>1 DEF QRInv, IssuedInOrder
<1>8. ASSUME NEW v \in Codes
      PROVE  CodeInv(v)'
  <2>1. CodeInv(v)
    BY DEF QRInv
  <2>2. CASE v # u
    <3>1. codes'[v] = codes[v] /\ \A a \in told' : a.uuid = v => a \in told
      BY <1>1, <1>3, <1>5, <2>2
    <3> QED
      BY <1>1, <2>1, <3>1 DEF CodeInv, NoTrace, InStore, OneStory, Known, IsFinal
  <2>3. CASE v = u
    <3>1. InStore(u) /\ OneStory(u) /\ timer[u] # "none"
      BY <1>1, <2>1, <2>3 DEF CodeInv, NoTrace
    <3>2. \A a \in told : a.uuid = u => a = Snapshot(u)
      <4>1. ASSUME NEW a \in told, a.uuid = u
            PROVE  a = Snapshot(u)
        <5>1. a.says = codes[u].status /\ a.trn = codes[u].trn
          BY <3>1, <4>1 DEF InStore
        <5>2. a \in [uuid : Codes, says : Open \cup Final, trn : Nat]
          BY DEF QRInv, QRTypes
        <5> QED
          BY <1>5, <4>1, <5>1, <5>2
      <4> QED
        BY <4>1
    <3>3. \A a \in told' : a.uuid = u => a = Snapshot(u)
      BY <1>1, <3>2
    <3>4. OneStory(u)'
      BY <1>1, <3>1, <3>3 DEF OneStory
    <3>5. InStore(u)'
      BY <1>1, <1>4, <1>5, <3>1, <3>3 DEF InStore, IsFinal
    <3> QED
      BY <1>1, <2>3, <3>1, <3>4, <3>5 DEF CodeInv
  <2> QED
    BY <2>2, <2>3
<1>9. OffersOfCodes'
  BY <1>1 DEF QRInv, OffersOfCodes
<1> QED
  BY <1>6, <1>7, <1>8, <1>9 DEF QRInv

LEMMA QRResetKeeps == ASSUME QRInv, QRReset PROVE QRInv'
<1>1. /\ codes' = [u \in Codes |-> NoCode]
      /\ UNCHANGED <<counter, clock, timer, histories>>
  BY DEF QRReset, CounterKept
<1>2. QRTypes' /\ IssuedInOrder' /\ OffersOfCodes'
  BY <1>1 DEF QRInv, QRTypes, IssuedInOrder, OffersOfCodes, histories
<1>3. ASSUME NEW u \in Codes
      PROVE  CodeInv(u)'
  <2>1. CodeInv(u) /\ codes'[u] = NoCode
    BY <1>1 DEF QRInv
  <2> QED
    BY <1>1, <2>1 DEF CodeInv, NoTrace, OneStory, Known, histories
<1> QED
  BY <1>2, <1>3 DEF QRInv

LEMMA ListPaymentsKeeps ==
  ASSUME QRInv, NEW r \in Readers, ListPayments(r)
  PROVE  QRInv'
<1>1. /\ UNCHANGED <<codes, counter, clock, timer, issued, told, autos, confirmed>>
      /\ \A o \in offers' :
           \/ o \in offers
           \/ \E x \in Codes : /\ Known(x) /\ codes[x].status = "SUCCESS"
                               /\ o.uuid = x /\ o.trn = codes[x].trn
  BY DEF ListPayments, Refundable, AnyPayment
<1>2. QRTypes' /\ IssuedInOrder'
  BY <1>1 DEF QRInv, QRTypes, IssuedInOrder
<1>3. ASSUME NEW u \in Codes
      PROVE  CodeInv(u)'
  <2>1. CodeInv(u)
    BY DEF QRInv
  <2>2. \A o \in offers' : o.uuid = u =>
          \/ o \in offers
          \/ Known(u) /\ codes[u].status = "SUCCESS" /\ o.trn = codes[u].trn
    <3> SUFFICES ASSUME NEW o \in offers', o.uuid = u, o \notin offers
                 PROVE  Known(u) /\ codes[u].status = "SUCCESS" /\ o.trn = codes[u].trn
      OBVIOUS
    <3>1. PICK x \in Codes : /\ Known(x) /\ codes[x].status = "SUCCESS"
                             /\ o.uuid = x /\ o.trn = codes[x].trn
      BY <1>1
    <3> QED
      BY <3>1 DEF Known
  <2>3. NoTrace(u) => NoTrace(u)'
    BY <1>1, <2>2 DEF NoTrace, Known
  <2>4. OneStory(u)'
    BY <1>1, <2>1, <2>2 DEF CodeInv, OneStory, InStore
  <2>5. Known(u)' => InStore(u)'
    BY <1>1, <2>1, <2>2 DEF CodeInv, InStore, Known, IsFinal
  <2> QED
    BY <1>1, <2>1, <2>3, <2>4, <2>5 DEF CodeInv
<1>4. OffersOfCodes'
  BY <1>1 DEF QRInv, OffersOfCodes
<1> QED
  BY <1>2, <1>3, <1>4 DEF QRInv

LEMMA ConfirmRefundKeeps ==
  ASSUME QRInv, NEW u \in Codes, ConfirmRefund(u)
  PROVE  QRInv'
<1>1. /\ Known(u) /\ codes[u].status = "SCANNED"
      /\ codes' = [codes EXCEPT ![u].status = "SUCCESS", ![u].trn = Trn, ![u].returned = TRUE]
      /\ counter' = counter + 1 /\ issued' = Append(issued, Trn)
      /\ confirmed' = [confirmed EXCEPT ![u] = @ + 1]
      /\ UNCHANGED <<clock, timer, told, autos, offers>>
  BY DEF ConfirmRefund, Confirmable, Succeed
<1>2. codes[u] \in Code
  BY <1>1 DEF QRInv, QRTypes, Known
<1>3. Trn \in Nat /\ Trn # 0 /\ issued' \in Seq(Nat) /\ IssuedInOrder'
  BY <1>1, SucceedIssues DEF QRInv
<1>4. codes'[u] = [codes[u] EXCEPT !.status = "SUCCESS", !.trn = Trn, !.returned = TRUE]
      /\ \A v \in Codes : v # u => codes'[v] = codes[v]
  BY <1>1 DEF QRInv, QRTypes
<1>5. /\ codes'[u] \in Code /\ codes'[u].status = "SUCCESS"
      /\ codes'[u].trn = Trn /\ codes'[u].returned = TRUE
  BY <1>2, <1>3, <1>4 DEF Code, Final
<1>6. QRTypes'
  <2>1. codes' \in [Codes -> Code \cup {NoCode}]
    BY <1>1, <1>4, <1>5 DEF QRInv, QRTypes
  <2>2. counter' \in Nat /\ clock' \in Nat /\ confirmed' \in [Codes -> Nat]
    BY <1>1 DEF QRInv, QRTypes
  <2> QED
    BY <1>1, <1>3, <2>1, <2>2 DEF QRInv, QRTypes
<1>7. ASSUME NEW v \in Codes
      PROVE  CodeInv(v)'
  <2>1. CodeInv(v)
    BY DEF QRInv
  <2>2. CASE v # u
    <3>1. codes'[v] = codes[v] /\ confirmed'[v] = confirmed[v]
      BY <1>1, <1>4, <2>2 DEF QRInv, QRTypes
    <3> QED
      BY <1>1, <2>1, <3>1 DEF CodeInv, NoTrace, InStore, OneStory, Known, IsFinal
  <2>3. CASE v = u
    <3>1. InStore(u) /\ OneStory(u) /\ timer[u] # "none"
      BY <1>1, <2>1, <2>3 DEF CodeInv, NoTrace
    <3>2. codes[u].returned = FALSE /\ ~IsFinal(u)
      BY <1>1, <1>2, <3>1 DEF InStore, IsFinal, Final, Code
    <3>3. /\ autos[u] = 0 /\ confirmed[u] # 1
          /\ \A a \in told : a.uuid # u
          /\ \A o \in offers : o.uuid # u
      BY <1>1, <3>1, <3>2 DEF InStore
    <3>4. confirmed'[u] = 1
      <4>1. confirmed[u] \in Nat /\ confirmed'[u] = confirmed[u] + 1
        BY <1>1 DEF QRInv, QRTypes
      <4>2. confirmed[u] <= 1
        BY <3>1 DEF OneStory
      <4> QED
        BY <3>3, <4>1, <4>2
    <3>5. OneStory(u)'
      BY <1>1, <3>3, <3>4 DEF OneStory
    <3>6. InStore(u)'
      BY <1>1, <1>3, <1>5, <3>3 DEF InStore
    <3> QED
      BY <1>1, <2>3, <3>1, <3>5, <3>6 DEF CodeInv
  <2> QED
    BY <2>2, <2>3
<1>8. OffersOfCodes'
  BY <1>1 DEF QRInv, OffersOfCodes
<1> QED
  BY <1>3, <1>6, <1>7, <1>8 DEF QRInv

-----------------------------------------------------------------------------
(* The invariant *)

LEMMA QRInvAtFirst == QRInit => QRInv
<1> SUFFICES ASSUME QRInit
             PROVE  QRInv
  OBVIOUS
<1>1. QRTypes
  <2>1. codes \in [Codes -> Code \cup {NoCode}] /\ timer \in [Codes -> Timers]
    BY DEF QRInit, Timers
  <2>2. autos \in [Codes -> Nat] /\ confirmed \in [Codes -> Nat]
        /\ counter \in Nat /\ clock \in Nat
    BY DEF QRInit
  <2>3. issued = <<>> /\ told = {}
    BY DEF QRInit
  <2> QED
    BY <2>1, <2>2, <2>3 DEF QRTypes
<1>2. IssuedInOrder
  BY DEF QRInit, IssuedInOrder
<1>3. \A u \in Codes : CodeInv(u)
  BY DEF QRInit, CodeInv, NoTrace, OneStory, Known
<1>4. OffersOfCodes
  BY DEF QRInit, OffersOfCodes
<1> QED
  BY <1>1, <1>2, <1>3, <1>4 DEF QRInv

LEMMA QRInvIsInductive == QRInv /\ [QRNext]_qrVars => QRInv'
<1> SUFFICES ASSUME QRInv, [QRNext]_qrVars
             PROVE  QRInv'
  OBVIOUS
<1>1. CASE Tick \/ \E u \in Codes : \E r \in Readers : ReadRefund(r, u)
  BY <1>1, ClockAndReadersAreQuiet, QuietKeeps
<1>2. CASE QRReset
  BY <1>2, QRResetKeeps
<1>3. ASSUME NEW u \in Codes, NEW refund \in BOOLEAN, NEW m \in Merchants,
             Generate(u, refund, m)
      PROVE  QRInv'
  BY <1>3, GenerateKeeps
<1>4. ASSUME NEW u \in Codes, NEW s \in Open \cup Final, ChangeStatus(u, s)
      PROVE  QRInv'
  BY <1>4, ChangeStatusKeeps
<1>5. ASSUME NEW u \in Codes, SendWebhook(u) \/ ConfirmRefund(u) \/ Expire(u)
      PROVE  QRInv'
  BY <1>5, SendWebhookKeeps, ConfirmRefundKeeps, ExpireKeeps
<1>6. ASSUME NEW u \in Codes, TimeUp(u) \/ TooLate(u) \/ GiveUp(u) \/ LookAgain(u)
      PROVE  QRInv'
  BY <1>6, TimersAreQuiet, QuietKeeps
<1>7. ASSUME NEW r \in Readers, ListPayments(r)
      PROVE  QRInv'
  BY <1>7, ListPaymentsKeeps
<1>8. CASE UNCHANGED qrVars
  <2>1. Quiet
    BY <1>8 DEF Quiet, qrVars, histories, QRInv, QRTypes
  <2> QED
    BY <2>1, QuietKeeps
<1> QED
  BY <1>1, <1>2, <1>3, <1>4, <1>5, <1>6, <1>7, <1>8 DEF QRNext, AutoExpire

LEMMA QRInvHolds == QRSpec => []QRInv
<1>1. QRInit => QRInv
  BY QRInvAtFirst
<1>2. QRInv /\ [QRNext]_qrVars => QRInv'
  BY QRInvIsInductive
<1> QED
  BY <1>1, <1>2, PTL DEF QRSpec

-----------------------------------------------------------------------------
(* Payments and refunds of one merchant *)

\* No step changes what a code was made as: one that was ever generated is
\* never generated again.
AsMade(u) ==
  /\ timer'[u] # "none"
  /\ Known(u)' => /\ Known(u)
                  /\ codes'[u].merchant = codes[u].merchant
                  /\ codes'[u].refund = codes[u].refund

LEMMA UpdatesKeepMake ==
  ASSUME QRInv, NEW u \in Codes, NEW v \in Codes, NEW s \in Open \cup Final,
         UpdateStatus(v, s)
  PROVE  Known(u)' => /\ Known(u)
                      /\ codes'[u].merchant = codes[u].merchant
                      /\ codes'[u].refund = codes[u].refund
<1>1. Known(v) /\ \A w \in Codes : w # v => codes'[w] = codes[w]
  BY UpdateStatusEffect
<1>2. codes[v] \in Code /\ codes \in [Codes -> Code \cup {NoCode}]
  BY <1>1 DEF QRInv, QRTypes, Known
<1>3. codes'[v].merchant = codes[v].merchant /\ codes'[v].refund = codes[v].refund
  BY <1>2 DEF UpdateStatus, Succeed, Code
<1> QED
  BY <1>1, <1>3 DEF Known

LEMMA StepsKeepMake ==
  ASSUME QRInv, [QRNext]_qrVars, NEW u \in Codes, timer[u] # "none"
  PROVE  AsMade(u)
<1>1. codes \in [Codes -> Code \cup {NoCode}] /\ timer \in [Codes -> Timers]
  BY DEF QRInv, QRTypes
<1>2. CASE UNCHANGED <<codes, timer>>
  BY <1>2 DEF AsMade, Known
<1>3. CASE Tick \/ (\E r \in Readers : ListPayments(r) \/ \E v \in Codes : ReadRefund(r, v))
           \/ UNCHANGED qrVars
  BY <1>2, <1>3 DEF Tick, ListPayments, ReadRefund, qrVars
<1>4. CASE QRReset
  BY <1>4 DEF QRReset, AsMade, Known
<1>5. ASSUME NEW v \in Codes, NEW refund \in BOOLEAN, NEW m \in Merchants,
             Generate(v, refund, m)
      PROVE  AsMade(u)
  <2>1. u # v
    BY <1>5 DEF Generate
  <2> QED
    BY <1>1, <1>5, <2>1 DEF Generate, AsMade, Known
<1>6. ASSUME NEW v \in Codes, NEW s \in Open \cup Final, ChangeStatus(v, s)
      PROVE  AsMade(u)
  BY <1>6, UpdatesKeepMake DEF ChangeStatus, AsMade
<1>7. ASSUME NEW v \in Codes, SendWebhook(v)
      PROVE  AsMade(u)
  <2>1. Known(v) /\ codes[v] \in Code /\ timer' = timer
    BY <1>1, <1>7 DEF SendWebhook, Known
  <2>2. /\ codes'[v] = [codes[v] EXCEPT !.sent = TRUE]
        /\ \A w \in Codes : w # v => codes'[w] = codes[w]
    BY <1>1, <1>7 DEF SendWebhook
  <2>3. codes'[v].merchant = codes[v].merchant /\ codes'[v].refund = codes[v].refund
    BY <2>1, <2>2 DEF Code
  <2> QED
    BY <2>1, <2>2, <2>3 DEF AsMade, Known
<1>8. ASSUME NEW v \in Codes, ConfirmRefund(v)
      PROVE  AsMade(u)
  <2>1. Known(v) /\ codes[v] \in Code /\ timer' = timer
    BY <1>1, <1>8 DEF ConfirmRefund, Known
  <2>2. /\ codes'[v] = [codes[v] EXCEPT !.status = "SUCCESS", !.trn = Trn, !.returned = TRUE]
        /\ \A w \in Codes : w # v => codes'[w] = codes[w]
    BY <1>1, <1>8 DEF ConfirmRefund, Succeed
  <2>3. codes'[v].merchant = codes[v].merchant /\ codes'[v].refund = codes[v].refund
    BY <2>1, <2>2 DEF Code
  <2> QED
    BY <2>1, <2>2, <2>3 DEF AsMade, Known
<1>9. ASSUME NEW v \in Codes, TimeUp(v) \/ TooLate(v) \/ GiveUp(v) \/ LookAgain(v)
      PROVE  AsMade(u)
  BY <1>1, <1>9 DEF TimeUp, TooLate, GiveUp, LookAgain, AsMade, Known
<1>10. ASSUME NEW v \in Codes, Expire(v)
       PROVE  AsMade(u)
  <2>1. "EXPIRED" \in Open \cup Final
    BY DEF Final
  <2>2. timer'[u] # "none"
    BY <1>1, <1>10 DEF Expire
  <2>3. CASE UpdateStatus(v, "EXPIRED")
    BY <2>1, <2>2, <2>3, UpdatesKeepMake DEF AsMade
  <2>4. CASE UNCHANGED codes
    BY <2>2, <2>4 DEF AsMade, Known
  <2> QED
    BY <1>10, <2>3, <2>4 DEF Expire, MarkExpired
<1> QED
  BY <1>3, <1>4, <1>5, <1>6, <1>7, <1>8, <1>9, <1>10 DEF QRNext, AutoExpire

\* A request that has read a refund still has its merchant, and so has every
\* payment it will offer or has offered.
ReadersBelong ==
  /\ reader \in [Readers -> [refund : Codes, merchant : Merchants] \cup {NoCode}]
  /\ \A r \in Readers : reader[r] # NoCode =>
       /\ timer[reader[r].refund] # "none"
       /\ Known(reader[r].refund) => codes[reader[r].refund].merchant = reader[r].merchant

OfferBelongs(o) ==
  /\ o.refund \in Codes /\ timer[o.refund] # "none"
  /\ Known(o.uuid) => ~codes[o.uuid].refund
  /\ Known(o.uuid) /\ Known(o.refund) => codes[o.uuid].merchant = codes[o.refund].merchant

Belongs == ReadersBelong /\ \A o \in offers : OfferBelongs(o)

LEMMA OffersKeepBelonging ==
  ASSUME QRInv, Belongs, [QRNext]_qrVars, NEW o \in offers
  PROVE  OfferBelongs(o)'
<1>1. o.uuid \in Codes /\ timer[o.uuid] # "none"
  BY DEF QRInv, OffersOfCodes, CodeInv, NoTrace
<1>2. OfferBelongs(o)
  BY DEF Belongs
<1>3. AsMade(o.uuid) /\ AsMade(o.refund)
  BY <1>1, <1>2, StepsKeepMake DEF OfferBelongs
<1> QED
  BY <1>2, <1>3 DEF OfferBelongs, AsMade

LEMMA ReadersKeepBelonging ==
  ASSUME QRInv, Belongs, [QRNext]_qrVars
  PROVE  ReadersBelong'
<1>1. ASSUME NEW r \in Readers, reader[r] # NoCode
      PROVE  /\ timer'[reader[r].refund] # "none"
             /\ codes'[reader[r].refund] # NoCode
                  => codes'[reader[r].refund].merchant = reader[r].merchant
  <2>1. PICK u \in Codes : u = reader[r].refund
    BY <1>1 DEF Belongs, ReadersBelong
  <2>2. timer[u] # "none" /\ (Known(u) => codes[u].merchant = reader[r].merchant)
    BY <1>1, <2>1 DEF Belongs, ReadersBelong
  <2>3. AsMade(u)
    BY <2>2, StepsKeepMake
  <2>4. timer'[u] # "none" /\ (codes'[u] # NoCode => codes'[u].merchant = reader[r].merchant)
    BY <2>2, <2>3 DEF AsMade, Known
  <2> QED
    BY <2>1, <2>4
<1>2. CASE UNCHANGED reader
  BY <1>1, <1>2 DEF Belongs, ReadersBelong, Known
<1>3. ASSUME NEW r \in Readers, ListPayments(r)
      PROVE  ReadersBelong'
  <2>1. reader' = [reader EXCEPT ![r] = NoCode]
    BY <1>3 DEF ListPayments
  <2> QED
    BY <1>1, <2>1 DEF Belongs, ReadersBelong, Known
<1>4. ASSUME NEW r \in Readers, NEW u \in Codes, ReadRefund(r, u)
      PROVE  ReadersBelong'
  <2>1. /\ Known(u) /\ UNCHANGED <<codes, timer>>
        /\ reader' = [reader EXCEPT ![r] = [refund |-> u, merchant |-> codes[u].merchant]]
    BY <1>4 DEF ReadRefund
  <2>2. codes[u] \in Code /\ timer[u] # "none"
    BY <2>1 DEF QRInv, QRTypes, CodeInv, NoTrace, Known
  <2>3. codes[u].merchant \in Merchants
    BY <2>2 DEF Code
  <2>4. /\ reader' \in [Readers -> [refund : Codes, merchant : Merchants] \cup {NoCode}]
        /\ reader'[r] = [refund |-> u, merchant |-> codes[u].merchant]
        /\ \A x \in Readers : x # r => reader'[x] = reader[x]
    BY <2>1, <2>3 DEF Belongs, ReadersBelong
  <2> QED
    BY <1>1, <2>1, <2>2, <2>4 DEF ReadersBelong, Known
<1>5. ASSUME NEW u \in Codes, NEW s \in Open \cup Final, UpdateStatus(u, s)
      PROVE  UNCHANGED reader
  BY <1>5 DEF UpdateStatus
<1>6. ASSUME NEW u \in Codes, Expire(u)
      PROVE  UNCHANGED reader
  <2>1. "EXPIRED" \in Open \cup Final
    BY DEF Final
  <2> QED
    BY <1>5, <1>6, <2>1 DEF Expire, MarkExpired
<1>7. ASSUME NEW u \in Codes, NEW s \in Open \cup Final, ChangeStatus(u, s)
      PROVE  UNCHANGED reader
  BY <1>5, <1>7 DEF ChangeStatus
<1>8. CASE Tick \/ QRReset \/ UNCHANGED qrVars
  BY <1>2, <1>8 DEF Tick, QRReset, qrVars
<1>9. ASSUME NEW u \in Codes,
             \/ \E refund \in BOOLEAN : \E m \in Merchants : Generate(u, refund, m)
             \/ SendWebhook(u) \/ ConfirmRefund(u)
             \/ TimeUp(u) \/ TooLate(u) \/ GiveUp(u) \/ LookAgain(u)
      PROVE  UNCHANGED reader
  BY <1>9 DEF Generate, SendWebhook, ConfirmRefund, TimeUp, TooLate, GiveUp, LookAgain
<1> QED
  BY <1>2, <1>3, <1>4, <1>6, <1>7, <1>8, <1>9 DEF QRNext, AutoExpire

\* What is offered is a payment of the merchant the request has read.
LEMMA NewOffersBelong ==
  ASSUME QRInv, Belongs, [QRNext]_qrVars, NEW o \in offers', o \notin offers
  PROVE  OfferBelongs(o)'
<1>1. PICK r \in Readers : ListPayments(r)
  <2>1. ASSUME NEW u \in Codes, NEW s \in Open \cup Final, UpdateStatus(u, s)
        PROVE  UNCHANGED offers
    BY <2>1 DEF UpdateStatus
  <2>2. ASSUME NEW u \in Codes, Expire(u)
        PROVE  UNCHANGED offers
    <3>1. "EXPIRED" \in Open \cup Final
      BY DEF Final
    <3> QED
      BY <2>1, <2>2, <3>1 DEF Expire, MarkExpired, histories
  <2>3. ASSUME NEW u \in Codes, NEW s \in Open \cup Final, ChangeStatus(u, s)
        PROVE  UNCHANGED offers
    BY <2>1, <2>3 DEF ChangeStatus
  <2>4. ASSUME NEW u \in Codes,
               \/ \E refund \in BOOLEAN : \E m \in Merchants : Generate(u, refund, m)
               \/ SendWebhook(u) \/ ConfirmRefund(u)
               \/ TimeUp(u) \/ TooLate(u) \/ GiveUp(u) \/ LookAgain(u)
               \/ \E r \in Readers : ReadRefund(r, u)
        PROVE  UNCHANGED offers
    BY <2>4 DEF Generate, SendWebhook, ConfirmRefund, TimeUp, TooLate, GiveUp, LookAgain,
                ReadRefund, histories
  <2>5. ~(Tick \/ QRReset \/ UNCHANGED qrVars)
    BY DEF Tick, QRReset, qrVars, histories
  <2> QED
    BY <2>2, <2>3, <2>4, <2>5 DEF QRNext, AutoExpire
<1>2. /\ reader[r] # NoCode /\ UNCHANGED <<codes, timer>>
      /\ \E x \in Codes : /\ Refundable(x, reader[r].merchant)
                          /\ o = [uuid |-> x, trn |-> codes[x].trn, refund |-> reader[r].refund]
  BY <1>1 DEF ListPayments
<1>3. /\ reader[r].refund \in Codes /\ timer[reader[r].refund] # "none"
      /\ Known(reader[r].refund) => codes[reader[r].refund].merchant = reader[r].merchant
  BY <1>2 DEF Belongs, ReadersBelong
<1>4. /\ ~codes[o.uuid].refund /\ codes[o.uuid].merchant = reader[r].merchant
      /\ o.refund = reader[r].refund
  BY <1>2 DEF Refundable, AnyPayment
<1> QED
  BY <1>2, <1>3, <1>4 DEF OfferBelongs, Known

LEMMA BelongsHolds == QRSpec => []Belongs
<1>1. QRInit => Belongs
  BY DEF QRInit, Belongs, ReadersBelong
<1>2. QRInv /\ Belongs /\ [QRNext]_qrVars => Belongs'
  BY OffersKeepBelonging, ReadersKeepBelonging, NewOffersBelong DEF Belongs
<1> QED
  BY <1>1, <1>2, QRInvHolds, PTL DEF QRSpec

-----------------------------------------------------------------------------
(* What a reader should know of *)

\* No two codes that ever succeeded share a TrnID, whatever the resolution of
\* the clock and the number of codes (QRRepo.generateTrnID).
THEOREM TrnIDsIdentify == QRSpec => []TrnIdentifies
<1>1. QRInv => TrnIdentifies
  <2> SUFFICES ASSUME QRInv
               PROVE  TrnIdentifies
    OBVIOUS
  <2>1. \A i, j \in DOMAIN issued : i # j => issued[i] # issued[j]
    <3>1. \A i \in DOMAIN issued : i \in Nat /\ issued[i] \in Nat
      BY DEF QRInv, QRTypes
    <3>2. \A i, j \in DOMAIN issued : i < j => issued[i] < issued[j]
      BY DEF QRInv, IssuedInOrder
    <3>3. ASSUME NEW i \in DOMAIN issued, NEW j \in DOMAIN issued, i # j
          PROVE  issued[i] # issued[j]
      <4>1. CASE i < j
        BY <3>1, <3>2, <4>1
      <4>2. CASE j < i
        BY <3>1, <3>2, <4>2
      <4> QED
        BY <3>1, <3>3, <4>1, <4>2
    <3> QED
      BY <3>3
  <2> QED
    BY <2>1 DEF QRInv, CodeInv, InStore, TrnIdentifies
<1> QED
  BY <1>1, QRInvHolds, PTL

\* The webhooks about a code agree with each other and with the store.
THEOREM WebhooksTellOneStory == QRSpec => []WebhooksAgree
<1>1. QRInv => WebhooksAgree
  <2> SUFFICES ASSUME QRInv
               PROVE  WebhooksAgree
    OBVIOUS
  <2>1. \A a \in told : a.uuid \in Codes
    BY DEF QRInv, QRTypes
  <2> QED
    BY <2>1 DEF QRInv, CodeInv, InStore, OneStory, WebhooksAgree
<1> QED
  BY <1>1, QRInvHolds, PTL

\* The end of a code is announced once (Service.UpdateStatus).
THEOREM EndIsAnnouncedOnce == QRSpec => []AnnouncedOnce
<1>1. QRInv => AnnouncedOnce
  BY DEF QRInv, CodeInv, InStore, AnnouncedOnce
<1> QED
  BY <1>1, QRInvHolds, PTL

\* One confirmation of a refund succeeds, and its success is kept.
THEOREM RefundIsConfirmedOnce == QRSpec => []RefundConfirmedOnce
<1>1. QRInv => RefundConfirmedOnce
  BY DEF QRInv, CodeInv, InStore, OneStory, RefundConfirmedOnce
<1> QED
  BY <1>1, QRInvHolds, PTL

\* What was offered for a refund is a successful payment of the refund's
\* merchant, and stays it (ListSuccessfulPayments).
THEOREM OffersAreKept == QRSpec => []OffersStayGood
<1>1. QRInv /\ Belongs => OffersStayGood
  <2> SUFFICES ASSUME QRInv, Belongs
               PROVE  OffersStayGood
    OBVIOUS
  <2>1. \A o \in offers : o.uuid \in Codes
    BY DEF QRInv, OffersOfCodes
  <2> QED
    BY <2>1 DEF QRInv, CodeInv, InStore, OneStory, Belongs, OfferBelongs, OffersStayGood
<1> QED
  BY <1>1, QRInvHolds, BelongsHolds, PTL

\* What has come to an end is not moved, by whatever interleaving of the
\* expiry, the panel and the API (QRRepo.UpdateStatus, ConfirmRefund).
THEOREM EndsAreFinal == QRSpec => EndIsFinal
<1>1. QRInv /\ [QRNext]_qrVars =>
        [\A u \in Codes :
           Known(u) /\ IsFinal(u) /\ codes'[u] # NoCode =>
             /\ codes'[u].status = codes[u].status
             /\ codes'[u].trn = codes[u].trn]_qrVars
  <2> SUFFICES ASSUME QRInv, [QRNext]_qrVars,
                      NEW u \in Codes, Known(u), IsFinal(u), codes'[u] # NoCode
               PROVE  codes'[u].status = codes[u].status /\ codes'[u].trn = codes[u].trn
    OBVIOUS
  <2>1. codes[u] \in Code /\ timer[u] # "none" /\ codes \in [Codes -> Code \cup {NoCode}]
    BY DEF QRInv, QRTypes, CodeInv, NoTrace, Known
  <2>2. CASE codes' = codes
    BY <2>2
  <2>3. CASE QRReset
    BY <2>3 DEF QRReset
  <2>4. ASSUME NEW v \in Codes, NEW refund \in BOOLEAN, NEW m \in Merchants,
               Generate(v, refund, m)
        PROVE  codes'[u] = codes[u]
    BY <2>1, <2>4 DEF Generate
  <2>5. ASSUME NEW v \in Codes, NEW s \in Open \cup Final, UpdateStatus(v, s)
        PROVE  codes'[u] = codes[u]
    BY <2>5, UpdateStatusEffect
  <2>6. ASSUME NEW v \in Codes, SendWebhook(v)
        PROVE  codes'[u].status = codes[u].status /\ codes'[u].trn = codes[u].trn
    BY <2>1, <2>6 DEF SendWebhook, Code
  <2>7. ASSUME NEW v \in Codes, ConfirmRefund(v)
        PROVE  codes'[u] = codes[u]
    BY <2>1, <2>7 DEF ConfirmRefund, Confirmable, Succeed, IsFinal, Final
  <2>8. "EXPIRED" \in Open \cup Final
    BY DEF Final
  <2>9. CASE Tick \/ (\E r \in Readers : ListPayments(r))
    BY <2>2, <2>9 DEF Tick, ListPayments
  <2>10. ASSUME NEW v \in Codes,
                (\E r \in Readers : ReadRefund(r, v)) \/ TimeUp(v) \/ TooLate(v)
                  \/ GiveUp(v) \/ LookAgain(v)
         PROVE  codes'[u] = codes[u]
    BY <2>10 DEF ReadRefund, TimeUp, TooLate, GiveUp, LookAgain
  <2>11. ASSUME NEW v \in Codes, Expire(v)
         PROVE  codes'[u] = codes[u]
    BY <2>5, <2>8, <2>11 DEF Expire, MarkExpired
  <2>12. ASSUME NEW v \in Codes, NEW s \in Open \cup Final, ChangeStatus(v, s)
         PROVE  codes'[u] = codes[u]
    BY <2>5, <2>12 DEF ChangeStatus
  <2>13. CASE UNCHANGED qrVars
    BY <2>13 DEF qrVars
  <2> QED
    BY <2>3, <2>4, <2>6, <2>7, <2>9, <2>10, <2>11, <2>12, <2>13 DEF QRNext, AutoExpire
<1> QED
  BY <1>1, QRInvHolds, PTL DEF QRSpec, EndIsFinal

\* A code that is open after a step is a new one, or was open before it, and its
\* goroutine did not end with the step.
OpenAfter(u) ==
  Known(u)' /\ ~IsFinal(u)' =>
    \/ timer'[u] = "armed"
    \/ /\ Known(u) /\ ~IsFinal(u)
       /\ timer'[u] = timer[u] \/ timer'[u] \in {"fired", "late", "missed", "expiring"}

LEMMA StepsKeepWatch ==
  ASSUME QRInv, [QRNext]_qrVars, NEW u \in Codes
  PROVE  OpenAfter(u)
<1>1. codes \in [Codes -> Code \cup {NoCode}] /\ timer \in [Codes -> Timers]
  BY DEF QRInv, QRTypes
<1>2. CASE UNCHANGED <<codes, timer>>
  BY <1>2 DEF OpenAfter, Known, IsFinal
<1>3. CASE QRReset
  BY <1>3 DEF QRReset, OpenAfter, Known
<1>4. ASSUME NEW v \in Codes, NEW refund \in BOOLEAN, NEW m \in Merchants,
             Generate(v, refund, m)
      PROVE  OpenAfter(u)
  BY <1>1, <1>4 DEF Generate, OpenAfter, Known, IsFinal
<1>5. ASSUME NEW v \in Codes, NEW s \in Open \cup Final, ChangeStatus(v, s)
      PROVE  OpenAfter(u)
  <2>1. UpdateStatus(v, s) /\ timer' = timer
    BY <1>5 DEF ChangeStatus
  <2>2. Known(v) /\ ~IsFinal(v) /\ \A w \in Codes : w # v => codes'[w] = codes[w]
    BY <2>1, UpdateStatusEffect
  <2> QED
    BY <2>1, <2>2 DEF OpenAfter, Known, IsFinal
<1>6. ASSUME NEW v \in Codes, SendWebhook(v)
      PROVE  OpenAfter(u)
  <2>1. codes'[u] = codes[u] \/ (u = v /\ codes'[u] = [codes[u] EXCEPT !.sent = TRUE])
    BY <1>1, <1>6 DEF SendWebhook
  <2>2. codes[u] \in Code => [codes[u] EXCEPT !.sent = TRUE].status = codes[u].status
    BY DEF Code
  <2>3. Known(v) /\ IsFinal(v) /\ timer' = timer
    BY <1>6 DEF SendWebhook
  <2>4. u = v => codes[u] \in Code
    BY <1>1, <2>3 DEF Known
  <2>5. CASE codes'[u] = codes[u]
    BY <2>3, <2>5 DEF OpenAfter, Known, IsFinal
  <2>6. CASE u = v /\ codes'[u] = [codes[u] EXCEPT !.sent = TRUE]
    BY <2>2, <2>3, <2>4, <2>6 DEF OpenAfter, IsFinal
  <2> QED
    BY <2>1, <2>5, <2>6
<1>7. ASSUME NEW v \in Codes, ConfirmRefund(v)
      PROVE  OpenAfter(u)
  <2>1. /\ timer' = timer /\ Known(v) /\ ~IsFinal(v)
        /\ \A w \in Codes : w # v => codes'[w] = codes[w]
    BY <1>1, <1>7 DEF ConfirmRefund, Confirmable, Succeed, IsFinal, Final
  <2> QED
    BY <2>1 DEF OpenAfter, Known, IsFinal
<1>8. ASSUME NEW v \in Codes, TimeUp(v) \/ TooLate(v) \/ GiveUp(v)
      PROVE  OpenAfter(u)
  <2>1. codes' = codes
    BY <1>8 DEF TimeUp, TooLate, GiveUp
  <2>2. timer'[u] = timer[u] \/ timer'[u] \in {"fired", "late", "missed"}
    BY <1>1, <1>8 DEF TimeUp, TooLate, GiveUp
  <2> QED
    BY <2>1, <2>2 DEF OpenAfter, Known, IsFinal
<1>9. ASSUME NEW v \in Codes, LookAgain(v)
      PROVE  OpenAfter(u)
  <2>1. codes' = codes
    BY <1>9 DEF LookAgain
  <2>2. CASE u # v
    BY <1>1, <1>9, <2>1, <2>2 DEF LookAgain, OpenAfter, Known, IsFinal
  <2>3. CASE u = v /\ MayChange(u)
    <3>1. timer'[u] = "expiring"
      BY <1>1, <1>9, <2>3 DEF LookAgain
    <3> QED
      BY <2>3, <3>1 DEF OpenAfter, MayChange
  <2>4. CASE ~MayChange(u)
    BY <2>1, <2>4 DEF OpenAfter, MayChange, Known, IsFinal
  <2> QED
    BY <2>2, <2>3, <2>4
<1>10. ASSUME NEW v \in Codes, Expire(v)
       PROVE  OpenAfter(u)
  <2>1. "EXPIRED" \in Open \cup Final /\ "EXPIRED" \in Final
    BY DEF Final
  <2>2. \A w \in Codes : w # v => codes'[w] = codes[w]
    BY <1>10, <2>1, UpdateStatusEffect DEF Expire, MarkExpired
  <2>3. CASE u # v
    BY <1>1, <1>10, <2>2, <2>3 DEF Expire, OpenAfter, Known, IsFinal
  <2>4. CASE u = v /\ UpdateStatus(v, "EXPIRED")
    <3>1. codes'[u].status = "EXPIRED"
      BY <2>1, <2>4, UpdateStatusEffect
    <3> QED
      BY <2>1, <3>1 DEF OpenAfter, IsFinal
  <2>5. CASE u = v /\ ~MayChange(v) /\ codes' = codes
    BY <2>5 DEF OpenAfter, MayChange, Known, IsFinal
  <2> QED
    BY <1>10, <2>3, <2>4, <2>5 DEF Expire, MarkExpired
<1>11. CASE Tick \/ (\E r \in Readers : ListPayments(r))
  BY <1>2, <1>11 DEF Tick, ListPayments
<1>12. ASSUME NEW v \in Codes, NEW r \in Readers, ReadRefund(r, v)
       PROVE  OpenAfter(u)
  BY <1>2, <1>12 DEF ReadRefund
<1>13. CASE UNCHANGED qrVars
  BY <1>2, <1>13 DEF qrVars
<1> QED
  BY <1>3, <1>4, <1>5, <1>6, <1>7, <1>8, <1>9, <1>10, <1>11, <1>12, <1>13
     DEF QRNext, AutoExpire

\* A goroutine leaves no code open, although it looks and writes in two steps,
\* whatever is done to the code before, between and after (autoExpire).
THEOREM OpenCodesAreWatched == QRSpec => []OpenIsWatched
<1>1. QRInit => OpenIsWatched
  BY DEF QRInit, OpenIsWatched, Known
<1>2. QRInv /\ OpenIsWatched /\ [QRNext]_qrVars => OpenIsWatched'
  <2> SUFFICES ASSUME QRInv, OpenIsWatched, [QRNext]_qrVars,
                      NEW u \in Codes, Known(u)', ~IsFinal(u)'
               PROVE  timer'[u] \in {"armed", "fired", "late", "expiring", "missed"}
    BY DEF OpenIsWatched
  <2>1. OpenAfter(u)
    BY StepsKeepWatch
  <2> QED
    BY <2>1 DEF OpenAfter, OpenIsWatched
<1> QED
  BY <1>1, <1>2, QRInvHolds, PTL DEF QRSpec

-----------------------------------------------------------------------------
(* Kaspi payments *)

Link == [external : Externals, status : LinkStatuses]

KaspiTypes ==
  /\ idCounter \in Nat
  /\ links \in [1 .. idCounter -> Link]
  /\ given \in Seq([id : Nat, external : Externals]) /\ Len(given) = idCounter
  /\ settled \in Seq([id : 1 .. idCounter, status : LinkStatuses])
  /\ polled \in [id : 0 .. idCounter, status : LinkStatuses, at : 0 .. Len(settled)]

Numbered ==
  \A i \in 1 .. idCounter : given[i].id = i /\ links[i].external = given[i].external

\* Every link has the status that was set for it last.
StatusesAreLast ==
  \A i \in 1 .. idCounter : LastSet(settled, Len(settled), i, links[i].status)

KaspiInv == KaspiTypes /\ Numbered /\ StatusesAreLast /\ PollsTellLast

LEMMA CreateLinkKeeps ==
  ASSUME KaspiInv, NEW ext \in Externals, CreateLink(ext)
  PROVE  KaspiInv'
<1>1. PICK n \in Nat : n = idCounter
  BY DEF KaspiInv, KaspiTypes
<1>2. /\ idCounter' = n + 1 /\ polled' = polled /\ settled' = settled
      /\ given' = Append(given, [id |-> n + 1, external |-> ext])
      /\ links' = [i \in (1 .. n) \cup {n + 1} |->
                     IF i = n + 1 THEN [external |-> ext, status |-> "Wait"] ELSE links[i]]
  BY <1>1 DEF CreateLink, Increased, NextId, Linked, KaspiInv, KaspiTypes
<1>3. /\ given \in Seq([id : Nat, external : Externals]) /\ Len(given) = n
      /\ links \in [1 .. n -> Link]
      /\ settled \in Seq([id : 1 .. n, status : LinkStatuses])
      /\ polled \in [id : 0 .. n, status : LinkStatuses, at : 0 .. Len(settled)]
  BY <1>1 DEF KaspiInv, KaspiTypes
<1>4. (1 .. n) \cup {n + 1} = 1 .. (n + 1) /\ n + 1 \notin 1 .. n
  OBVIOUS
<1>5. /\ links' \in [1 .. (n + 1) -> Link]
      /\ links'[n + 1] = [external |-> ext, status |-> "Wait"]
      /\ \A i \in 1 .. n : links'[i] = links[i]
  <2>1. [external |-> ext, status |-> "Wait"] \in Link
    BY DEF Link, LinkStatuses
  <2> QED
    BY <1>2, <1>3, <1>4, <2>1
<1>6. /\ given' \in Seq([id : Nat, external : Externals]) /\ Len(given') = n + 1
      /\ given'[n + 1] = [id |-> n + 1, external |-> ext]
      /\ \A i \in 1 .. n : given'[i] = given[i]
  BY <1>2, <1>3
<1>7. KaspiTypes'
  <2>1. polled' \in [id : 0 .. (n + 1), status : LinkStatuses, at : 0 .. Len(settled')]
    BY <1>2, <1>3
  <2>2. settled' \in Seq([id : 1 .. (n + 1), status : LinkStatuses])
    <3> DEFINE S == [id : 1 .. n, status : LinkStatuses]
               T == [id : 1 .. (n + 1), status : LinkStatuses]
    <3>1. S \subseteq T
      OBVIOUS
    <3>2. settled \in Seq(S)
      BY <1>3
    <3> HIDE DEF S, T
    <3>3. settled \in Seq(T)
      BY <3>1, <3>2
    <3> QED
      BY <1>2, <3>3 DEF T
  <2> QED
    BY <1>2, <1>5, <1>6, <2>1, <2>2 DEF KaspiTypes
<1>8. Numbered'
  <2>1. \A i \in 1 .. n : given[i].id = i /\ links[i].external = given[i].external
    BY <1>1 DEF KaspiInv, Numbered
  <2>2. \A i \in 1 .. n : given'[i].id = i /\ links'[i].external = given'[i].external
    BY <1>5, <1>6, <2>1
  <2>3. given'[n + 1].id = n + 1 /\ links'[n + 1].external = given'[n + 1].external
    BY <1>5, <1>6
  <2> QED
    BY <1>2, <1>4, <2>2, <2>3 DEF Numbered
<1>9. StatusesAreLast'
  <2>1. \A i \in 1 .. n : LastSet(settled, Len(settled), i, links[i].status)
    BY <1>1 DEF KaspiInv, StatusesAreLast
  <2>2. ASSUME NEW i \in 1 .. Len(settled)
        PROVE  settled[i].id # n + 1
    <3>1. settled[i] \in [id : 1 .. n, status : LinkStatuses]
      BY <1>3, ElementOfSeq
    <3> QED
      BY <1>4, <3>1
  <2>3. LastSet(settled, Len(settled), n + 1, "Wait")
    BY <2>2 DEF LastSet
  <2>4. ASSUME NEW i \in 1 .. (n + 1)
        PROVE  LastSet(settled, Len(settled), i, links'[i].status)
    <3>1. CASE i = n + 1
      BY <1>5, <2>3, <3>1
    <3>2. CASE i \in 1 .. n
      BY <1>5, <2>1, <3>2
    <3> QED
      BY <1>4, <3>1, <3>2
  <2> QED
    BY <1>2, <2>4 DEF StatusesAreLast
<1>10. PollsTellLast'
  BY <1>2 DEF KaspiInv, PollsTellLast
<1> QED
  BY <1>7, <1>8, <1>9, <1>10 DEF KaspiInv

LEMMA PollKeeps ==
  ASSUME KaspiInv, NEW id \in DOMAIN links, Poll(id)
  PROVE  KaspiInv'
<1>1. /\ UNCHANGED <<links, idCounter, given, settled>>
      /\ polled' = [id |-> id, status |-> links[id].status, at |-> Len(settled)]
  BY DEF Poll
<1>2. links \in [1 .. idCounter -> Link] /\ id \in 1 .. idCounter
      /\ idCounter \in Nat /\ Len(settled) \in Nat
  BY DEF KaspiInv, KaspiTypes
<1>3. links[id].status \in LinkStatuses /\ id \in 0 .. idCounter
      /\ Len(settled) \in 0 .. Len(settled)
  BY <1>2 DEF Link
<1>4. KaspiTypes'
  BY <1>1, <1>3 DEF KaspiInv, KaspiTypes
<1>5. LastSet(settled, Len(settled), id, links[id].status)
  BY <1>2 DEF KaspiInv, StatusesAreLast
<1>6. PollsTellLast'
  BY <1>1, <1>5 DEF PollsTellLast
<1> QED
  BY <1>1, <1>4, <1>6 DEF KaspiInv, Numbered, StatusesAreLast

LEMMA SettleKeeps ==
  ASSUME KaspiInv, NEW id \in DOMAIN links, NEW s \in LinkStatuses, Settle(id, s)
  PROVE  KaspiInv'
<1>1. /\ UNCHANGED <<idCounter, given, polled>>
      /\ links' = [links EXCEPT ![id].status = s]
      /\ settled' = Append(settled, [id |-> id, status |-> s])
  BY DEF Settle, SetOf
<1>2. links \in [1 .. idCounter -> Link] /\ id \in 1 .. idCounter
      /\ settled \in Seq([id : 1 .. idCounter, status : LinkStatuses])
  BY DEF KaspiInv, KaspiTypes
<1>3. /\ links' \in [1 .. idCounter -> Link]
      /\ \A i \in 1 .. idCounter :
           /\ links'[i].external = links[i].external
           /\ links'[i].status = IF i = id THEN s ELSE links[i].status
  BY <1>1, <1>2 DEF Link
<1>4. PICK k \in Nat : k = Len(settled)
  BY <1>2
<1>5. /\ settled' \in Seq([id : 1 .. idCounter, status : LinkStatuses])
      /\ Len(settled') = k + 1 /\ settled'[k + 1] = [id |-> id, status |-> s]
      /\ \A i \in 1 .. k : settled'[i] = settled[i]
  BY <1>1, <1>2, <1>4
<1>6. polled' \in [id : 0 .. idCounter, status : LinkStatuses, at : 0 .. (k + 1)]
  BY <1>1, <1>4 DEF KaspiInv, KaspiTypes
<1>7. KaspiTypes'
  BY <1>1, <1>3, <1>5, <1>6 DEF KaspiInv, KaspiTypes
<1>8. Numbered'
  BY <1>1, <1>3 DEF KaspiInv, Numbered
<1>9. \A j \in 1 .. (k + 1) : j \in 1 .. k \/ j = k + 1
  OBVIOUS
<1>10. ASSUME NEW i \in 1 .. idCounter
       PROVE  LastSet(settled', k + 1, i, links'[i].status)
  <2>1. LastSet(settled, k, i, links[i].status)
    BY <1>4 DEF KaspiInv, StatusesAreLast
  <2>2. CASE i = id
    <3>1. k + 1 \in 1 .. (k + 1) /\ \A j \in 1 .. (k + 1) : ~(j > k + 1)
      OBVIOUS
    <3>2. settled'[k + 1].id = i /\ settled'[k + 1].status = links'[i].status
      BY <1>3, <1>5, <2>2
    <3> QED
      BY <3>1, <3>2 DEF LastSet
  <2>3. CASE i # id
    <3>1. links'[i].status = links[i].status /\ settled'[k + 1].id # i
      BY <1>3, <1>5, <2>3
    <3>2. CASE links[i].status = "Wait" /\ \A j \in 1 .. k : settled[j].id # i
      <4>1. \A j \in 1 .. (k + 1) : settled'[j].id # i
        BY <1>5, <1>9, <3>1, <3>2
      <4> QED
        BY <3>1, <3>2, <4>1 DEF LastSet
    <3>3. CASE \E j \in 1 .. k :
                 /\ settled[j].id = i /\ settled[j].status = links[i].status
                 /\ \A l \in 1 .. k : l > j => settled[l].id # i
      <4>1. PICK j \in 1 .. k :
              /\ settled[j].id = i /\ settled[j].status = links[i].status
              /\ \A l \in 1 .. k : l > j => settled[l].id # i
        BY <3>3
      <4>2. j \in 1 .. (k + 1)
        OBVIOUS
      <4>3. settled'[j].id = i /\ settled'[j].status = links'[i].status
        BY <1>5, <3>1, <4>1
      <4>4. \A l \in 1 .. (k + 1) : l > j => settled'[l].id # i
        BY <1>5, <1>9, <3>1, <4>1
      <4> QED
        BY <4>2, <4>3, <4>4 DEF LastSet
    <3> QED
      BY <2>1, <3>2, <3>3 DEF LastSet
  <2> QED
    BY <2>2, <2>3
<1>11. StatusesAreLast'
  BY <1>1, <1>5, <1>10 DEF StatusesAreLast
<1>12. PollsTellLast'
  <2>1. SUFFICES ASSUME polled.id # 0
                 PROVE  LastSet(settled', polled.at, polled.id, polled.status)
    BY <1>1 DEF PollsTellLast
  <2>2. PICK a \in 0 .. k : a = polled.at
    BY <1>4 DEF KaspiInv, KaspiTypes
  <2>3. LastSet(settled, a, polled.id, polled.status)
    BY <2>1, <2>2 DEF KaspiInv, PollsTellLast
  <2>4. \A i \in 1 .. a : settled'[i] = settled[i]
    BY <1>5, <2>2
  <2> QED
    BY <2>2, <2>3, <2>4 DEF LastSet
<1> QED
  BY <1>7, <1>8, <1>11, <1>12 DEF KaspiInv

LEMMA KaspiInvHolds == KaspiSpec => []KaspiInv
<1>1. KaspiInit => KaspiInv
  <2> SUFFICES ASSUME KaspiInit
               PROVE  KaspiInv
    OBVIOUS
  <2>1. links = <<>> /\ idCounter = 0 /\ given = <<>> /\ settled = <<>>
        /\ polled = [id |-> 0, status |-> "Wait", at |-> 0]
    BY DEF KaspiInit, NoPoll
  <2>2. KaspiTypes
    BY <2>1 DEF KaspiTypes, LinkStatuses
  <2> QED
    BY <2>1, <2>2 DEF KaspiInv, Numbered, StatusesAreLast, PollsTellLast
<1>2. KaspiInv /\ [KaspiNext]_kaspiVars => KaspiInv'
  <2> SUFFICES ASSUME KaspiInv, [KaspiNext]_kaspiVars
               PROVE  KaspiInv'
    OBVIOUS
  <2>1. CASE \E ext \in Externals : CreateLink(ext)
    BY <2>1, CreateLinkKeeps
  <2>2. CASE \E id \in DOMAIN links : Poll(id)
    BY <2>2, PollKeeps
  <2>3. CASE \E id \in DOMAIN links : \E s \in LinkStatuses : Settle(id, s)
    BY <2>3, SettleKeeps
  <2>4. CASE UNCHANGED kaspiVars
    BY <2>4 DEF kaspiVars, KaspiInv, KaspiTypes, Numbered, StatusesAreLast, PollsTellLast
  <2> QED
    BY <2>1, <2>2, <2>3, <2>4 DEF KaspiNext
<1> QED
  BY <1>1, <1>2, PTL DEF KaspiSpec

\* No link takes over the PaymentId of another, although the shop may repeat
\* its own ids and any number of links is made (KaspiRepo.CreateLink).
THEOREM LinksKeepTheirIds == KaspiSpec => []LinksAreOwn
<1>1. KaspiInv => LinksAreOwn
  <2> SUFFICES ASSUME KaspiInv
               PROVE  LinksAreOwn
    OBVIOUS
  <2>1. DOMAIN given = 1 .. idCounter /\ DOMAIN links = 1 .. idCounter
    BY DEF KaspiInv, KaspiTypes
  <2> QED
    BY <2>1 DEF KaspiInv, Numbered, LinksAreOwn
<1> QED
  BY <1>1, KaspiInvHolds, PTL

\* A poll tells what was set last for that payment, however many links there
\* are and whatever else was set before and after (KaspiRepo.SetStatus, Get).
THEOREM PollsAreUpToDate == KaspiSpec => []PollsTellLast
<1>1. KaspiInv => PollsTellLast
  BY DEF KaspiInv
<1> QED
  BY <1>1, KaspiInvHolds, PTL

-----------------------------------------------------------------------------
(* The request log *)

EntryType == [id : Nat, request : Requests]

LogTypes ==
  /\ nextID \in Nat
  /\ entries \in Seq(EntryType)
  /\ logged \in Seq(Requests) /\ Len(logged) = nextID
  /\ page \in [ids : SUBSET (1 .. nextID), reset : BOOLEAN]
  /\ opened \in [id : 0 .. nextID, request : Requests \cup {Gone}, reset : BOOLEAN]

EntriesTell == \A i \in DOMAIN entries : entries[i].request = logged[entries[i].id]

LogShape ==
  /\ Len(entries) <= Cap /\ Len(entries) <= nextID
  /\ \A i \in DOMAIN entries : entries[i].id = nextID - Len(entries) + i

\* As many as fit of those logged since the last reset.
LogCount ==
  /\ cleared \in 0 .. nextID
  /\ Len(entries) = IF nextID - cleared < Cap THEN nextID - cleared ELSE Cap

\* An id of the page is still in the log, or Cap requests have come since.
PageAges ==
  ~page.reset =>
    \A id \in page.ids : nextID - Len(entries) < id \/ id + Cap <= nextID

LogInv == LogTypes /\ LogShape /\ LogCount /\ EntriesTell /\ PageAges /\ OpenedAsShown

-----------------------------------------------------------------------------
(* The entries after one more request *)

LEMMA KeptShape ==
  ASSUME LogTypes, LogShape
  PROVE  /\ Kept \in Seq(EntryType)
         /\ \E n, m \in Nat :
              /\ n = Len(entries) /\ m = Len(Kept) /\ m <= n /\ n <= Cap
              /\ m + 1 = IF n = Cap THEN Cap ELSE n + 1
              /\ \A i \in 1 .. m : Kept[i] = entries[i + (n - m)]
<1>1. PICK n \in Nat : n = Len(entries)
  BY DEF LogTypes
<1>2. entries \in Seq(EntryType) /\ n <= Cap /\ Cap \in Nat /\ Cap > 0
  BY <1>1, CapAssumption DEF LogTypes, LogShape
<1>3. CASE n >= Cap
  <2>1. entries # <<>> /\ n = Cap
    BY <1>1, <1>2, <1>3
  <2>2. Kept = Tail(entries)
    BY <1>1, <1>3 DEF Kept, Full
  <2>3. /\ Kept \in Seq(EntryType) /\ Len(Kept) = Len(entries) - 1
        /\ \A i \in 1 .. Len(Kept) : Kept[i] = entries[i + 1]
    BY <1>2, <2>1, <2>2, HeadTailProperties
  <2>4. Len(Kept) = n - 1 /\ \A i \in 1 .. (n - 1) : Kept[i] = entries[i + 1]
    BY <1>1, <2>3
  <2>5. PICK m \in Nat : m = n - 1
    <3>1. n \in Nat /\ n > 0
      BY <1>2, <2>1
    <3>2. n - 1 \in Nat
      BY <3>1
    <3> QED
      BY <3>2
  <2>6. n - m = 1 /\ m <= n /\ m + 1 = n /\ m = Len(Kept)
    <3>1. n - m = 1 /\ m <= n /\ m + 1 = n
      BY <2>5
    <3> QED
      BY <2>4, <2>5, <3>1
  <2>7. \A i \in 1 .. m : Kept[i] = entries[i + (n - m)]
    BY <2>4, <2>5, <2>6
  <2> QED
    BY <1>1, <1>2, <2>1, <2>3, <2>6, <2>7
<1>4. CASE ~(n >= Cap)
  <2>1. Kept = entries /\ n # Cap
    BY <1>1, <1>2, <1>4 DEF Kept, Full
  <2>2. n - n = 0 /\ \A i \in 1 .. n : Kept[i] = entries[i + 0]
    BY <2>1
  <2> QED
    BY <1>1, <1>2, <2>1, <2>2
<1> QED
  BY <1>3, <1>4

\* The log after Add: what was kept, moved up by the entry that was dropped if
\* there was one, and the new entry at the end.
LEMMA AddedEntries ==
  ASSUME LogInv, NEW req \in Requests, Add(req)
  PROVE  /\ entries' \in Seq(EntryType)
         /\ \E n, m \in Nat :
              /\ n = Len(entries) /\ m <= n /\ n <= Cap /\ n <= nextID
              /\ m + 1 = IF n = Cap THEN Cap ELSE n + 1
              /\ Len(entries') = m + 1
              /\ DOMAIN entries' = 1 .. (m + 1)
              /\ \A i \in 1 .. m : entries'[i] = entries[i + (n - m)]
              /\ entries'[m + 1] = Entry(req)
<1>1. LogTypes /\ LogShape
  BY DEF LogInv
<1>2. Kept \in Seq(EntryType)
  BY <1>1, KeptShape
<1>3. PICK n, m \in Nat :
        /\ n = Len(entries) /\ m = Len(Kept) /\ m <= n /\ n <= Cap
        /\ m + 1 = IF n = Cap THEN Cap ELSE n + 1
        /\ \A i \in 1 .. m : Kept[i] = entries[i + (n - m)]
  BY <1>1, KeptShape
<1>4. Entry(req) \in EntryType /\ entries' = Append(Kept, Entry(req))
  BY <1>1 DEF Add, Entry, EntryType, LogTypes
<1>5. entries' \in Seq(EntryType) /\ Len(entries') = m + 1
  BY <1>2, <1>3, <1>4
<1>6. DOMAIN entries' = 1 .. (m + 1)
  BY <1>5
<1>7. entries'[m + 1] = Entry(req)
  BY <1>2, <1>3, <1>4
<1>8. \A i \in 1 .. m : entries'[i] = Kept[i]
  BY <1>2, <1>3, <1>4
<1>9. \A i \in 1 .. m : entries'[i] = entries[i + (n - m)]
  BY <1>3, <1>8
<1>10. n <= nextID
  BY <1>1, <1>3 DEF LogShape
<1> QED
  BY <1>3, <1>5, <1>6, <1>7, <1>9, <1>10

-----------------------------------------------------------------------------
(* Every step keeps the invariant *)

LEMMA AddKeeps ==
  ASSUME LogInv, NEW req \in Requests, Add(req)
  PROVE  LogInv'
<1>1. PICK t \in Nat : t = nextID
  BY DEF LogInv, LogTypes
<1>2. PICK n, m \in Nat :
        /\ n = Len(entries) /\ m <= n /\ n <= Cap /\ n <= t
        /\ m + 1 = IF n = Cap THEN Cap ELSE n + 1
        /\ Len(entries') = m + 1
        /\ DOMAIN entries' = 1 .. (m + 1)
        /\ \A i \in 1 .. m : entries'[i] = entries[i + (n - m)]
        /\ entries'[m + 1] = Entry(req)
  BY <1>1, AddedEntries
<1>3. Cap \in Nat /\ Cap > 0
  BY CapAssumption
<1>4. /\ nextID' = t + 1 /\ page' = page /\ opened' = opened
      /\ logged' = Append(logged, req) /\ logged \in Seq(Requests) /\ Len(logged) = t
  BY <1>1 DEF Add, LogInv, LogTypes
<1>5. /\ logged' \in Seq(Requests) /\ Len(logged') = t + 1
      /\ \A k \in 1 .. t : logged'[k] = logged[k]
      /\ logged'[t + 1] = req
  BY <1>4
<1>6. \A k \in 1 .. n : /\ entries[k].id = t - n + k
                        /\ entries[k].request = logged[entries[k].id]
  <2>1. DOMAIN entries = 1 .. n
    BY <1>2 DEF LogInv, LogTypes
  <2> QED
    BY <1>1, <1>2, <2>1 DEF LogInv, LogShape, EntriesTell
<1>7. entries'[m + 1].id = t + 1 /\ entries'[m + 1].request = req
  BY <1>1, <1>2 DEF Entry
<1>8. ASSUME NEW i \in 1 .. m
      PROVE  /\ entries'[i].id = t - m + i
             /\ entries'[i].id \in 1 .. t
             /\ entries'[i].request = logged[entries'[i].id]
  <2>1. i + (n - m) \in 1 .. n /\ t - n + (i + (n - m)) = t - m + i
    BY <1>2
  <2>2. entries'[i] = entries[i + (n - m)]
    BY <1>2
  <2>3. entries'[i].id = t - m + i /\ entries'[i].request = logged[entries'[i].id]
    BY <1>6, <2>1, <2>2
  <2>4. t - m + i \in 1 .. t
    BY <1>2
  <2> QED
    BY <2>3, <2>4
<1>9. LogTypes'
  <2>1. entries' \in Seq(EntryType)
    BY AddedEntries
  <2>2. page' \in [ids : SUBSET (1 .. nextID'), reset : BOOLEAN]
    BY <1>1, <1>4 DEF LogInv, LogTypes
  <2>3. opened' \in [id : 0 .. nextID', request : Requests \cup {Gone}, reset : BOOLEAN]
    BY <1>1, <1>4 DEF LogInv, LogTypes
  <2> QED
    BY <1>4, <1>5, <2>1, <2>2, <2>3 DEF LogTypes
<1>10. LogShape'
  <2>1. m + 1 <= Cap /\ m + 1 <= t + 1 /\ \A i \in 1 .. (m + 1) : i = m + 1 \/ i \in 1 .. m
    BY <1>2, <1>3
  <2>2. \A i \in 1 .. (m + 1) : entries'[i].id = (t + 1) - (m + 1) + i
    <3>1. (t + 1) - (m + 1) + (m + 1) = t + 1
          /\ \A i \in 1 .. m : (t + 1) - (m + 1) + i = t - m + i
      OBVIOUS
    <3> QED
      BY <1>7, <1>8, <2>1, <3>1
  <2> QED
    BY <1>2, <1>4, <2>1, <2>2 DEF LogShape
<1>11. LogCount'
  <2>1. PICK c \in Nat : c = cleared /\ c <= t /\ cleared' = c
    BY <1>1 DEF LogInv, LogCount, Add
  <2>2. n = IF t - c < Cap THEN t - c ELSE Cap
    BY <1>1, <1>2, <2>1 DEF LogInv, LogCount
  <2>3. c \in 0 .. (t + 1) /\ m + 1 = IF (t + 1) - c < Cap THEN (t + 1) - c ELSE Cap
    BY <1>2, <1>3, <2>1, <2>2
  <2> QED
    BY <1>2, <1>4, <2>1, <2>3 DEF LogCount
<1>12. EntriesTell'
  <2>1. \A i \in 1 .. (m + 1) : i = m + 1 \/ i \in 1 .. m
    OBVIOUS
  <2>2. \A i \in 1 .. (m + 1) : entries'[i].request = logged'[entries'[i].id]
    BY <1>5, <1>7, <1>8, <2>1
  <2> QED
    BY <1>2, <2>2 DEF EntriesTell
<1>13. PageAges'
  <2>1. ASSUME ~page.reset, NEW id \in page.ids
        PROVE  (t + 1) - (m + 1) < id \/ id + Cap <= t + 1
    <3>1. id \in Nat
      BY <1>1 DEF LogInv, LogTypes
    <3>2. t - n < id \/ id + Cap <= t
      BY <1>1, <1>2, <2>1 DEF LogInv, PageAges
    <3> QED
      BY <1>2, <1>3, <3>1, <3>2
  <2> QED
    BY <1>2, <1>4, <2>1 DEF PageAges
<1>14. OpenedAsShown'
  <2>1. opened.id \in 0 .. t
    BY <1>1 DEF LogInv, LogTypes
  <2>2. opened.id # 0 => logged'[opened.id] = logged[opened.id]
    BY <1>5, <2>1
  <2>3. opened.id # 0 =>
          \/ opened.request = logged[opened.id]
          \/ opened.request = Gone /\ (opened.reset \/ opened.id + Cap <= t)
    BY <1>1 DEF LogInv, OpenedAsShown
  <2>4. opened.id + Cap <= t => opened.id + Cap <= t + 1
    BY <1>3, <2>1
  <2> QED
    BY <1>4, <2>2, <2>3, <2>4 DEF OpenedAsShown
<1> QED
  BY <1>9, <1>10, <1>11, <1>12, <1>13, <1>14 DEF LogInv

LEMMA ShowPageKeeps ==
  ASSUME LogInv, NEW filter, ShowPage(filter)
  PROVE  LogInv'
<1>1. /\ nextID \in Nat /\ entries \in Seq(EntryType) /\ Len(entries) \in Nat
      /\ Len(entries) <= nextID /\ DOMAIN entries = 1 .. Len(entries)
      /\ \A i \in DOMAIN entries : entries[i].id = nextID - Len(entries) + i
  BY DEF LogInv, LogTypes, LogShape
<1>2. /\ UNCHANGED <<entries, nextID, opened, logged, cleared>>
      /\ page'.reset = FALSE
      /\ page' = [ids |-> page'.ids, reset |-> FALSE]
      /\ \A id \in page'.ids : \E i \in DOMAIN entries : id = entries[i].id
  BY DEF ShowPage
<1>3. ASSUME NEW id \in page'.ids
      PROVE  id \in 1 .. nextID /\ nextID - Len(entries) < id
  <2>1. PICK i \in DOMAIN entries : id = entries[i].id
    BY <1>2
  <2>2. id = nextID - Len(entries) + i /\ i \in 1 .. Len(entries)
    BY <1>1, <2>1
  <2> QED
    BY <1>1, <2>2
<1>4. page' \in [ids : SUBSET (1 .. nextID), reset : BOOLEAN]
  BY <1>2, <1>3
<1>5. LogTypes'
  BY <1>2, <1>4 DEF LogInv, LogTypes
<1>6. PageAges'
  BY <1>2, <1>3 DEF PageAges
<1> QED
  BY <1>2, <1>5, <1>6 DEF LogInv, LogShape, LogCount, EntriesTell, OpenedAsShown

LEMMA OpenEntryKeeps ==
  ASSUME LogInv, NEW id, OpenEntry(id)
  PROVE  LogInv'
<1>1. /\ UNCHANGED <<entries, nextID, page, logged, cleared>>
      /\ id \in page.ids /\ id \in 1 .. nextID /\ page.reset \in BOOLEAN
      /\ nextID \in Nat /\ Cap \in Nat
  BY CapAssumption DEF OpenEntry, LogInv, LogTypes
<1>2. /\ entries \in Seq(EntryType) /\ Len(entries) \in Nat /\ Len(entries) <= nextID
      /\ DOMAIN entries = 1 .. Len(entries)
      /\ \A i \in DOMAIN entries : entries[i].id = nextID - Len(entries) + i
  BY DEF LogInv, LogTypes, LogShape
<1>3. CASE \E i \in WithId(id) :
             opened' = [id |-> id, request |-> entries[i].request, reset |-> page.reset]
  <2>1. PICK i \in DOMAIN entries :
          /\ entries[i].id = id
          /\ opened' = [id |-> id, request |-> entries[i].request, reset |-> page.reset]
    BY <1>3 DEF WithId
  <2>2. entries[i].request = logged[id] /\ entries[i].request \in Requests
    <3>1. entries[i] \in EntryType
      BY <1>2, <2>1
    <3>2. entries[i].request = logged[entries[i].id]
      BY <2>1 DEF LogInv, EntriesTell
    <3> QED
      BY <2>1, <3>1, <3>2 DEF EntryType
  <2>3. opened' \in [id : 0 .. nextID, request : Requests \cup {Gone}, reset : BOOLEAN]
        /\ opened'.id = id /\ opened'.request = logged[id]
    BY <1>1, <2>1, <2>2
  <2>4. LogTypes'
    BY <1>1, <2>3 DEF LogInv, LogTypes
  <2>5. OpenedAsShown'
    BY <1>1, <2>3 DEF OpenedAsShown
  <2> QED
    BY <1>1, <2>4, <2>5 DEF LogInv, LogShape, LogCount, EntriesTell, PageAges
<1>4. CASE WithId(id) = {}
           /\ opened' = [id |-> id, request |-> Gone, reset |-> page.reset]
  <2>1. opened' \in [id : 0 .. nextID, request : Requests \cup {Gone}, reset : BOOLEAN]
        /\ opened'.id = id /\ opened'.request = Gone /\ opened'.reset = page.reset
    BY <1>1, <1>4
  <2>2. LogTypes'
    BY <1>1, <2>1 DEF LogInv, LogTypes
  <2>3. ~(nextID - Len(entries) < id)
    <3>1. SUFFICES ASSUME nextID - Len(entries) < id
                   PROVE  FALSE
      OBVIOUS
    <3>2. PICK n, t \in Nat : n = Len(entries) /\ t = nextID /\ n <= t
      BY <1>1, <1>2
    <3>3. PICK i \in 1 .. n : t - n + i = id
      <4>1. id - (t - n) \in 1 .. n /\ t - n + (id - (t - n)) = id
        BY <1>1, <3>1, <3>2
      <4> QED
        BY <4>1
    <3>4. i \in DOMAIN entries /\ entries[i].id = id
      BY <1>2, <3>2, <3>3
    <3> QED
      BY <1>4, <3>4 DEF WithId
  <2>4. page.reset \/ id + Cap <= nextID
    BY <1>1, <2>3 DEF LogInv, PageAges
  <2>5. OpenedAsShown'
    BY <1>1, <2>1, <2>4 DEF OpenedAsShown
  <2> QED
    BY <1>1, <2>2, <2>5 DEF LogInv, LogShape, LogCount, EntriesTell, PageAges
<1> QED
  BY <1>3, <1>4 DEF OpenEntry

LEMMA ResetLogKeeps ==
  ASSUME LogInv, ResetLog
  PROVE  LogInv'
<1>1. /\ entries' = <<>> /\ UNCHANGED <<nextID, opened, logged>>
      /\ page' = [page EXCEPT !.reset = TRUE] /\ cleared' = nextID
      /\ nextID \in Nat /\ Cap \in Nat
  BY CapAssumption DEF ResetLog, LogInv, LogTypes
<1>2. page' \in [ids : SUBSET (1 .. nextID), reset : BOOLEAN] /\ page'.reset
  BY <1>1 DEF LogInv, LogTypes
<1>3. entries' \in Seq(EntryType) /\ Len(entries') = 0 /\ DOMAIN entries' = {}
  BY <1>1
<1>4. LogTypes'
  BY <1>1, <1>2, <1>3 DEF LogInv, LogTypes
<1>5. LogShape' /\ LogCount' /\ EntriesTell' /\ PageAges'
  BY <1>1, <1>2, <1>3, CapAssumption DEF LogShape, LogCount, EntriesTell, PageAges
<1> QED
  BY <1>1, <1>4, <1>5 DEF LogInv, OpenedAsShown

LEMMA LogInvIsInductive == LogInv /\ [LogNext]_logVars => LogInv'
<1> SUFFICES ASSUME LogInv, [LogNext]_logVars
             PROVE  LogInv'
  OBVIOUS
<1>1. CASE \E req \in Requests : Add(req)
  BY <1>1, AddKeeps
<1>2. CASE \E filter \in Filters : ShowPage(filter)
  BY <1>2, ShowPageKeeps
<1>3. CASE \E id \in page.ids : OpenEntry(id)
  BY <1>3, OpenEntryKeeps
<1>4. CASE ResetLog
  BY <1>4, ResetLogKeeps
<1>5. CASE UNCHANGED logVars
  BY <1>5 DEF logVars, LogInv, LogTypes, LogShape, LogCount, EntriesTell, PageAges,
              OpenedAsShown
<1> QED
  BY <1>1, <1>2, <1>3, <1>4, <1>5 DEF LogNext

LEMMA LogInvAtFirst == LogInit => LogInv
<1> SUFFICES ASSUME LogInit
             PROVE  LogInv
  OBVIOUS
<1>1. /\ nextID = 0 /\ entries = <<>> /\ logged = <<>> /\ cleared = 0
      /\ page = [ids |-> {}, reset |-> FALSE]
      /\ opened = [id |-> 0, request |-> Gone, reset |-> FALSE]
  BY DEF LogInit, NoPage, NoEntry
<1>2. LogTypes
  BY <1>1 DEF LogTypes
<1>3. LogShape /\ LogCount /\ EntriesTell /\ PageAges /\ OpenedAsShown
  BY <1>1, CapAssumption DEF LogShape, LogCount, EntriesTell, PageAges, OpenedAsShown
<1> QED
  BY <1>2, <1>3 DEF LogInv

LEMMA LogInvHolds == LogSpec => []LogInv
<1>1. LogInit => LogInv
  BY LogInvAtFirst
<1>2. LogInv /\ [LogNext]_logVars => LogInv'
  BY LogInvIsInductive
<1> QED
  BY <1>1, <1>2, PTL DEF LogSpec

-----------------------------------------------------------------------------
(* What a reader should know of *)

\* The log has the last requests since its reset, as many as fit and no fewer,
\* in order and under their ids, whatever its capacity (RequestLog.Add).
THEOREM LogIsRecent == LogSpec => []IdsAreRecent
<1>1. LogInv => IdsAreRecent
  BY DEF LogInv, LogShape, LogCount, EntriesTell, IdsAreRecent
<1> QED
  BY <1>1, LogInvHolds, PTL

\* An entry opened from a page, however old, is the one the page showed, or is
\* gone for a reason (RequestLog.Get, by id).
THEOREM OpensWhatWasShown == LogSpec => []OpenedAsShown
<1>1. LogInv => OpenedAsShown
  BY DEF LogInv
<1> QED
  BY <1>1, LogInvHolds, PTL

\* Adding a request is a step of what RecentRequests promises: the ids in the
\* log are an interval that ends at the counter.
LEMMA AddIsLog ==
  ASSUME LogInv, NEW req \in Requests, Add(req)
  PROVE  Recent!Log
<1> DEFINE Ids == {entries[i].id : i \in DOMAIN entries}
<1>1. PICK t \in Nat : t = nextID
  BY DEF LogInv, LogTypes
<1>2. PICK n, m \in Nat :
        /\ n = Len(entries) /\ m <= n /\ n <= Cap /\ n <= t
        /\ m + 1 = IF n = Cap THEN Cap ELSE n + 1
        /\ Len(entries') = m + 1
        /\ DOMAIN entries' = 1 .. (m + 1)
  BY <1>1, AddedEntries
<1>3. Cap \in Nat /\ Cap > 0 /\ nextID' = t + 1
  BY <1>1, CapAssumption DEF Add
<1>4. DOMAIN entries = 1 .. n /\ \A i \in 1 .. n : entries[i].id = t - n + i
  <2>1. DOMAIN entries = 1 .. n
    BY <1>2 DEF LogInv, LogTypes
  <2> QED
    BY <1>1, <1>2, <2>1 DEF LogInv, LogShape
<1>5. \A i \in 1 .. (m + 1) : entries'[i].id = t - m + i
  <2>1. LogShape'
    BY AddKeeps DEF LogInv
  <2>2. \A i \in 1 .. (m + 1) : entries'[i].id = (t + 1) - (m + 1) + i
    BY <1>2, <1>3, <2>1 DEF LogShape
  <2>3. \A i \in 1 .. (m + 1) : (t + 1) - (m + 1) + i = t - m + i
    OBVIOUS
  <2> QED
    BY <2>2, <2>3
<1>6. Ids = (t - n + 1) .. t
  <2>1. \A i \in 1 .. n : t - n + i \in (t - n + 1) .. t
    BY <1>2
  <2>2. ASSUME NEW k \in (t - n + 1) .. t
        PROVE  \E i \in 1 .. n : t - n + i = k
    <3>1. k - (t - n) \in 1 .. n /\ t - n + (k - (t - n)) = k
      BY <1>2
    <3> QED
      BY <3>1
  <2> QED
    BY <1>4, <2>1, <2>2
<1>7. Ids' = (t - m + 1) .. (t + 1)
  <2>1. \A i \in 1 .. (m + 1) : t - m + i \in (t - m + 1) .. (t + 1)
    BY <1>2
  <2>2. ASSUME NEW k \in (t - m + 1) .. (t + 1)
        PROVE  \E i \in 1 .. (m + 1) : t - m + i = k
    <3>1. k - (t - m) \in 1 .. (m + 1) /\ t - m + (k - (t - m)) = k
      BY <1>2
    <3> QED
      BY <3>1
  <2>3. Ids' = {t - m + i : i \in 1 .. (m + 1)}
    BY <1>2, <1>5
  <2> HIDE DEF Ids
  <2> QED
    BY <2>1, <2>2, <2>3
<1>8. (t - m + 1) .. (t + 1)
        = {i \in (t - n + 1) .. t \cup {t + 1} : i + Cap > t + 1}
  <2>1. ASSUME NEW k \in (t - m + 1) .. (t + 1)
        PROVE  k \in {i \in (t - n + 1) .. t \cup {t + 1} : i + Cap > t + 1}
    BY <1>2, <1>3
  <2>2. ASSUME NEW k \in (t - n + 1) .. t \cup {t + 1}, k + Cap > t + 1
        PROVE  k \in (t - m + 1) .. (t + 1)
    <3>1. k \in Int /\ t - n + 1 <= k /\ k <= t + 1
      BY <1>2, <2>2
    <3>2. t - m + 1 <= k
      BY <1>2, <1>3, <2>2, <3>1
    <3> QED
      BY <3>1, <3>2
  <2> QED
    BY <2>1, <2>2
<1>9. Ids' = {i \in Ids \cup {nextID + 1} : i + Cap > nextID + 1}
  <2> HIDE DEF Ids
  <2> QED
    BY <1>1, <1>6, <1>7, <1>8
<1> QED
  BY <1>1, <1>3, <1>9 DEF Recent!Log

\* The log implements its promise: every step of it is a step or a stutter of
\* RecentRequests under the mapping of Recent.
THEOREM LogKeepsItsPromise == LogSpec => ImplementsRecent
<1>1. LogInit => Recent!Init
  BY DEF LogInit, Recent!Init
<1>2. LogInv /\ [LogNext]_logVars => [Recent!Next]_(Recent!recentVars)
  <2> SUFFICES ASSUME LogInv, [LogNext]_logVars
               PROVE  [Recent!Next]_(Recent!recentVars)
    OBVIOUS
  <2>1. CASE \E req \in Requests : Add(req)
    BY <2>1, AddIsLog DEF Recent!Next
  <2>2. CASE \E filter \in Filters : ShowPage(filter)
    BY <2>2 DEF ShowPage, Recent!recentVars
  <2>3. CASE \E id \in page.ids : OpenEntry(id)
    BY <2>3 DEF OpenEntry, Recent!recentVars
  <2>4. CASE ResetLog
    BY <2>4 DEF ResetLog, Recent!Next, Recent!Clear
  <2>5. CASE UNCHANGED logVars
    BY <2>5 DEF logVars, Recent!recentVars
  <2> QED
    BY <2>1, <2>2, <2>3, <2>4, <2>5 DEF LogNext
<1> QED
  BY <1>1, <1>2, LogInvHolds, PTL DEF LogSpec, ImplementsRecent, Recent!Spec

-----------------------------------------------------------------------------
(* The desk *)

\* Every behaviour of the desk is one of each of its parts: no step of one is
\* more than a stutter to the others, which share nothing with it.
THEOREM PartsAreOnTheirOwn == Spec => QRSpec /\ KaspiSpec /\ LogSpec
<1>1. Init => QRInit /\ KaspiInit /\ LogInit
  BY DEF Init
<1>2. [Next]_vars => [QRNext]_qrVars /\ [KaspiNext]_kaspiVars /\ [LogNext]_logVars
  BY DEF Next, OnlyQR, OnlyKaspi, OnlyLog, vars
<1> QED
  BY <1>1, <1>2, PTL DEF Spec, QRSpec, KaspiSpec, LogSpec

\* Besides QRInv: a TrnID was issued for every step of the counter.
QRCounts ==
  counter \in Nat /\ issued \in Seq(Nat) /\ Len(issued) >= counter

LEMMA SucceedCounts ==
  ASSUME QRInv, QRCounts, NEW u \in Codes, NEW returned \in BOOLEAN, Succeed(u, returned)
  PROVE  counter' \in Nat /\ issued' \in Seq(Nat) /\ Len(issued') >= counter'
<1>1. clock \in Nat /\ counter \in Nat /\ issued \in Seq(Nat) /\ Len(issued) >= counter
  BY DEF QRInv, QRTypes, QRCounts
<1>2. Trn \in Nat
  BY <1>1 DEF Trn
<1>3. issued' = Append(issued, Trn) /\ counter' = counter + 1
  BY DEF Succeed
<1>4. issued' \in Seq(Nat) /\ Len(issued') = Len(issued) + 1
  BY <1>1, <1>2, <1>3
<1>5. Len(issued) \in Nat
  BY <1>1
<1> QED
  BY <1>1, <1>3, <1>4, <1>5

LEMMA QRCountsIsInductive == QRInv /\ QRCounts /\ [QRNext]_qrVars => QRCounts'
<1> SUFFICES ASSUME QRInv, QRCounts, [QRNext]_qrVars
             PROVE  QRCounts'
  OBVIOUS
<1>1. CASE UNCHANGED <<counter, issued>>
  BY <1>1 DEF QRCounts
<1>2. ASSUME NEW u \in Codes, NEW s \in Open \cup Final, UpdateStatus(u, s)
      PROVE  QRCounts'
  <2>1. CASE s = "SUCCESS"
    <3>1. Succeed(u, FALSE)
      BY <1>2, <2>1 DEF UpdateStatus
    <3> QED
      BY <3>1, SucceedCounts DEF QRCounts
  <2>2. CASE s # "SUCCESS"
    BY <1>1, <1>2, <2>2 DEF UpdateStatus
  <2> QED
    BY <2>1, <2>2
<1>3. ASSUME NEW u \in Codes, ConfirmRefund(u)
      PROVE  QRCounts'
  <2>1. Succeed(u, TRUE)
    BY <1>3 DEF ConfirmRefund
  <2> QED
    BY <2>1, SucceedCounts DEF QRCounts
<1>4. ASSUME NEW r \in Readers, NEW u \in Codes, ReadRefund(r, u)
      PROVE  QRCounts'
  BY <1>1, <1>4 DEF ReadRefund, histories
<1>5. ASSUME NEW r \in Readers, ListPayments(r)
      PROVE  QRCounts'
  BY <1>1, <1>5 DEF ListPayments
<1>6. ASSUME NEW u \in Codes, Expire(u)
      PROVE  QRCounts'
  <2>1. "EXPIRED" \in Open \cup Final
    BY DEF Final
  <2>2. UpdateStatus(u, "EXPIRED") \/ UNCHANGED <<counter, issued>>
    BY <1>6 DEF Expire, MarkExpired, histories
  <2> QED
    BY <1>1, <1>2, <2>1, <2>2
<1>7. ASSUME NEW u \in Codes, NEW s \in Open \cup Final, ChangeStatus(u, s)
      PROVE  QRCounts'
  BY <1>2, <1>7 DEF ChangeStatus
<1>8. CASE Tick \/ QRReset
  BY <1>1, <1>8 DEF Tick, QRReset, CounterKept, histories
<1>9. ASSUME NEW u \in Codes, NEW refund \in BOOLEAN, NEW m \in Merchants,
             Generate(u, refund, m)
      PROVE  QRCounts'
  BY <1>1, <1>9 DEF Generate, histories
<1>10. ASSUME NEW u \in Codes, SendWebhook(u)
       PROVE  QRCounts'
  BY <1>1, <1>10 DEF SendWebhook
<1>11. ASSUME NEW u \in Codes, TimeUp(u) \/ TooLate(u) \/ GiveUp(u) \/ LookAgain(u)
       PROVE  QRCounts'
  BY <1>1, <1>11 DEF TimeUp, TooLate, GiveUp, LookAgain, histories
<1>12. CASE UNCHANGED qrVars
  BY <1>1, <1>12 DEF qrVars
<1> QED
  BY <1>3, <1>4, <1>5, <1>6, <1>7, <1>8, <1>9, <1>10, <1>11, <1>12
     DEF QRNext, AutoExpire

LEMMA QRCountsHolds == QRSpec => []QRCounts
<1>1. QRInit => QRCounts
  BY DEF QRInit, QRCounts
<1>2. QRInv /\ QRCounts /\ [QRNext]_qrVars => QRCounts'
  BY QRCountsIsInductive
<1> QED
  BY <1>1, <1>2, QRInvHolds, PTL DEF QRSpec

\* The counter of the links and the settings stay within their bounds.
KaspiCounts == idCounter <= MaxLinks /\ Len(settled) <= MaxSettled

LEMMA KaspiIsBounded == KaspiSpec => []KaspiCounts
<1>1. KaspiInit => KaspiCounts
  BY KaspiBounds DEF KaspiInit, KaspiCounts
<1>2. KaspiInv /\ KaspiCounts /\ [KaspiNext]_kaspiVars => KaspiCounts'
  <2> SUFFICES ASSUME KaspiInv, KaspiCounts, [KaspiNext]_kaspiVars
               PROVE  KaspiCounts'
    OBVIOUS
  <2>1. idCounter \in Nat /\ Len(given) = idCounter /\ Len(settled) \in Nat
        /\ settled \in Seq([id : 1 .. idCounter, status : LinkStatuses])
    BY DEF KaspiInv, KaspiTypes
  <2>2. CASE \E ext \in Externals : CreateLink(ext)
    BY <2>1, <2>2, KaspiBounds DEF CreateLink, Increased, NextId, KaspiCounts
  <2>3. ASSUME NEW id \in DOMAIN links, NEW s \in LinkStatuses, Settle(id, s)
        PROVE  KaspiCounts'
    <3>1. Len(settled) < MaxSettled /\ idCounter' = idCounter
          /\ settled' = Append(settled, [id |-> id, status |-> s])
      BY <2>3 DEF Settle
    <3>2. Len(settled') = Len(settled) + 1
      <4>1. id \in 1 .. idCounter
        BY DEF KaspiInv, KaspiTypes
      <4> QED
        BY <2>1, <3>1, <4>1
    <3> QED
      BY <2>1, <3>1, <3>2, KaspiBounds DEF KaspiCounts
  <2>4. CASE idCounter' = idCounter /\ settled' = settled
    BY <2>4 DEF KaspiCounts
  <2> QED
    BY <2>2, <2>3, <2>4 DEF KaspiNext, Poll, kaspiVars
<1> QED
  BY <1>1, <1>2, KaspiInvHolds, PTL DEF KaspiSpec

\* The values of the three parts are of their types: a code that is known has
\* its goroutine, ids and TrnIDs are counted as they are given out, the last
\* poll is of a link that is there, and a page lists what was logged.
THEOREM DeskIsTyped == Spec => []TypeOK
<1>1. QRInv /\ QRCounts /\ Belongs => QRTypeOK
  <2> SUFFICES ASSUME QRInv, QRCounts, Belongs
               PROVE  QRTypeOK
    OBVIOUS
  <2>1. ASSUME NEW u \in Codes, Known(u)
        PROVE  codes[u] \in Code /\ timer[u] # "none"
    BY <2>1 DEF QRInv, QRTypes, CodeInv, NoTrace, Known
  <2> QED
    BY <2>1 DEF QRInv, QRTypes, QRCounts, Belongs, ReadersBelong, QRTypeOK
<1>2. KaspiInv /\ KaspiCounts =>
        /\ idCounter \in 0 .. MaxLinks /\ Len(settled) <= MaxSettled
        /\ polled \in [id : {0} \cup DOMAIN links, status : LinkStatuses,
                       at : 0 .. Len(settled)]
  <2> SUFFICES ASSUME KaspiInv, KaspiCounts
               PROVE  /\ idCounter \in 0 .. MaxLinks /\ Len(settled) <= MaxSettled
                      /\ polled \in [id : {0} \cup DOMAIN links, status : LinkStatuses,
                                     at : 0 .. Len(settled)]
    OBVIOUS
  <2>1. DOMAIN links = 1 .. idCounter /\ idCounter \in Nat
        /\ 0 .. idCounter = {0} \cup 1 .. idCounter
    BY DEF KaspiInv, KaspiTypes
  <2> QED
    BY <2>1, KaspiBounds DEF KaspiInv, KaspiTypes, KaspiCounts
<1>3. LogInv => Len(logged) = nextID /\ page.ids \subseteq 1 .. nextID
  BY DEF LogInv, LogTypes
<1> QED
  BY <1>1, <1>2, <1>3, PartsAreOnTheirOwn, QRInvHolds, QRCountsHolds, BelongsHolds,
     KaspiInvHolds, KaspiIsBounded, LogInvHolds, PTL DEF TypeOK
=============================================================================
