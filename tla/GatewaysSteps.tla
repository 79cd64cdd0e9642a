---------------------------- MODULE GatewaysSteps ----------------------------
(***************************************************************************)
(* The steps of Gateways, told apart by what they do and not by the        *)
(* endpoint they belong to.  ServeHasShape goes through every answer of    *)
(* every handler and shows that it looks at the payments, opens one, or    *)
(* moves one; StepCases adds the steps that answer nobody.  GatewayInv is  *)
(* inductive for them.  GatewaysProofs proves the properties from these    *)
(* facts, without another look at the handlers.                            *)
(***************************************************************************)
EXTENDS Gateways, FiniteSetTheorems, SequenceTheorems, TLAPS

(***************************************************************************)
(* The values the variables take.                                          *)
(***************************************************************************)
RefundType == [id : Nat, amount : Int, ok : BOOLEAN]

RecordType ==
  [bank : Banks, status : Statuses, amount : Uint, captured : Uint, refunded : Uint,
   refunds : SUBSET RefundType, history : SUBSET Statuses, origin : Statuses,
   sent : BOOLEAN]

PaymentType == [rec : RecordType, order : Orders \cup {NoOrder}, kind : Kinds,
                hidden : BOOLEAN, muted : BOOLEAN]

EntryType == [rule : AnyRule, hits : 0 .. MaxHits, no : Nat]

\* The copy of a request without a rule, and a request that is none, have "none".
OrNone(S)  == S \cup {"none"}
CopyType  == [action : OrNone(STRING), arg : OrNone(STRING),
              late : BOOLEAN, hits : Nat, no : Nat]

RequestType == [ep : OrNone(EpayEndpoints \cup FlittEndpoints \cup FreedomEndpoints),
                id : Nat, order : Orders \cup {NoOrder}, sum : Uint, kind : Kinds]
CallType    == [req : RequestType, rule : CopyType]

\* A note tells a status that one of the payments P has been in.
About(n, P) == n.id \in DOMAIN P /\ n.says \in Statuses /\ Tells(P[n.id], n.kind, n.says)

\* What the clients of a bank ask for.
Openers(b) ==
  CASE b = "epay" -> EpayOpeners [] b = "flitt" -> FlittOpeners [] OTHER -> FreedomOpeners

FitsEpay(r) ==
  /\ r.ep \in EpayEndpoints /\ r.id \in 0 .. MaxId
  /\ r.ep \in EpayOpeners => r.id = 0
  /\ r.ep = "epay_status" => (r.order = NoOrder <=> r.id # 0)

FitsFlitt(r) == r.ep \in FlittOpeners \cup FlittOperations

FitsFreedom(r) ==
  /\ r.ep \in FreedomOpeners \cup FreedomOperations \cup Wallets \cup {"remove"}
  /\ r.id \in 0 .. MaxId

Fits(b, r) ==
  CASE b = "epay" -> FitsEpay(r) [] b = "flitt" -> FitsFlitt(r) [] OTHER -> FitsFreedom(r)

Types ==
  /\ bank \in {"epay", "flitt", "freedom"}
  /\ book \in Seq(EntryType) /\ failed \in Seq(Nat) /\ Len(book) <= Len(failed)
  /\ pays \in Seq(PaymentType)
  /\ call \in [Clients -> CallType]
  /\ \A n \in notes : About(n, pays)
  /\ holds \subseteq Ids /\ found \subseteq Orders
  /\ holds # {} => bank = "freedom"

RequestsFit == \A c \in Clients : Waiting(c) => Fits(bank, call[c].req)

Room == Len(pays) + Busy(Openers(bank)) <= MaxId

\* A record remembers the status it has, and its refunds can be counted.
RecordsKeep ==
  \A id \in DOMAIN pays :
    Status(id) \in pays[id].rec.history /\ IsFiniteSet(pays[id].rec.refunds)

GatewayInv == Types /\ RequestsFit /\ Room /\ RecordsKeep

(***************************************************************************)
(* What the answer to a request of client c does.  Whatever its handler,   *)
(* it looks at the payments, opens one, or moves one (ServeHasShape); the  *)
(* properties of Gateways are proved of these three.                       *)
(***************************************************************************)
Said(N) == {n \in N : n.kind = "success"}
NothingSaid == Said(notes') = Said(notes)
SaidOf(id, s, times) == Said(notes') = Said(Noted(notes, id, s, "success", times))

\* Success is told, and promises a status; failure is told, or success that
\* promises that nothing is done.
Success(c) ==
  \/ /\ last' \in {"ok", "distorted"}
     /\ Promised(call[c].req.ep) # Statuses /\ ~Excepted(call[c])
  \/ last' = "lost" /\ call[c].req.ep = "epay_confirm"

Failure(c) ==
  last' \in {"refused", "error", "garbled", "ambiguous", "held"} \/ PastCheck(call[c])

\* A rule declines the request in its handler.
DeclinedByRule(c) ==
  /\ bank = "epay" /\ call[c].rule.action = "force_failure"
  /\ call[c].req.ep \in {"epay_cryptopay", "epay_card_auth", "epay_confirm"}

RefusedFirst(c) ==
  /\ bank # "freedom" /\ call[c].req.ep # "epay_token"
  /\ Transient(call[c].rule)

Mutes(c) == call[c].rule.action \in Muting

Answered(c) ==
  /\ Waiting(c) /\ call' = [call EXCEPT ![c] = Idle]
  /\ UNCHANGED <<bank, book>>
  /\ failed' = IF RefusedFirst(c) THEN [failed EXCEPT ![call[c].rule.no] = @ + 1]
               ELSE failed
  /\ \A n \in notes' : About(n, pays')
  /\ holds' \subseteq Ids /\ (holds' = holds \/ bank = "freedom")

Looked(c) ==
  /\ pays' = pays /\ NothingSaid
  /\ found' \subseteq Orders /\ \A o \in found' \ found : Shown(o) # {}
  /\ ~Success(c)
  /\ DeclinedByRule(c) => last' = "error"
  /\ call[c].req.ep = "epay_status" /\ last' = "error"
       => call[c].req.id # 0 \/ Shown(call[c].req.order) = {}

Opened(c) ==
  LET p == pays'[NewID] IN
  /\ NewID \in DOMAIN pays' /\ p \in PaymentType /\ pays' = Append(pays, p)
  /\ call[c].req.ep \in Openers(bank) /\ found' = found
  /\ p.kind = call[c].req.kind /\ (p.muted <=> Mutes(c))
  /\ p.rec.refunds = {} /\ p.rec.status # "CANCELLED"
  /\ p.rec.status \in p.rec.history /\ p.rec.history \subseteq {"NEW", p.rec.status}
  /\ Success(c) => p.rec.status \in Promised(call[c].req.ep)
  /\ Failure(c) => call[c].rule.action = "epay_late_operation"
  /\ last' = "declined" \/ DeclinedByRule(c) => p.rec.status = "FAILED"
  /\ DeclinedByRule(c) => call[c].req.id = 0
  /\ \/ /\ NothingSaid
        /\ AutoWebhook /\ bank # "freedom" /\ p.rec.status \in Announceable
             => bank = "epay" /\ (p.muted \/ p.kind = "bind")
     \/ /\ p.rec.status = "AUTHORIZED"
        /\ \E times \in 1 .. 2 : SaidOf(NewID, "AUTHORIZED", times) /\ (times = 2 => p.muted)

\* The record a payment is moved to; a refund may leave its status as it was.
Succeeds(old, rec) ==
  /\ rec.history = old.history \cup {rec.status}
  /\ rec.status # old.status =>
       /\ rec.status \notin {"NEW", "HOLD_PENDING"}
       /\ rec.status = "AUTHORIZED" => old.status \in {"NEW", "HOLD_PENDING"}
       /\ rec.status \in {"CAPTURED", "CANCELLED"} => old.status = "AUTHORIZED"

Moves(id, rec, mutes) ==
  /\ rec \in RecordType /\ IsFiniteSet(rec.refunds)
  /\ Succeeds(pays[id].rec, rec)
  /\ pays' = [pays EXCEPT ![id].rec = rec, ![id].muted = @ \/ mutes]
  /\ found' = found

MovedOne(c) ==
  \E id \in DOMAIN pays : LET rec == pays'[id].rec IN
  /\ Moves(id, rec, Mutes(c))
  /\ Success(c) => rec.status \in Promised(call[c].req.ep) /\ rec # pays[id].rec
  /\ Failure(c) => rec = pays[id].rec
  /\ call[c].req.ep # "epay_status"
  /\ last' = "declined" => rec.status = "FAILED"
  /\ DeclinedByRule(c) => rec.status = "FAILED" /\ call[c].req.id = id /\ id # 0
  /\ \/ /\ NothingSaid
        /\ AutoWebhook /\ bank # "freedom"
             /\ rec.status \in Announceable /\ rec.status # Status(id)
             => bank = "epay" /\ Mutes(c)
     \/ /\ rec.status \notin {"NEW", "FAILED"}
        /\ bank = "epay" /\ rec.status \in Announceable => rec.status # Status(id)
        /\ \E times \in 1 .. 2 : SaidOf(id, rec.status, times) /\ (times = 2 => Mutes(c))

Shape(c) == Answered(c) /\ (Looked(c) \/ Opened(c) \/ MovedOne(c))

(***************************************************************************)
(* The stories the properties rest on.                                     *)
(***************************************************************************)
\* A payment is not announced before it leaves NEW; one that is held has not
\* been captured or cancelled.
StatusStory ==
  \A id \in DOMAIN pays :
    /\ Status(id) \in {"NEW", "HOLD_PENDING"} => pays[id].rec.history \cap Announceable = {}
    /\ Status(id) = "AUTHORIZED" => pays[id].rec.history \cap Announceable = {"AUTHORIZED"}

FoundShown == \A o \in found : Shown(o) # {}

-----------------------------------------------------------------------------
(* Records *)

LEMMA UintPlus ==
  ASSUME NEW a \in Uint, NEW b \in Uint
  PROVE  Plus(a, b) \in Uint /\ Minus(a, b) \in Uint
  BY WordAssumption DEF Uint, Plus, Minus

LEMMA MovedRecord ==
  ASSUME NEW rec \in RecordType, NEW s \in Statuses
  PROVE  /\ Moved(rec, s) \in RecordType
         /\ Moved(rec, s).status = s /\ Moved(rec, s).refunds = rec.refunds
         /\ Moved(rec, s).history = rec.history \cup {s}
  BY DEF Moved, RecordType

LEMMA CapturedRecord ==
  ASSUME NEW rec \in RecordType, NEW a \in Uint
  PROVE  /\ Captured(rec, a) \in RecordType
         /\ Captured(rec, a).status = "CAPTURED" /\ Captured(rec, a).refunds = rec.refunds
         /\ Captured(rec, a).history = rec.history \cup {"CAPTURED"}
<1>1. PICK r \in RecordType : r = [rec EXCEPT !.captured = a]
  BY DEF RecordType
<1>2. r.refunds = rec.refunds /\ r.history = rec.history
  BY <1>1 DEF RecordType
<1>3. "CAPTURED" \in Statuses
  BY DEF Statuses
<1>4. Captured(rec, a) = Moved(r, "CAPTURED")
  BY <1>1 DEF Captured
<1> QED
  BY <1>2, <1>3, <1>4, MovedRecord

LEMMA RefundedRecord ==
  ASSUME NEW rec \in RecordType, NEW delta \in Uint
  PROVE  /\ Refunded(rec, delta) \in RecordType
         /\ Refunded(rec, delta).refunds = rec.refunds
         /\ Refunded(rec, delta).refunded = Plus(rec.refunded, delta)
         /\ Refunded(rec, delta).status = IF Plus(rec.refunded, delta) >= rec.captured
                                          THEN "REFUNDED" ELSE "PARTIAL_REFUNDED"
         /\ Refunded(rec, delta).history = rec.history \cup {Refunded(rec, delta).status}
<1>1. PICK t \in Uint : t = Plus(rec.refunded, delta)
  BY UintPlus DEF RecordType
<1>2. PICK r \in RecordType : r = [rec EXCEPT !.refunded = t]
  BY <1>1 DEF RecordType
<1>3. r.refunds = rec.refunds /\ r.refunded = t /\ r.history = rec.history
  BY <1>2 DEF RecordType
<1>4. PICK s \in Statuses :
        s = IF t >= rec.captured THEN "REFUNDED" ELSE "PARTIAL_REFUNDED"
  BY DEF Statuses
<1>5. Refunded(rec, delta) = Moved(r, s)
  BY <1>1, <1>2, <1>4 DEF Refunded
<1>6. Moved(r, s).refunded = r.refunded
  BY DEF Moved, RecordType
<1> QED
  BY <1>1, <1>3, <1>4, <1>5, <1>6, MovedRecord

\* A refund that is accepted changes the record: its status, or the sum.
LEMMA RefundingMoves ==
  ASSUME NEW rec \in RecordType, NEW sum \in Uint, rec.status \in Refundable
  PROVE  /\ RefundDelta(rec, sum) \in Uint
         /\ \/ Refunded(rec, RefundDelta(rec, sum)).status # rec.status
            \/ Refunded(rec, RefundDelta(rec, sum)).refunded # rec.refunded
<1>1. /\ rec.captured \in Uint /\ rec.refunded \in Uint
      /\ rec.status \in {"CAPTURED", "PARTIAL_REFUNDED"}
  BY DEF RecordType, Refundable
<1>2. PICK delta \in Uint : delta = RefundDelta(rec, sum)
  BY <1>1, UintPlus DEF RefundDelta
<1>3. PICK r \in RecordType : r = Refunded(rec, delta)
  BY RefundedRecord
<1>4. /\ r.refunded = Plus(rec.refunded, delta)
      /\ r.status = IF Plus(rec.refunded, delta) >= rec.captured
                    THEN "REFUNDED" ELSE "PARTIAL_REFUNDED"
  BY <1>3, RefundedRecord
<1>5. CASE Plus(rec.refunded, delta) >= rec.captured
  BY <1>1, <1>2, <1>3, <1>4, <1>5
<1>6. CASE ~(Plus(rec.refunded, delta) >= rec.captured)
  <2>1. delta # 0
    <3>1. CASE sum = 0
      <4>1. delta = Minus(rec.captured, rec.refunded)
        BY <1>2, <3>1 DEF RefundDelta
      <4>2. SUFFICES ASSUME delta = 0
                     PROVE  FALSE
        OBVIOUS
      <4>3. rec.captured = rec.refunded
        BY <1>1, <4>1, <4>2, WordAssumption DEF Minus, Uint
      <4>4. Plus(rec.refunded, 0) = rec.refunded
        BY <1>1, WordAssumption DEF Plus, Uint
      <4> QED
        BY <1>1, <1>6, <4>2, <4>3, <4>4 DEF Uint
    <3>2. CASE sum # 0
      BY <1>2, <3>2 DEF RefundDelta
    <3> QED
      BY <3>1, <3>2
  <2>2. Plus(rec.refunded, delta) # rec.refunded
    BY <1>1, <2>1, WordAssumption DEF Plus, Uint
  <2> QED
    BY <1>2, <1>3, <1>4, <2>2
<1> QED
  BY <1>5, <1>6

LEMMA ForcedFailed ==
  ASSUME NEW rec \in RecordType
  PROVE  /\ Forced(rec, "FAILED") \in RecordType
         /\ Forced(rec, "FAILED").status = "FAILED"
         /\ Forced(rec, "FAILED").refunds = rec.refunds
         /\ Forced(rec, "FAILED").history = rec.history \cup {"FAILED"}
<1>1. "FAILED" \in Statuses
  BY DEF Statuses
<1>2. PICK r \in RecordType : r = [rec EXCEPT
           !.captured = IF "FAILED" = "CAPTURED" /\ @ = 0 THEN rec.amount ELSE @,
           !.refunded = IF "FAILED" = "REFUNDED" THEN rec.captured ELSE @]
  BY DEF RecordType
<1>3. r.refunds = rec.refunds /\ r.history = rec.history
  BY <1>2 DEF RecordType
<1>4. Forced(rec, "FAILED") = Moved(r, "FAILED")
  BY <1>2 DEF Forced
<1> QED
  BY <1>1, <1>3, <1>4, MovedRecord

LEMMA NewRecordTyped ==
  ASSUME NEW b \in Banks, NEW s \in Statuses, NEW a \in Uint
  PROVE  /\ NewRecord(b, s, a) \in RecordType
         /\ NewRecord(b, s, a).status = s /\ NewRecord(b, s, a).history = {s}
         /\ NewRecord(b, s, a).refunds = {}
<1>1. 0 \in Uint
  BY WordAssumption DEF Uint
<1> QED
  BY <1>1 DEF NewRecord, RecordType

-----------------------------------------------------------------------------
(* Notes *)

LEMMA SaidNoted ==
  ASSUME NEW N, NEW id, NEW s, NEW kind, NEW times, kind # "success"
  PROVE  Said(Noted(N, id, s, kind, times)) = Said(N)
  BY DEF Said, Noted

LEMMA NotedIsAbout ==
  ASSUME NEW N, NEW P, NEW id \in DOMAIN P, NEW s \in Statuses, NEW kind, NEW times,
         Tells(P[id], kind, s), \A n \in N : About(n, P)
  PROVE  \A n \in Noted(N, id, s, kind, times) : About(n, P)
  BY DEF Noted, About

\* Notes of one kind about one status do not count as others.
LEMMA NotedOthers ==
  ASSUME NEW N, NEW id, NEW s, NEW times, NEW x, NEW t, x # id \/ t # s
  PROVE  Copies(Noted(N, id, s, "success", times), x, t, "success")
           = Copies(N, x, t, "success")
<1>1. \A n \in Noted(N, id, s, "success", times) : n \in N \/ (n.id = id /\ n.says = s)
  BY DEF Noted
<1>2. N \subseteq Noted(N, id, s, "success", times)
  BY DEF Noted
<1> QED
  BY <1>1, <1>2 DEF Copies

LEMMA CopiesAreSaid ==
  ASSUME NEW N, NEW id, NEW s
  PROVE  Copies(N, id, s, "success") = Copies(Said(N), id, s, "success")
  BY DEF Copies, Said

\* The first note about a status is there, and is the only one if one is sent.
LEMMA NotedFirst ==
  ASSUME NEW N, NEW id, NEW s, NEW times \in 1 .. 2,
         Copies(N, id, s, "success") = {}
  PROVE  LET C == Copies(Noted(N, id, s, "success", times), id, s, "success")
         IN  C # {} /\ (times = 1 => Cardinality(C) = 1)
<1> DEFINE C == Copies(Noted(N, id, s, "success", times), id, s, "success")
           note(i) == [id |-> id, says |-> s, kind |-> "success", n |-> i]
<1>1. Cardinality(Copies(N, id, s, "success")) = 0
  BY FS_EmptySet
<1>2. Noted(N, id, s, "success", times)
        = N \cup {note(i) : i \in {j \in 1 .. times : j <= MaxNotes}}
  BY <1>1 DEF Noted
<1>3. C = {note(i) : i \in {j \in 1 .. times : j <= MaxNotes}}
  BY <1>2 DEF Copies
<1>4. 1 \in {j \in 1 .. times : j <= MaxNotes}
  BY LimitAssumption
<1>5. note(1) \in C
  BY <1>3, <1>4
<1>6. ASSUME times = 1
      PROVE  Cardinality(C) = 1
  <2>1. {j \in 1 .. times : j <= MaxNotes} = {1}
    BY <1>4, <1>6
  <2>2. C = {note(1)}
    BY <1>3, <2>1
  <2> QED
    BY <2>2, FS_Singleton
<1> QED
  BY <1>5, <1>6

\* A status that has been announced stays announced.
LEMMA NotedKeeps ==
  ASSUME NEW N, NEW id, NEW s, NEW times, NEW x, NEW t
  PROVE  Copies(N, x, t, "success") \subseteq Copies(Noted(N, id, s, "success", times), x, t, "success")
  BY DEF Copies, Noted

-----------------------------------------------------------------------------
(* Payments opened and moved *)

LEMMA CallTyped ==
  ASSUME Types, NEW c \in Clients
  PROVE  call[c].req \in RequestType /\ call[c].rule \in CopyType
  BY DEF Types, CallType

LEMMA PaysTyped ==
  ASSUME Types, NEW id \in DOMAIN pays
  PROVE  pays[id] \in PaymentType /\ pays[id].rec \in RecordType /\ Status(id) \in Statuses
<1>1. pays[id] \in PaymentType
  BY DEF Types
<1> QED
  BY <1>1 DEF PaymentType, RecordType, Status

LEMMA PaymentTyped ==
  ASSUME NEW rec \in RecordType, NEW req \in RequestType, NEW rule
  PROVE  /\ Payment(rec, req, rule) \in PaymentType
         /\ Payment(rec, req, rule).rec = rec
         /\ Payment(rec, req, rule).kind = req.kind
         /\ Payment(rec, req, rule).order = req.order
         /\ Payment(rec, req, rule).hidden = FALSE
  BY DEF Payment, PaymentType, RequestType

LEMMA PaymentMuted ==
  ASSUME NEW rec, NEW req, NEW rule
  PROVE  Payment(rec, req, rule).muted <=> rule.action \in Muting
  BY DEF Payment

\* Every payment is still there with all it has been, and so are the notes true.
PastKept ==
  \A id \in DOMAIN pays :
    /\ id \in DOMAIN pays' /\ pays[id].rec.history \subseteq pays'[id].rec.history
    /\ pays'[id].kind = pays[id].kind

LEMMA NotesKept ==
  ASSUME Types, PastKept
  PROVE  \A n \in notes : About(n, pays')
<1>1. SUFFICES ASSUME NEW n \in notes
               PROVE  About(n, pays')
  OBVIOUS
<1>2. n.id \in DOMAIN pays /\ n.says \in Statuses /\ Tells(pays[n.id], n.kind, n.says)
  BY DEF Types, About
<1>3. Tells(pays'[n.id], n.kind, n.says)
  BY <1>2 DEF PastKept, Tells
<1> QED
  BY <1>2, <1>3 DEF PastKept, About

LEMMA OpenOne ==
  ASSUME Types, NEW p \in PaymentType, Open(p)
  PROVE  /\ NewID \in DOMAIN pays' /\ NewID \notin DOMAIN pays
         /\ pays'[NewID] = p /\ pays' = Append(pays, p) /\ PastKept
         /\ \A id \in DOMAIN pays : pays'[id] = pays[id]
<1>1. pays \in Seq(PaymentType) /\ pays' = Append(pays, p)
  BY DEF Types, Open
<1>2. PICK n \in Nat : n = Len(pays)
  BY <1>1
<1>3. DOMAIN pays = 1 .. n /\ DOMAIN pays' = 1 .. (n + 1) /\ NewID = n + 1
  BY <1>1, <1>2 DEF NewID
<1>4. \A id \in DOMAIN pays : id \in DOMAIN pays' /\ pays'[id] = pays[id]
  BY <1>1, <1>2, <1>3
<1> QED
  BY <1>1, <1>2, <1>3, <1>4 DEF PastKept

LEMMA StoreOne ==
  ASSUME Types, NEW id \in DOMAIN pays, NEW rec \in RecordType, NEW rule,
         Store(id, rec, rule), Succeeds(pays[id].rec, rec)
  PROVE  /\ pays'[id].rec = rec /\ DOMAIN pays' = DOMAIN pays /\ PastKept
         /\ pays' = [pays EXCEPT ![id].rec = rec, ![id].muted = @ \/ rule.action \in Muting]
<1>1. pays' = [pays EXCEPT ![id].rec = rec, ![id].muted = @ \/ rule.action \in Muting]
  BY DEF Store
<1>2. pays[id] \in PaymentType
  BY PaysTyped
<1>3. pays'[id] = [[pays[id] EXCEPT !.rec = rec] EXCEPT !.muted = @ \/ rule.action \in Muting]
  BY <1>1
<1>4. pays'[id].rec = rec /\ pays'[id].kind = pays[id].kind
  <2>1. [[pays[id] EXCEPT !.rec = rec] EXCEPT !.muted = @ \/ rule.action \in Muting].rec = rec
    BY <1>2 DEF PaymentType
  <2>2. [[pays[id] EXCEPT !.rec = rec] EXCEPT !.muted = @ \/ rule.action \in Muting].kind
          = pays[id].kind
    BY <1>2 DEF PaymentType
  <2> QED
    BY <1>3, <2>1, <2>2
<1>5. DOMAIN pays' = DOMAIN pays /\ \A x \in DOMAIN pays \ {id} : pays'[x] = pays[x]
  BY <1>1
<1>6. PastKept
  BY <1>4, <1>5 DEF PastKept, Succeeds
<1> QED
  BY <1>1, <1>4, <1>5, <1>6

LEMMA PaymentOpened ==
  ASSUME Types, NEW c \in Clients, NEW rec \in RecordType
  PROVE  \E p \in PaymentType :
           /\ p = Payment(rec, call[c].req, call[c].rule) /\ p.rec = rec
           /\ p.kind = call[c].req.kind /\ (p.muted <=> Mutes(c))
<1>1. call[c].req \in RequestType
  BY CallTyped
<1>2. Mutes(c) <=> call[c].rule.action \in Muting
  BY DEF Mutes
<1>3. PICK p \in PaymentType : p = Payment(rec, call[c].req, call[c].rule)
  BY <1>1, PaymentTyped
<1>4. p.rec = rec /\ p.kind = call[c].req.kind
  <2>1. /\ Payment(rec, call[c].req, call[c].rule).rec = rec
        /\ Payment(rec, call[c].req, call[c].rule).kind = call[c].req.kind
    BY DEF Payment
  <2> QED
    BY <1>3, <2>1
<1>5. p.muted <=> Mutes(c)
  <2>1. Payment(rec, call[c].req, call[c].rule).muted <=> call[c].rule.action \in Muting
    BY PaymentMuted
  <2> QED
    BY <1>2, <1>3, <2>1, Zenon
<1> QED
  BY <1>3, <1>4, <1>5

\* What the service's later methods make of a record.
LEMMA Authorizing ==
  ASSUME GatewayInv, NEW id \in DOMAIN pays, Status(id) \in AllowedTransitions("AUTHORIZED")
  PROVE  LET rec == Moved(pays[id].rec, "AUTHORIZED") IN
         /\ rec \in RecordType /\ IsFiniteSet(rec.refunds)
         /\ Succeeds(pays[id].rec, rec)
         /\ rec.status = "AUTHORIZED" /\ Status(id) # "AUTHORIZED" /\ rec # pays[id].rec
<1>1. "AUTHORIZED" \in Statuses
  BY DEF Statuses
<1>2. pays[id].rec \in RecordType /\ IsFiniteSet(pays[id].rec.refunds)
  BY PaysTyped DEF GatewayInv, RecordsKeep
<1>3. Status(id) \in {"NEW", "HOLD_PENDING"}
  BY DEF AllowedTransitions
<1> QED
  BY <1>1, <1>2, <1>3, MovedRecord DEF Succeeds, Status

LEMMA CancellingMoves ==
  ASSUME GatewayInv, NEW id \in DOMAIN pays, Status(id) = "AUTHORIZED"
  PROVE  LET rec == Cancelling(id) IN
         /\ rec \in RecordType /\ IsFiniteSet(rec.refunds)
         /\ Succeeds(pays[id].rec, rec)
         /\ rec.status = "CANCELLED" /\ rec # pays[id].rec
<1>1. "CANCELLED" \in Statuses
  BY DEF Statuses
<1>2. pays[id].rec \in RecordType /\ IsFiniteSet(pays[id].rec.refunds)
  BY PaysTyped DEF GatewayInv, RecordsKeep
<1> QED
  BY <1>1, <1>2, MovedRecord DEF Succeeds, Status, Cancelling

LEMMA CapturingMoves ==
  ASSUME GatewayInv, NEW id \in DOMAIN pays, Status(id) = "AUTHORIZED", NEW sum \in Uint
  PROVE  LET rec == Capturing(id, sum) IN
         /\ rec \in RecordType /\ IsFiniteSet(rec.refunds)
         /\ Succeeds(pays[id].rec, rec)
         /\ rec.status = "CAPTURED" /\ rec # pays[id].rec
<1>1. pays[id].rec \in RecordType /\ IsFiniteSet(pays[id].rec.refunds)
  BY PaysTyped DEF GatewayInv, RecordsKeep
<1>2. PICK a \in Uint : a = IF sum = 0 THEN pays[id].rec.amount ELSE sum
  BY <1>1 DEF RecordType
<1> QED
  BY <1>1, <1>2, CapturedRecord DEF Succeeds, Status, Capturing

LEMMA RefundingOne ==
  ASSUME GatewayInv, NEW id \in DOMAIN pays, Status(id) \in Refundable, NEW sum \in Uint
  PROVE  LET rec == Refunding(id, sum) IN
         /\ rec \in RecordType /\ IsFiniteSet(rec.refunds)
         /\ Succeeds(pays[id].rec, rec)
         /\ rec.status \in {"REFUNDED", "PARTIAL_REFUNDED"} /\ rec # pays[id].rec
<1>1. pays[id].rec \in RecordType /\ IsFiniteSet(pays[id].rec.refunds)
  BY PaysTyped DEF GatewayInv, RecordsKeep
<1>2. pays[id].rec.status \in Refundable
  BY DEF Status
<1>3. PICK delta \in Uint : delta = RefundDelta(pays[id].rec, sum)
  BY <1>1, <1>2, RefundingMoves
<1>4. Refunding(id, sum) = Refunded(pays[id].rec, delta)
  BY <1>3 DEF Refunding
<1>5. Refunding(id, sum) # pays[id].rec
  BY <1>1, <1>2, <1>3, <1>4, RefundingMoves
<1>6. Refunding(id, sum).status \in {"REFUNDED", "PARTIAL_REFUNDED"}
  BY <1>1, <1>4, RefundedRecord
<1> QED
  BY <1>1, <1>4, <1>5, <1>6, RefundedRecord DEF Succeeds

\* A request whose rule answers it: nothing happens.
LEMMA InsteadLooks ==
  ASSUME GatewayInv, NEW c \in Clients, Waiting(c), ~RefusedFirst(c),
         NEW a, Instead(c, a), a \notin {"ok", "distorted"},
         ~DeclinedByRule(c), call[c].req.ep = "epay_status" => a # "error",
         call[c].req.ep = "epay_confirm" => a # "lost"
  PROVE  Shape(c)
<1>1. UNCHANGED <<bank, book, failed, pays, notes, holds, found>> /\ last' = a
      /\ call' = [call EXCEPT ![c] = Idle]
  BY DEF Instead, Answer, store
<1>2. Answered(c)
  BY <1>1 DEF Answered, GatewayInv, Types
<1>3. Looked(c)
  BY <1>1 DEF Looked, GatewayInv, Types, NothingSaid, Success
<1> QED
  BY <1>2, <1>3 DEF Shape

LEMMA TransientLooks ==
  ASSUME GatewayInv, NEW c \in Clients, Waiting(c), RefusedFirst(c), RefusedByTransient(c)
  PROVE  Shape(c)
<1>1. UNCHANGED <<bank, book, pays, notes, holds, found>> /\ last' = "refused"
      /\ call' = [call EXCEPT ![c] = Idle]
      /\ failed' = [failed EXCEPT ![call[c].rule.no] = @ + 1]
  BY DEF RefusedByTransient, Answer, store
<1>2. Answered(c)
  BY <1>1 DEF Answered, GatewayInv, Types
<1>3. ~DeclinedByRule(c)
  BY DEF RefusedFirst, Transient, DeclinedByRule
<1>4. Looked(c)
  BY <1>1, <1>3 DEF Looked, GatewayInv, Types, NothingSaid, Success
<1> QED
  BY <1>2, <1>4 DEF Shape

-----------------------------------------------------------------------------
(* Epay *)

LEMMA EpayAnswers ==
  ASSUME NEW r, NEW h
  PROVE  /\ h = "error" => EpayAnswer(r, h) = "error"
         /\ h # "error" /\ ConfirmLost(r) => EpayAnswer(r, h) = "lost"
         /\ h = "ok" /\ ~ConfirmLost(r) => EpayAnswer(r, h) \in {"ok", "distorted"}
         /\ h \notin {"ok", "error"} /\ ~ConfirmLost(r) => EpayAnswer(r, h) = h
  BY DEF EpayAnswer, ConfirmLost, EpayOpeners

LEMMA EpayDoneAnswers ==
  ASSUME GatewayInv, bank = "epay", NEW c \in Clients, Waiting(c),
         NEW ep, EpayHandles(c, ep), NEW h, NEW id, NEW N, EpayDone(c, h, id, N),
         PastKept, \A n \in N : About(n, pays')
  PROVE  /\ Answered(c) /\ last' = EpayAnswer(call[c], h)
         /\ Said(notes') = Said(N)
<1>1. /\ UNCHANGED <<bank, book, failed, holds>> /\ last' = EpayAnswer(call[c], h)
      /\ call' = [call EXCEPT ![c] = Idle]
      /\ EarlyPostlink(call[c].rule.action, id, N)
  BY DEF EpayDone, Answer
<1>2. ~RefusedFirst(c)
  BY DEF EpayHandles, RefusedFirst
<1>3. notes' = N \/ (Known(id) /\ notes' = Noted(N, id, Status(id), "unasked", 1))
  BY <1>1 DEF EarlyPostlink, Reported
<1>4. Said(notes') = Said(N)
  BY <1>3, SaidNoted
<1>5. \A n \in notes' : About(n, pays')
  <2>1. CASE Known(id) /\ notes' = Noted(N, id, Status(id), "unasked", 1)
    <3>1. id \in DOMAIN pays' /\ Status(id) \in Statuses
      BY <2>1, PaysTyped DEF Known, PastKept, GatewayInv
    <3>2. Tells(pays'[id], "unasked", Status(id))
      BY <2>1 DEF Known, PastKept, Tells, GatewayInv, RecordsKeep
    <3>3. \A n \in Noted(N, id, Status(id), "unasked", 1) : About(n, pays')
      BY <3>1, <3>2, NotedIsAbout
    <3> QED
      BY <2>1, <3>3
  <2> QED
    BY <1>3, <2>1
<1> QED
  BY <1>1, <1>2, <1>4, <1>5 DEF Answered, GatewayInv, Types

LEMMA PostlinkSays ==
  ASSUME NEW c \in Clients, NEW id, NEW s
  PROVE  \/ Postlink(c, id, s) = notes /\ (AutoWebhook => Mutes(c))
         \/ \E times \in 1 .. 2 :
              /\ Postlink(c, id, s) = Noted(notes, id, s, "success", times)
              /\ times = 2 => Mutes(c)
<1>1. CASE ~AutoWebhook \/ call[c].rule.action = "postlink_lost"
  BY <1>1, AutoAssumption DEF Postlink, Mutes, Muting
<1>2. CASE ~(~AutoWebhook \/ call[c].rule.action = "postlink_lost")
  <2>1. Postlink(c, id, s) = Noted(notes, id, s, "success", Times(call[c].rule.action))
    BY <1>2 DEF Postlink
  <2>2. Times(call[c].rule.action) \in 1 .. 2
        /\ (Times(call[c].rule.action) = 2 => Mutes(c))
    BY DEF Times, Mutes, Muting
  <2> QED
    BY <2>1, <2>2
<1> QED
  BY <1>1, <1>2

LEMMA PostlinkIsAbout ==
  ASSUME NEW c \in Clients, NEW P, NEW id \in DOMAIN P, NEW s \in Statuses,
         Tells(P[id], "success", s), \A n \in notes : About(n, P)
  PROVE  \A n \in Postlink(c, id, s) : About(n, P)
<1>1. \A times : \A n \in Noted(notes, id, s, "success", times) : About(n, P)
  BY NotedIsAbout
<1> QED
  BY <1>1 DEF Postlink

\* The handler looks and does not open or move a payment.
LEMMA EpayLooks ==
  ASSUME GatewayInv, bank = "epay", NEW c \in Clients, Waiting(c),
         NEW ep, EpayHandles(c, ep), NEW h, NEW id, EpayDone(c, h, id, notes),
         pays' = pays, found' \subseteq Orders, \A o \in found' \ found : Shown(o) # {},
         h = "error" \/ (h = "ok" /\ ep \in {"epay_token", "epay_status"}),
         ep = "epay_status" /\ h = "error"
           => call[c].req.id # 0 \/ Shown(call[c].req.order) = {}
  PROVE  Shape(c)
<1>1. PastKept /\ \A n \in notes : About(n, pays')
  BY NotesKept DEF PastKept, GatewayInv
<1>2. /\ Answered(c) /\ last' = EpayAnswer(call[c], h) /\ NothingSaid
  BY <1>1, EpayDoneAnswers DEF NothingSaid
<1>3. call[c].req.ep = ep
  BY DEF EpayHandles
<1>4. CASE h = "error"
  <2>1. last' = "error"
    BY <1>2, <1>4, EpayAnswers
  <2> QED
    BY <1>2, <1>3, <1>4, <2>1 DEF Shape, Looked, Success
<1>5. CASE h = "ok" /\ ep \in {"epay_token", "epay_status"}
  <2>1. last' \in {"ok", "distorted"}
    BY <1>2, <1>3, <1>5, EpayAnswers DEF ConfirmLost
  <2>2. Promised(ep) = Statuses
    BY <1>5 DEF Promised, Wallets
  <2> QED
    BY <1>2, <1>3, <1>5, <2>1, <2>2 DEF Shape, Looked, Success, DeclinedByRule
<1> QED
  BY <1>4, <1>5

LEMMA EpayOpens ==
  ASSUME GatewayInv, bank = "epay", NEW c \in Clients, Waiting(c),
         NEW ep \in EpayOpeners, EpayHandles(c, ep),
         NEW p \in PaymentType, Open(p), found' = found,
         NEW h, NEW N, EpayDone(c, h, NewID, N), \A n \in N : About(n, pays'),
         p.kind = call[c].req.kind, (p.muted <=> Mutes(c)),
         p.rec.refunds = {}, p.rec.status # "CANCELLED",
         p.rec.status \in p.rec.history, p.rec.history \subseteq {"NEW", p.rec.status},
         \/ h = "ok" /\ p.rec.status = "AUTHORIZED" /\ ~Declines(c)
         \/ h = "challenge" /\ ~Declines(c)
         \/ h = "declined" /\ p.rec.status = "FAILED"
         \/ h = "garbled" /\ Late(c),
         \/ /\ Said(N) = Said(notes)
            /\ AutoWebhook /\ p.rec.status \in Announceable => p.muted \/ p.kind = "bind"
         \/ /\ p.rec.status = "AUTHORIZED"
            /\ \E times \in 1 .. 2 :
                 N = Noted(notes, NewID, "AUTHORIZED", "success", times) /\ (times = 2 => p.muted)
  PROVE  Shape(c)
<1>1. /\ NewID \in DOMAIN pays' /\ pays'[NewID] = p /\ pays' = Append(pays, p)
      /\ PastKept
  BY OpenOne DEF GatewayInv
<1>2. /\ Answered(c) /\ last' = EpayAnswer(call[c], h) /\ Said(notes') = Said(N)
  BY <1>1, EpayDoneAnswers
<1>3. call[c].req.ep = ep /\ ep \in Openers(bank) /\ ~ConfirmLost(call[c])
  BY DEF EpayHandles, Openers, EpayOpeners, ConfirmLost
<1>4. call[c].req.id = 0
  BY <1>3 DEF GatewayInv, RequestsFit, Fits, FitsEpay
<1>5. /\ last' \in {"ok", "distorted"} => h = "ok"
      /\ last' # h => h = "ok" /\ last' = "distorted"
      /\ last' # "lost"
  <2>1. CASE h = "ok"
    BY <1>2, <1>3, <2>1, EpayAnswers
  <2>2. CASE h \in {"challenge", "declined", "garbled"}
    BY <1>2, <1>3, <2>2, EpayAnswers
  <2> QED
    BY <2>1, <2>2
<1>6. /\ Success(c) => p.rec.status \in Promised(ep)
      /\ Failure(c) => call[c].rule.action = "epay_late_operation"
      /\ last' = "declined" => p.rec.status = "FAILED"
  <2>1. Promised(ep) = {"AUTHORIZED"}
    BY DEF EpayOpeners, Promised, Wallets
  <2>2. ~PastCheck(call[c])
    BY <1>3 DEF PastCheck, EpayOpeners
  <2> QED
    BY <1>5, <2>1, <2>2 DEF Success, Failure, Late
<1>7. DeclinedByRule(c) => p.rec.status = "FAILED"
  BY DEF DeclinedByRule, Declines, Late
<1>8. \/ /\ NothingSaid
         /\ AutoWebhook /\ bank # "freedom" /\ p.rec.status \in Announceable
              => bank = "epay" /\ (p.muted \/ p.kind = "bind")
      \/ /\ p.rec.status = "AUTHORIZED"
         /\ \E times \in 1 .. 2 : SaidOf(NewID, "AUTHORIZED", times) /\ (times = 2 => p.muted)
  BY <1>2 DEF NothingSaid, SaidOf
<1>9. Opened(c)
  BY <1>1, <1>3, <1>4, <1>6, <1>7, <1>8 DEF Opened
<1> QED
  BY <1>2, <1>9 DEF Shape

LEMMA EpayRecordTyped ==
  ASSUME NEW req \in RequestType, NEW to \in {"NEW", "AUTHORIZED", "FAILED"}
  PROVE  /\ EpayRecord(req, to) \in RecordType
         /\ EpayRecord(req, to).status = to /\ EpayRecord(req, to).refunds = {}
         /\ EpayRecord(req, to).history = {"NEW", to}
<1>1. "epay" \in Banks /\ "NEW" \in Statuses /\ to \in Statuses /\ req.sum \in Uint
  BY DEF Banks, Statuses, RequestType
<1>2. PICK new \in RecordType : new = NewRecord("epay", "NEW", req.sum)
  BY <1>1, NewRecordTyped
<1>3. new.status = "NEW" /\ new.history = {"NEW"} /\ new.refunds = {}
  BY <1>1, <1>2, NewRecordTyped
<1>4. EpayRecord(req, to) = IF to = "NEW" THEN new ELSE Moved(new, to)
  BY <1>2 DEF EpayRecord
<1> QED
  BY <1>1, <1>3, <1>4, MovedRecord

LEMMA EpayRecordDeclineShape ==
  ASSUME GatewayInv, bank = "epay", NEW c \in Clients, Waiting(c),
         NEW ep \in EpayOpeners, EpayRecordDecline(c, ep)
  PROVE  Shape(c)
<1>1. call[c].req \in RequestType
  BY CallTyped DEF GatewayInv
<1>2. PICK rec \in RecordType :
        /\ rec = EpayRecord(call[c].req, "FAILED")
        /\ rec.status = "FAILED" /\ rec.refunds = {} /\ rec.history = {"NEW", "FAILED"}
  BY <1>1, EpayRecordTyped
<1>3. PICK p \in PaymentType :
        /\ p = Payment(rec, call[c].req, call[c].rule) /\ p.rec = rec
        /\ p.kind = call[c].req.kind /\ (p.muted <=> Mutes(c))
  BY PaymentOpened DEF GatewayInv
<1>4. /\ EpayHandles(c, ep) /\ Open(p) /\ found' = found
      /\ EpayDone(c, "declined", NewID, notes)
  BY <1>2, <1>3 DEF EpayRecordDecline
<1>5. \A n \in notes : About(n, pays')
  BY <1>4, OpenOne, NotesKept DEF GatewayInv
<1>6. "FAILED" \notin Announceable
  BY DEF Announceable
<1> QED
  BY <1>2, <1>3, <1>4, <1>5, <1>6, EpayOpens

LEMMA EpayLateOperationShape ==
  ASSUME GatewayInv, bank = "epay", NEW c \in Clients, Waiting(c), EpayLateOperation(c)
  PROVE  Shape(c)
<1>1. call[c].req \in RequestType /\ call[c].rule \in CopyType
  BY CallTyped DEF GatewayInv
<1>2. PICK s \in {"CAPTURED", "AUTHORIZED"} :
        s = IF call[c].rule.arg = "CHARGE" THEN "CAPTURED" ELSE "AUTHORIZED"
  OBVIOUS
<1>3. "epay" \in Banks /\ s \in Statuses /\ call[c].req.sum \in Uint
  BY <1>1 DEF Banks, Statuses, RequestType
<1>4. PICK rec \in RecordType :
        /\ rec = NewRecord("epay", s, call[c].req.sum)
        /\ rec.status = s /\ rec.refunds = {} /\ rec.history = {s}
  BY <1>3, NewRecordTyped
<1>5. PICK q \in PaymentType :
        /\ q = Payment(rec, call[c].req, call[c].rule) /\ q.rec = rec
        /\ q.kind = call[c].req.kind /\ (q.muted <=> Mutes(c))
  BY PaymentOpened DEF GatewayInv
<1>6. PICK p \in PaymentType : p = [q EXCEPT !.hidden = call[c].rule.late]
  <2>1. call[c].rule.late \in BOOLEAN
    BY <1>1 DEF CopyType
  <2> QED
    BY <1>5, <2>1 DEF PaymentType
<1>7. p.rec = rec /\ p.kind = call[c].req.kind /\ (p.muted <=> Mutes(c))
  <2>1. p.rec = q.rec /\ p.kind = q.kind
    BY <1>6 DEF PaymentType
  <2>2. p.muted = q.muted
    BY <1>6 DEF PaymentType
  <2> QED
    BY <1>5, <2>1, <2>2
<1>8. /\ EpayHandles(c, "epay_cryptopay") /\ Late(c) /\ Open(p) /\ found' = found
      /\ EpayDone(c, "garbled", NewID, notes)
  BY <1>2, <1>4, <1>5, <1>6 DEF EpayLateOperation
<1>9. \A n \in notes : About(n, pays')
  BY <1>8, OpenOne, NotesKept DEF GatewayInv
<1>10. Mutes(c) /\ "epay_cryptopay" \in EpayOpeners
  BY <1>8 DEF Late, Mutes, Muting, EpayOpeners
<1> QED
  BY <1>4, <1>7, <1>8, <1>9, <1>10, EpayOpens

LEMMA EpayCryptopayShape ==
  ASSUME GatewayInv, bank = "epay", NEW c \in Clients, Waiting(c), EpayCryptopay(c)
  PROVE  Shape(c)
<1>1. call[c].req \in RequestType
  BY CallTyped DEF GatewayInv
<1>2. PICK to \in {"NEW", "AUTHORIZED"} : to = IF Challenges(c) THEN "NEW" ELSE "AUTHORIZED"
  OBVIOUS
<1>3. PICK rec \in RecordType :
        /\ rec = EpayRecord(call[c].req, to)
        /\ rec.status = to /\ rec.refunds = {} /\ rec.history = {"NEW", to}
  BY <1>1, EpayRecordTyped
<1>4. PICK p \in PaymentType :
        /\ p = Payment(rec, call[c].req, call[c].rule) /\ p.rec = rec
        /\ p.kind = call[c].req.kind /\ (p.muted <=> Mutes(c))
  BY PaymentOpened DEF GatewayInv
<1> DEFINE h == IF Challenges(c) THEN "challenge" ELSE "ok"
           N == CASE call[c].req.kind = "bind"                   -> BindPostlink(c, NewID, to)
                  [] call[c].req.kind = "pay" /\ Announced(to)   -> Postlink(c, NewID, to)
                  [] OTHER                                       -> notes
<1>5. /\ EpayHandles(c, "epay_cryptopay") /\ ~Declines(c) /\ Open(p) /\ found' = found
      /\ EpayDone(c, h, NewID, N)
  BY <1>2, <1>3, <1>4 DEF EpayCryptopay
<1>6. /\ NewID \in DOMAIN pays' /\ pays'[NewID] = p
      /\ to \in Statuses /\ \A n \in notes : About(n, pays')
  BY <1>5, OpenOne, NotesKept DEF GatewayInv, Statuses
<1>7. (h = "ok" /\ to = "AUTHORIZED") \/ (h = "challenge" /\ to = "NEW")
  BY <1>2
<1>8. "epay_cryptopay" \in EpayOpeners
  BY DEF EpayOpeners
<1> HIDE DEF h
<1>9. CASE call[c].req.kind = "bind"
  <2>1. N = BindPostlink(c, NewID, to)
    BY <1>9
  <2>2. N = notes \/ N = Noted(notes, NewID, to, "bind", 1)
    BY <2>1 DEF BindPostlink
  <2>3. \A n \in N : About(n, pays')
    <3>1. Tells(p, "bind", to)
      BY <1>3, <1>4, <1>9 DEF Tells
    <3>2. \A n \in Noted(notes, NewID, to, "bind", 1) : About(n, pays')
      BY <1>6, <3>1, NotedIsAbout
    <3> QED
      BY <1>6, <2>2, <3>2
  <2>4. Said(N) = Said(notes)
    BY <2>2, SaidNoted
  <2> HIDE DEF N
  <2> QED
    BY <1>3, <1>4, <1>5, <1>7, <1>8, <1>9, <2>3, <2>4, EpayOpens
<1>10. CASE call[c].req.kind = "pay" /\ Announced(to)
  <2>1. N = Postlink(c, NewID, to) /\ to = "AUTHORIZED"
    BY <1>10 DEF Announced
  <2>2. \A n \in N : About(n, pays')
    <3>1. Tells(p, "success", to)
      BY <1>3, <1>4, <2>1 DEF Tells
    <3> QED
      BY <1>6, <2>1, <3>1, PostlinkIsAbout
  <2>3. \/ N = notes /\ (AutoWebhook => p.muted)
        \/ \E times \in 1 .. 2 :
             N = Noted(notes, NewID, "AUTHORIZED", "success", times) /\ (times = 2 => p.muted)
    BY <1>4, <2>1, PostlinkSays
  <2> HIDE DEF N
  <2> QED
    BY <1>3, <1>4, <1>5, <1>7, <1>8, <2>1, <2>2, <2>3, EpayOpens
<1>11. CASE call[c].req.kind = "pay" /\ ~Announced(to)
  <2>1. N = notes /\ to \notin Announceable
    BY <1>2, <1>11 DEF Announced, Announceable
  <2> HIDE DEF N
  <2> QED
    BY <1>3, <1>4, <1>5, <1>6, <1>7, <1>8, <2>1, EpayOpens
<1>12. call[c].req.kind \in {"pay", "bind"}
  BY <1>1 DEF RequestType, Kinds
<1> QED
  BY <1>9, <1>10, <1>11, <1>12

LEMMA EpayCardAuthShape ==
  ASSUME GatewayInv, bank = "epay", NEW c \in Clients, Waiting(c), EpayCardAuth(c)
  PROVE  Shape(c)
<1>1. call[c].req \in RequestType
  BY CallTyped DEF GatewayInv
<1>2. PICK rec \in RecordType :
        /\ rec = EpayRecord(call[c].req, "AUTHORIZED") /\ rec.status = "AUTHORIZED"
        /\ rec.refunds = {} /\ rec.history = {"NEW", "AUTHORIZED"}
  BY <1>1, EpayRecordTyped
<1>3. PICK p \in PaymentType :
        /\ p = Payment(rec, call[c].req, call[c].rule) /\ p.rec = rec
        /\ p.kind = call[c].req.kind /\ (p.muted <=> Mutes(c))
  BY PaymentOpened DEF GatewayInv
<1> DEFINE h == IF Challenges(c) THEN "challenge" ELSE "ok"
           N == Postlink(c, NewID, "AUTHORIZED")
<1>4. /\ EpayHandles(c, "epay_card_auth") /\ ~Declines(c) /\ Open(p) /\ found' = found
      /\ EpayDone(c, h, NewID, N)
  BY <1>2, <1>3 DEF EpayCardAuth
<1>5. h = "ok" \/ h = "challenge"
  OBVIOUS
<1>6. \A n \in N : About(n, pays')
  <2>1. /\ NewID \in DOMAIN pays' /\ pays'[NewID] = p /\ "AUTHORIZED" \in Statuses
        /\ \A n \in notes : About(n, pays')
    BY <1>4, OpenOne, NotesKept DEF GatewayInv, Statuses
  <2>2. Tells(p, "success", "AUTHORIZED")
    BY <1>2, <1>3 DEF Tells
  <2> QED
    BY <2>1, <2>2, PostlinkIsAbout
<1>7. \/ N = notes /\ (AutoWebhook => p.muted)
      \/ \E times \in 1 .. 2 :
           N = Noted(notes, NewID, "AUTHORIZED", "success", times) /\ (times = 2 => p.muted)
  BY <1>3, PostlinkSays
<1>8. "epay_card_auth" \in EpayOpeners
  BY DEF EpayOpeners
<1> HIDE DEF h, N
<1> QED
  BY <1>2, <1>3, <1>4, <1>5, <1>6, <1>7, <1>8, EpayOpens

\* A handler that moves a payment, and what it announces.
LEMMA EpayMovesOne ==
  ASSUME GatewayInv, bank = "epay", NEW c \in Clients, Waiting(c),
         NEW ep \in {"epay_confirm", "epay_charge", "epay_cancel", "epay_refund"},
         EpayHandles(c, ep),
         NEW id \in DOMAIN pays, id = call[c].req.id, id # 0,
         NEW rec \in RecordType, IsFiniteSet(rec.refunds), Succeeds(pays[id].rec, rec),
         Store(id, rec, call[c].rule), found' = found,
         NEW h, NEW N, EpayDone(c, h, id, N), \A n \in N : About(n, pays'),
         \/ h = "ok" /\ rec.status \in Promised(ep) /\ rec # pays[id].rec
                     /\ ~(ep = "epay_confirm" /\ Declines(c))
         \/ h = "declined" /\ rec.status = "FAILED" /\ Declines(c),
         \/ /\ Said(N) = Said(notes)
            /\ AutoWebhook /\ rec.status \in Announceable => Mutes(c)
         \/ /\ rec.status \notin {"NEW", "FAILED"}
            /\ rec.status \in Announceable => rec.status # Status(id)
            /\ \E times \in 1 .. 2 :
                 /\ Said(N) = Said(Noted(notes, id, rec.status, "success", times))
                 /\ times = 2 => Mutes(c)
  PROVE  Shape(c)
<1>1. /\ pays'[id].rec = rec /\ PastKept
      /\ pays' = [pays EXCEPT ![id].rec = rec,
                              ![id].muted = @ \/ call[c].rule.action \in Muting]
  <2>1. pays' = [pays EXCEPT ![id].rec = rec,
                             ![id].muted = @ \/ call[c].rule.action \in Muting]
    BY DEF Store
  <2>2. pays'[id].rec = rec /\ PastKept
    BY StoreOne DEF GatewayInv
  <2> QED
    BY <2>1, <2>2
<1>2. /\ Answered(c) /\ last' = EpayAnswer(call[c], h) /\ Said(notes') = Said(N)
  <2>1. PastKept
    BY <1>1
  <2> HIDE <1>1
  <2> QED
    BY <2>1, EpayDoneAnswers
<1>3. call[c].req.ep = ep
  BY DEF EpayHandles
<1>4. Moves(id, rec, Mutes(c))
  BY <1>1 DEF Moves, Mutes
<1>5. /\ h = "ok" => last' \in {"ok", "distorted", "lost"}
      /\ h = "declined" => last' = "declined"
  <2>1. CASE h = "declined"
    <3>1. ~ConfirmLost(call[c])
      BY <2>1 DEF Declines, ConfirmLost, Lost
    <3> QED
      BY <1>2, <2>1, <3>1, EpayAnswers
  <2>2. CASE h = "ok"
    BY <1>2, <2>2, EpayAnswers
  <2> QED
    BY <2>1, <2>2
<1>6. /\ Success(c) => rec.status \in Promised(ep) /\ rec # pays[id].rec
      /\ last' = "declined" => rec.status = "FAILED"
      /\ ~Failure(c)
  BY <1>3, <1>5 DEF Success, Failure, PastCheck
<1>7. DeclinedByRule(c) => rec.status = "FAILED"
  BY <1>3 DEF DeclinedByRule, Declines, EpayOpeners
<1>8. \/ NothingSaid /\ (AutoWebhook /\ rec.status \in Announceable => Mutes(c))
      \/ /\ rec.status \notin {"NEW", "FAILED"}
         /\ rec.status \in Announceable => rec.status # Status(id)
         /\ \E times \in 1 .. 2 : SaidOf(id, rec.status, times) /\ (times = 2 => Mutes(c))
  BY <1>2 DEF NothingSaid, SaidOf
<1>9. MovedOne(c)
  BY <1>1, <1>3, <1>4, <1>6, <1>7, <1>8 DEF MovedOne
<1> QED
  BY <1>2, <1>9 DEF Shape

LEMMA EpayMovedShape ==
  ASSUME GatewayInv, bank = "epay", NEW c \in Clients, Waiting(c),
         NEW ep \in {"epay_confirm", "epay_charge", "epay_cancel", "epay_refund"},
         NEW rec, EpayMoved(c, ep, rec), ep = "epay_confirm" => ~Declines(c),
         Known(call[c].req.id) =>
           /\ rec \in RecordType /\ IsFiniteSet(rec.refunds)
           /\ Succeeds(pays[call[c].req.id].rec, rec)
           /\ rec.status \in Promised(ep) /\ rec # pays[call[c].req.id].rec
           /\ rec.status \notin {"NEW", "FAILED"}
           /\ rec.status \in Announceable => rec.status # Status(call[c].req.id)
  PROVE  Shape(c)
<1>1. PICK id : id = call[c].req.id
  OBVIOUS
<1>2. /\ EpayHandles(c, ep) /\ id # 0 /\ id \in DOMAIN pays /\ found' = found
      /\ Store(id, rec, call[c].rule)
      /\ EpayDone(c, "ok", id, Postlink(c, id, rec.status))
  BY <1>1 DEF EpayMoved, EpayMoves, Known
<1>3. /\ rec \in RecordType /\ IsFiniteSet(rec.refunds)
      /\ Succeeds(pays[id].rec, rec)
      /\ rec.status \in Promised(ep) /\ rec # pays[id].rec
      /\ rec.status \notin {"NEW", "FAILED"}
      /\ rec.status \in Announceable => rec.status # Status(id)
  BY <1>1, <1>2 DEF Known
<1>4. pays'[id].rec = rec /\ id \in DOMAIN pays' /\ \A n \in notes : About(n, pays')
  BY <1>2, <1>3, StoreOne, NotesKept DEF GatewayInv, PastKept
<1>5. PICK N : N = Postlink(c, id, rec.status)
  OBVIOUS
<1>6. rec.status \in Statuses
  BY <1>3 DEF RecordType
<1>7. \A n \in N : About(n, pays')
  <2>1. Tells(pays'[id], "success", rec.status)
    BY <1>3, <1>4 DEF Tells, Succeeds
  <2> QED
    BY <1>4, <1>5, <1>6, <2>1, PostlinkIsAbout
<1>8. \/ N = notes /\ (AutoWebhook => Mutes(c))
      \/ \E times \in 1 .. 2 :
           N = Noted(notes, id, rec.status, "success", times) /\ (times = 2 => Mutes(c))
  BY <1>5, PostlinkSays
<1> QED
  BY <1>1, <1>2, <1>3, <1>5, <1>7, <1>8, EpayMovesOne

LEMMA EpayConfirmDeclinedShape ==
  ASSUME GatewayInv, bank = "epay", NEW c \in Clients, Waiting(c), EpayConfirmDeclined(c)
  PROVE  Shape(c)
<1>1. PICK id : id = call[c].req.id
  OBVIOUS
<1>2. PICK N : N = IF AutoWebhook THEN Noted(notes, id, "FAILED", "failure", 1) ELSE notes
  OBVIOUS
<1>3. /\ EpayHandles(c, "epay_confirm") /\ id # 0 /\ id \in DOMAIN pays /\ found' = found
      /\ Store(id, Forced(pays[id].rec, "FAILED"), call[c].rule)
      /\ EpayDone(c, "declined", id, N) /\ Declines(c)
  BY <1>1, <1>2 DEF EpayConfirmDeclined, EpayMoves, Known
<1>4. pays[id].rec \in RecordType /\ IsFiniteSet(pays[id].rec.refunds)
  BY <1>3, PaysTyped DEF GatewayInv, RecordsKeep
<1>5. PICK rec \in RecordType :
        /\ rec = Forced(pays[id].rec, "FAILED") /\ rec.status = "FAILED"
        /\ rec.refunds = pays[id].rec.refunds
        /\ rec.history = pays[id].rec.history \cup {"FAILED"}
  BY <1>4, ForcedFailed
<1>6. Succeeds(pays[id].rec, rec)
  BY <1>5 DEF Succeeds
<1>7. \A n \in N : About(n, pays')
  <2>1. /\ pays'[id].rec = rec /\ id \in DOMAIN pays' /\ "FAILED" \in Statuses
        /\ \A n \in notes : About(n, pays')
    BY <1>3, <1>5, <1>6, StoreOne, NotesKept DEF GatewayInv, PastKept, Statuses
  <2>2. Tells(pays'[id], "failure", "FAILED")
    BY <1>5, <2>1 DEF Tells
  <2>3. \A n \in Noted(notes, id, "FAILED", "failure", 1) : About(n, pays')
    BY <2>1, <2>2, NotedIsAbout
  <2> QED
    BY <1>2, <2>1, <2>3
<1>8. Said(N) = Said(notes)
  BY <1>2, SaidNoted
<1>9. "FAILED" \notin Announceable
  BY DEF Announceable
<1> QED
  BY <1>1, <1>3, <1>4, <1>5, <1>6, <1>7, <1>8, <1>9, EpayMovesOne

LEMMA EpayMovesShape ==
  ASSUME GatewayInv, bank = "epay", NEW c \in Clients, Waiting(c),
         EpayConfirm(c) \/ EpayCharge(c) \/ EpayCancel(c) \/ EpayRefund(c)
  PROVE  Shape(c)
<1>1. PICK id : id = call[c].req.id
  OBVIOUS
<1>2. call[c].req.sum \in Uint
  BY CallTyped DEF GatewayInv, RequestType
<1>3. CASE EpayConfirm(c)
  <2>1. PICK rec : rec = Moved(pays[id].rec, "AUTHORIZED")
    OBVIOUS
  <2>2. EpayMoved(c, "epay_confirm", rec) /\ ~Declines(c)
    BY <1>1, <1>3, <2>1 DEF EpayConfirm
  <2>3. Known(id) => Status(id) \in AllowedTransitions("AUTHORIZED")
    BY <1>1, <2>2 DEF EpayMoved, EpayMoves, EpayAllows, Declines
  <2>4. Known(id) =>
          /\ rec \in RecordType /\ IsFiniteSet(rec.refunds)
          /\ Succeeds(pays[id].rec, rec)
          /\ rec.status = "AUTHORIZED" /\ Status(id) # "AUTHORIZED" /\ rec # pays[id].rec
    BY <2>1, <2>3, Authorizing DEF Known
  <2>5. "AUTHORIZED" \in Promised("epay_confirm")
    BY DEF Promised, Wallets
  <2> QED
    BY <1>1, <2>2, <2>4, <2>5, EpayMovedShape
<1>4. CASE EpayCharge(c)
  <2>1. PICK rec : rec = Capturing(id, call[c].req.sum)
    OBVIOUS
  <2>2. EpayMoved(c, "epay_charge", rec)
    BY <1>1, <1>4, <2>1 DEF EpayCharge
  <2>3. Status(id) = "AUTHORIZED"
    BY <1>1, <2>2 DEF EpayMoved, EpayMoves, EpayAllows
  <2>4. Known(id) =>
          /\ rec \in RecordType /\ IsFiniteSet(rec.refunds)
          /\ Succeeds(pays[id].rec, rec)
          /\ rec.status = "CAPTURED" /\ rec # pays[id].rec
    BY <1>2, <2>1, <2>3, CapturingMoves DEF Known
  <2>5. "CAPTURED" \in Promised("epay_charge")
    BY DEF Promised, Wallets
  <2> QED
    BY <1>1, <2>2, <2>3, <2>4, <2>5, EpayMovedShape
<1>5. CASE EpayCancel(c)
  <2>1. PICK rec : rec = Cancelling(id)
    OBVIOUS
  <2>2. EpayMoved(c, "epay_cancel", rec)
    BY <1>1, <1>5, <2>1 DEF EpayCancel
  <2>3. Status(id) = "AUTHORIZED"
    BY <1>1, <2>2 DEF EpayMoved, EpayMoves, EpayAllows
  <2>4. Known(id) =>
          /\ rec \in RecordType /\ IsFiniteSet(rec.refunds)
          /\ Succeeds(pays[id].rec, rec)
          /\ rec.status = "CANCELLED" /\ rec # pays[id].rec
    BY <2>1, <2>3, CancellingMoves DEF Known
  <2>5. "CANCELLED" \in Promised("epay_cancel")
    BY DEF Promised, Wallets
  <2> QED
    BY <1>1, <2>2, <2>3, <2>4, <2>5, EpayMovedShape
<1>6. CASE EpayRefund(c)
  <2>1. PICK rec : rec = Refunding(id, call[c].req.sum)
    OBVIOUS
  <2>2. EpayMoved(c, "epay_refund", rec)
    BY <1>1, <1>6, <2>1 DEF EpayRefund
  <2>3. Status(id) \in Refundable
    BY <1>1, <2>2 DEF EpayMoved, EpayMoves, EpayAllows
  <2>4. Known(id) =>
          /\ rec \in RecordType /\ IsFiniteSet(rec.refunds)
          /\ Succeeds(pays[id].rec, rec)
          /\ rec.status \in {"REFUNDED", "PARTIAL_REFUNDED"} /\ rec # pays[id].rec
    BY <1>2, <2>1, <2>3, RefundingOne DEF Known
  <2>5. Promised("epay_refund") = {"REFUNDED", "PARTIAL_REFUNDED"}
    BY DEF Promised, Wallets
  <2>6. "REFUNDED" \notin Announceable /\ "PARTIAL_REFUNDED" \notin Announceable
    BY DEF Announceable
  <2> QED
    BY <1>1, <2>2, <2>4, <2>5, <2>6, EpayMovedShape
<1> QED
  BY <1>3, <1>4, <1>5, <1>6

LEMMA EpayCutShape ==
  ASSUME GatewayInv, bank = "epay", NEW c \in Clients, Waiting(c),
         EpayCut(c) \/ EpayRefuse(c)
  PROVE  Shape(c)
<1>1. CASE EpayCut(c)
  <2>1. PICK a \in {"lost", "garbled"} : a = Cut(call[c].rule.action)
    BY DEF Cut
  <2>2. call[c].rule.action \in Transport /\ ~ConfirmLost(call[c]) /\ Instead(c, a)
    BY <1>1, <2>1 DEF EpayCut
  <2>3. ~RefusedFirst(c) /\ ~DeclinedByRule(c)
    BY <2>2 DEF RefusedFirst, Transient, DeclinedByRule, Transport, Lost, Garbled
  <2>4. call[c].req.ep = "epay_confirm" => a # "lost"
    BY <2>1, <2>2 DEF ConfirmLost, Cut
  <2> QED
    BY <2>1, <2>2, <2>3, <2>4, InsteadLooks
<1>2. CASE EpayRefuses(call[c].req.ep, call[c].rule.action) /\ Instead(c, "refused")
  <2>1. ~RefusedFirst(c) /\ ~DeclinedByRule(c)
    BY <1>2 DEF EpayRefuses, TokenRefuses, HandlesDecline, RefusedFirst, Transient, DeclinedByRule
  <2> QED
    BY <1>2, <2>1, InsteadLooks
<1>3. CASE call[c].req.ep # "epay_token" /\ Transient(call[c].rule) /\ RefusedByTransient(c)
  BY <1>3, TransientLooks DEF RefusedFirst
<1> QED
  BY <1>1, <1>2, <1>3 DEF EpayRefuse

LEMMA EpayLooksShape ==
  ASSUME GatewayInv, bank = "epay", NEW c \in Clients, Waiting(c),
         \/ EpayToken(c) \/ EpayBadAmount(c) \/ EpayStatus(c) \/ EpayStatusByInvoice(c)
         \/ \E ep \in {"epay_confirm", "epay_charge", "epay_cancel", "epay_refund", "epay_status"} :
              EpayOperationFails(c, ep)
  PROVE  Shape(c)
<1>1. found \subseteq Orders
  BY DEF GatewayInv, Types
<1>2. CASE EpayToken(c)
  BY <1>1, <1>2, EpayLooks DEF EpayToken
<1>3. CASE EpayBadAmount(c)
  BY <1>1, <1>3, EpayLooks DEF EpayBadAmount, EpayFails
<1>4. CASE EpayStatus(c)
  BY <1>1, <1>4, EpayLooks DEF EpayStatus
<1>5. CASE EpayStatusByInvoice(c)
  <2>1. EpayHandles(c, "epay_status") /\ call[c].req.id = 0
    BY <1>5 DEF EpayStatusByInvoice
  <2>2. CASE Shown(call[c].req.order) = {} /\ EpayFails(c, 0)
    BY <1>1, <2>1, <2>2, EpayLooks DEF EpayFails
  <2>3. ASSUME NEW id \in Shown(call[c].req.order), EpayDone(c, "ok", id, notes),
               found' = found \cup {call[c].req.order}, pays' = pays
        PROVE  Shape(c)
    <3>1. call[c].req.ep = "epay_status" /\ call[c].req \in RequestType
      BY <2>1, CallTyped DEF EpayHandles, GatewayInv
    <3>2. FitsEpay(call[c].req)
      BY DEF GatewayInv, RequestsFit, Fits
    <3>3. call[c].req.order \in Orders
      BY <2>1, <3>1, <3>2 DEF FitsEpay, RequestType
    <3> QED
      BY <1>1, <2>1, <2>3, <3>3, EpayLooks
  <2> QED
    BY <1>5, <2>2, <2>3 DEF EpayStatusByInvoice
<1>6. ASSUME NEW ep, EpayOperationFails(c, ep)
      PROVE  Shape(c)
  <2>1. /\ EpayHandles(c, ep) /\ call[c].req.id # 0 /\ pays' = pays /\ found' = found
        /\ \E id : EpayDone(c, "error", id, notes)
    BY <1>6 DEF EpayOperationFails, EpayFails
  <2> QED
    BY <1>1, <2>1, EpayLooks
<1> QED
  BY <1>2, <1>3, <1>4, <1>5, <1>6

LEMMA EpayShape ==
  ASSUME GatewayInv, NEW c \in Clients, EpayServe(c)
  PROVE  Shape(c)
<1>1. Waiting(c) /\ bank = "epay" /\ EpayServing(c)
  BY DEF EpayServe
<1> QED
  BY <1>1, EpayCutShape, EpayLooksShape, EpayLateOperationShape, EpayCryptopayShape,
     EpayCardAuthShape, EpayRecordDeclineShape, EpayConfirmDeclinedShape, EpayMovesShape
     DEF EpayServing

-----------------------------------------------------------------------------
(* Flitt *)

LEMMA FlittDoneAnswers ==
  ASSUME GatewayInv, bank = "flitt", NEW c \in Clients, Waiting(c),
         NEW ep, FlittHandles(c, ep), NEW h, FlittDone(c, h),
         \A n \in notes' : About(n, pays')
  PROVE  /\ Answered(c) /\ found' = found
         /\ h = "error" => last' = "error"
         /\ h # "error" => last' = IF call[c].rule.action \in FlittDistorts(ep)
                                   THEN "distorted" ELSE h
<1>1. /\ UNCHANGED <<bank, book, failed, due, holds, found>>
      /\ call' = [call EXCEPT ![c] = Idle]
      /\ last' = IF h # "error" /\ call[c].rule.action \in FlittDistorts(ep)
                 THEN "distorted" ELSE h
  BY DEF FlittDone, Answer, FlittHandles
<1>2. ~RefusedFirst(c)
  BY DEF FlittHandles, RefusedFirst
<1> QED
  BY <1>1, <1>2 DEF Answered, GatewayInv, Types

LEMMA CallbackSays ==
  ASSUME NEW c \in Clients, NEW id, NEW s
  PROVE  \/ Callback(c, id, s) = notes /\ ~AutoWebhook
         \/ Callback(c, id, s) = Noted(notes, id, s, "success", 1)
  BY AutoAssumption DEF Callback

LEMMA CallbackIsAbout ==
  ASSUME NEW c \in Clients, NEW P, NEW id \in DOMAIN P, NEW s \in Statuses,
         Tells(P[id], "success", s), \A n \in notes : About(n, P)
  PROVE  \A n \in Callback(c, id, s) : About(n, P)
<1>1. \A n \in Noted(notes, id, s, "success", 1) : About(n, P)
  BY NotedIsAbout
<1> QED
  BY <1>1 DEF Callback

LEMMA FlittLooks ==
  ASSUME GatewayInv, bank = "flitt", NEW c \in Clients, Waiting(c),
         NEW ep, FlittHandles(c, ep), NEW h, FlittDone(c, h),
         pays' = pays, notes' = notes, ep # "epay_status",
         h = "error" \/ (h = "ok" /\ ep = "flitt_status")
  PROVE  Shape(c)
<1>1. \A n \in notes' : About(n, pays')
  BY NotesKept DEF PastKept, GatewayInv
<1>2. /\ Answered(c) /\ found' = found
      /\ h = "error" => last' = "error"
      /\ h = "ok" => last' \in {"ok", "distorted"}
  BY <1>1, FlittDoneAnswers
<1>3. call[c].req.ep = ep /\ found \subseteq Orders
  BY DEF FlittHandles, GatewayInv, Types
<1>4. ~Success(c)
  <2>1. Promised("flitt_status") = Statuses
    BY DEF Promised, Wallets
  <2> QED
    BY <1>2, <1>3, <2>1 DEF Success
<1>5. Looked(c)
  BY <1>2, <1>3, <1>4 DEF Looked, NothingSaid, DeclinedByRule
<1> QED
  BY <1>2, <1>5 DEF Shape

LEMMA FlittOpens ==
  ASSUME GatewayInv, bank = "flitt", NEW c \in Clients, Waiting(c),
         NEW ep \in FlittOpeners, FlittHandles(c, ep),
         NEW rec \in RecordType, Open(Payment(rec, call[c].req, call[c].rule)),
         NEW h, FlittDone(c, h),
         notes' = IF rec.status = "AUTHORIZED" THEN Callback(c, NewID, "AUTHORIZED") ELSE notes,
         rec.refunds = {}, rec.status \in {"NEW", "AUTHORIZED", "FAILED"},
         rec.status \in rec.history, rec.history \subseteq {"NEW", rec.status},
         \/ h = "ok" /\ (rec.status \in Promised(ep) \/ Excepted(call[c]))
         \/ /\ h = "challenge" \/ (h = "declined" /\ rec.status = "FAILED")
            /\ call[c].rule.action \in {"force_failure", "force_3ds"}
  PROVE  Shape(c)
<1>1. PICK p \in PaymentType :
        /\ p = Payment(rec, call[c].req, call[c].rule) /\ p.rec = rec
        /\ p.kind = call[c].req.kind /\ (p.muted <=> Mutes(c))
  BY PaymentOpened DEF GatewayInv
<1>2. /\ NewID \in DOMAIN pays' /\ pays'[NewID] = p /\ pays' = Append(pays, p)
      /\ PastKept
  BY <1>1, OpenOne DEF GatewayInv
<1>3. \A n \in notes' : About(n, pays')
  <2>1. "AUTHORIZED" \in Statuses /\ \A n \in notes : About(n, pays')
    BY <1>2, NotesKept DEF GatewayInv, Statuses
  <2>2. CASE rec.status = "AUTHORIZED"
    <3>1. Tells(p, "success", "AUTHORIZED")
      BY <1>1, <2>2 DEF Tells
    <3>2. \A n \in Callback(c, NewID, "AUTHORIZED") : About(n, pays')
      BY <1>2, <2>1, <3>1, CallbackIsAbout
    <3> QED
      BY <2>2, <3>2
  <2> QED
    BY <2>1, <2>2
<1>4. /\ Answered(c) /\ found' = found
      /\ h # "error" => last' = IF call[c].rule.action \in FlittDistorts(ep)
                                THEN "distorted" ELSE h
  BY <1>3, FlittDoneAnswers
<1>5. h # "ok" => last' = h
  BY <1>4 DEF FlittDistorts
<1>6. call[c].req.ep = ep /\ ep \in Openers(bank)
  BY DEF FlittHandles, Openers
<1>7. Success(c) => rec.status \in Promised(ep)
  <2>1. ep # "epay_confirm"
    BY DEF FlittOpeners
  <2> QED
    BY <1>5, <1>6, <2>1 DEF Success
<1>8. ~Failure(c) /\ (last' = "declined" => rec.status = "FAILED")
  BY <1>4, <1>5, <1>6 DEF Failure, PastCheck, FlittOpeners
<1>9. ~DeclinedByRule(c)
  BY DEF DeclinedByRule
<1>10. \/ /\ NothingSaid
          /\ ~(AutoWebhook /\ rec.status \in Announceable)
       \/ /\ rec.status = "AUTHORIZED"
          /\ \E times \in 1 .. 2 : SaidOf(NewID, "AUTHORIZED", times) /\ (times = 2 => p.muted)
  <2>1. CASE rec.status = "AUTHORIZED"
    BY <2>1, CallbackSays DEF NothingSaid, SaidOf
  <2>2. CASE rec.status # "AUTHORIZED"
    BY <2>2 DEF NothingSaid, Announceable
  <2> QED
    BY <2>1, <2>2
<1>11. Opened(c)
  BY <1>1, <1>2, <1>4, <1>6, <1>7, <1>8, <1>9, <1>10 DEF Opened
<1> QED
  BY <1>4, <1>11 DEF Shape

LEMMA FlittMovesOne ==
  ASSUME GatewayInv, bank = "flitt", NEW c \in Clients, Waiting(c),
         NEW ep \in FlittOperations, NEW id \in DOMAIN pays, NEW rec \in RecordType,
         FlittMoves(c, ep, id, rec),
         IsFiniteSet(rec.refunds), Succeeds(pays[id].rec, rec),
         IF ep = "flitt_3ds_step2" /\ Status(id) # "NEW" THEN rec = pays[id].rec
           ELSE Promised(ep) # Statuses => rec.status \in Promised(ep) /\ rec # pays[id].rec,
         \/ notes' = Callback(c, id, rec.status) /\ rec.status \notin {"NEW", "FAILED"}
         \/ notes' = notes /\ rec.status = Status(id)
  PROVE  Shape(c)
<1>1. /\ FlittHandles(c, ep) /\ FlittDone(c, "ok") /\ Store(id, rec, call[c].rule)
      /\ call[c].req.ep = ep
  BY DEF FlittMoves, FlittHandles
<1>2. pays' = [pays EXCEPT ![id].rec = rec,
                           ![id].muted = @ \/ call[c].rule.action \in Muting]
  BY <1>1 DEF Store
<1>3. pays'[id].rec = rec /\ PastKept
  BY <1>1, StoreOne DEF GatewayInv
<1>4. \A n \in notes' : About(n, pays')
  <2>1. /\ rec.status \in Statuses /\ id \in DOMAIN pays'
        /\ \A n \in notes : About(n, pays')
    BY <1>3, NotesKept DEF RecordType, PastKept, GatewayInv
  <2>2. CASE notes' = Callback(c, id, rec.status) /\ rec.status \notin {"NEW", "FAILED"}
    <3>1. Tells(pays'[id], "success", rec.status)
      BY <1>3, <2>2 DEF Tells, Succeeds
    <3>2. \A n \in Callback(c, id, rec.status) : About(n, pays')
      BY <2>1, <3>1, CallbackIsAbout
    <3> QED
      BY <2>2, <3>2
  <2> QED
    BY <2>1, <2>2
<1>5. Answered(c) /\ found' = found /\ last' \in {"ok", "distorted"}
  BY <1>1, <1>4, FlittDoneAnswers
<1>6. Moves(id, rec, Mutes(c))
  BY <1>2, <1>5 DEF Moves, Mutes
<1>7. /\ Success(c) => rec.status \in Promised(ep) /\ rec # pays[id].rec
      /\ Failure(c) => rec = pays[id].rec
      /\ last' # "declined"
  <2>1. PastCheck(call[c]) <=> ep = "flitt_3ds_step2" /\ Status(id) # "NEW"
    <3>1. NewestOf(call[c].req.order, id)
      BY DEF FlittMoves
    <3>2. ASSUME NEW x \in DOMAIN pays, NewestOf(call[c].req.order, x)
          PROVE  x = id
      <4>1. x \in Nat /\ id \in Nat
        BY DEF GatewayInv, Types
      <4>2. x <= id /\ id <= x
        BY <3>1, <3>2 DEF NewestOf, IsNewest
      <4> QED
        BY <4>1, <4>2
    <3> QED
      BY <1>1, <3>1, <3>2 DEF PastCheck
  <2> QED
    BY <1>1, <1>5, <2>1 DEF Success, Failure, Excepted
<1>8. ~DeclinedByRule(c) /\ ep # "epay_status"
  BY DEF DeclinedByRule, FlittOperations
<1>9. \/ /\ NothingSaid
         /\ ~(AutoWebhook /\ rec.status # Status(id))
      \/ /\ rec.status \notin {"NEW", "FAILED"}
         /\ \E times \in 1 .. 2 : SaidOf(id, rec.status, times) /\ (times = 2 => Mutes(c))
  BY CallbackSays DEF NothingSaid, SaidOf
<1>10. MovedOne(c)
  BY <1>1, <1>3, <1>6, <1>7, <1>8, <1>9 DEF MovedOne
<1> QED
  BY <1>5, <1>10 DEF Shape

LEMMA FlittCutShape ==
  ASSUME GatewayInv, bank = "flitt", NEW c \in Clients, Waiting(c),
         FlittCut(c) \/ FlittRefuse(c)
  PROVE  Shape(c)
<1>1. call[c].req.ep \in FlittOpeners \cup FlittOperations
  BY DEF GatewayInv, RequestsFit, Fits, FitsFlitt
<1>2. ~DeclinedByRule(c) /\ call[c].req.ep \notin {"epay_status", "epay_confirm", "epay_token"}
  BY <1>1 DEF DeclinedByRule, FlittOpeners, FlittOperations
<1>3. CASE FlittCut(c)
  <2>1. PICK a \in {"lost", "garbled"} : a = Cut(call[c].rule.action)
    BY DEF Cut
  <2>2. call[c].rule.action \in Transport /\ Instead(c, a)
    BY <1>3, <2>1 DEF FlittCut
  <2>3. ~RefusedFirst(c)
    BY <2>2 DEF RefusedFirst, Transient, Transport, Lost, Garbled
  <2> QED
    BY <1>2, <2>1, <2>2, <2>3, InsteadLooks
<1>4. CASE FlittRefuses(call[c].rule) /\ Instead(c, "refused")
  <2>1. ~RefusedFirst(c)
    BY <1>4 DEF FlittRefuses, RefusedFirst, Transient
  <2> QED
    BY <1>2, <1>4, <2>1, InsteadLooks
<1>5. CASE Transient(call[c].rule) /\ RefusedByTransient(c)
  BY <1>2, <1>5, TransientLooks DEF RefusedFirst
<1> QED
  BY <1>3, <1>4, <1>5 DEF FlittRefuse

LEMMA FlittSilentCallbackShape ==
  ASSUME GatewayInv, bank = "flitt", NEW c \in Clients, Waiting(c), FlittSilentCallback(c)
  PROVE  Shape(c)
<1>1. /\ UNCHANGED <<bank, book, failed, pays, notes, holds, found>> /\ last' = "refused"
      /\ call' = [call EXCEPT ![c] = Idle]
  BY DEF FlittSilentCallback, Answer
<1>2. ~RefusedFirst(c) /\ ~DeclinedByRule(c)
  BY DEF FlittSilentCallback, RefusedFirst, Transient, DeclinedByRule
<1>3. Answered(c)
  BY <1>1, <1>2 DEF Answered, GatewayInv, Types
<1>4. Looked(c)
  BY <1>1, <1>2 DEF Looked, GatewayInv, Types, NothingSaid, Success
<1> QED
  BY <1>3, <1>4 DEF Shape

LEMMA FlittLooksShape ==
  ASSUME GatewayInv, bank = "flitt", NEW c \in Clients, Waiting(c),
         \/ \E ep \in FlittOpeners : FlittBadAmount(c, ep)
         \/ \E ep \in FlittOperations : FlittOrderFails(c, ep)
         \/ \E id \in DOMAIN pays : FlittStatus(c, id)
  PROVE  Shape(c)
<1>1. "epay_status" \notin FlittOpeners \cup FlittOperations
  BY DEF FlittOpeners, FlittOperations
<1>2. CASE \E ep \in FlittOpeners : FlittBadAmount(c, ep)
  BY <1>1, <1>2, FlittLooks DEF FlittBadAmount, FlittFails
<1>3. CASE \E ep \in FlittOperations : FlittOrderFails(c, ep)
  BY <1>1, <1>3, FlittLooks DEF FlittOrderFails, FlittFails
<1>4. CASE \E id \in DOMAIN pays : FlittStatus(c, id)
  BY <1>4, FlittLooks DEF FlittStatus
<1> QED
  BY <1>2, <1>3, <1>4

\* The records a charge at Flitt opens.
LEMMA FlittRecords ==
  /\ NewRecord("flitt", "NEW", Price) \in RecordType
  /\ NewRecord("flitt", "NEW", Price).status = "NEW"
  /\ NewRecord("flitt", "NEW", Price).refunds = {}
  /\ NewRecord("flitt", "NEW", Price).history = {"NEW"}
  /\ Authorized("flitt") \in RecordType
  /\ Authorized("flitt").status = "AUTHORIZED" /\ Authorized("flitt").refunds = {}
  /\ Authorized("flitt").history = {"NEW", "AUTHORIZED"}
  /\ Declined("flitt", Price) \in RecordType
  /\ Declined("flitt", Price).status = "FAILED" /\ Declined("flitt", Price).refunds = {}
  /\ Declined("flitt", Price).history = {"NEW", "FAILED"}
<1>1. /\ "flitt" \in Banks /\ Price \in Uint
      /\ "NEW" \in Statuses /\ "AUTHORIZED" \in Statuses /\ "FAILED" \in Statuses
  BY PriceAssumption DEF Banks, Statuses
<1>2. PICK new \in RecordType :
        /\ new = NewRecord("flitt", "NEW", Price)
        /\ new.status = "NEW" /\ new.refunds = {} /\ new.history = {"NEW"}
  BY <1>1, NewRecordTyped
<1>3. Authorized("flitt") = Moved(new, "AUTHORIZED") /\ Declined("flitt", Price) = Moved(new, "FAILED")
  BY <1>2 DEF Authorized, Declined
<1> QED
  BY <1>1, <1>2, <1>3, MovedRecord

LEMMA FlittOpensShape ==
  ASSUME GatewayInv, bank = "flitt", NEW c \in Clients, Waiting(c),
         \/ FlittCheckout(c)
         \/ \E ep \in {"flitt_direct", "flitt_recurring"} :
              FlittApprove(c, ep) \/ FlittDecline(c, ep) \/ FlittChallenge(c, ep)
  PROVE  Shape(c)
<1>1. CASE FlittCheckout(c)
  <2>1. PICK rec : rec = NewRecord("flitt", "NEW", Price)
    OBVIOUS
  <2>2. /\ rec \in RecordType /\ rec.status = "NEW" /\ rec.refunds = {}
        /\ rec.history = {"NEW"}
    BY <2>1, FlittRecords
  <2>3. /\ FlittHandles(c, "flitt_checkout") /\ FlittDone(c, "ok") /\ notes' = notes
        /\ Open(Payment(rec, call[c].req, call[c].rule))
    BY <1>1, <2>1 DEF FlittCheckout
  <2>4. "flitt_checkout" \in FlittOpeners /\ rec.status \in Promised("flitt_checkout")
    BY <2>2 DEF FlittOpeners, Promised, Wallets
  <2> QED
    BY <2>2, <2>3, <2>4, FlittOpens
<1>2. ASSUME NEW ep \in {"flitt_direct", "flitt_recurring"}, FlittApprove(c, ep)
      PROVE  Shape(c)
  <2>1. PICK rec : rec = Authorized("flitt")
    OBVIOUS
  <2>2. /\ rec \in RecordType /\ rec.status = "AUTHORIZED" /\ rec.refunds = {}
        /\ rec.history = {"NEW", "AUTHORIZED"}
    BY <2>1, FlittRecords
  <2>3. /\ FlittHandles(c, ep) /\ FlittDone(c, "ok")
        /\ Open(Payment(rec, call[c].req, call[c].rule))
        /\ notes' = IF rec.status = "AUTHORIZED" THEN Callback(c, NewID, "AUTHORIZED") ELSE notes
    BY <1>2, <2>1 DEF FlittApprove, FlittOpen
  <2>4. ep \in FlittOpeners /\ rec.status \in Promised(ep)
    BY <2>2 DEF FlittOpeners, Promised, Wallets
  <2> QED
    BY <2>2, <2>3, <2>4, FlittOpens
<1>3. ASSUME NEW ep \in {"flitt_direct", "flitt_recurring"}, FlittDecline(c, ep)
      PROVE  Shape(c)
  <2>1. PICK rec : rec = Declined("flitt", Price)
    OBVIOUS
  <2>2. /\ rec \in RecordType /\ rec.status = "FAILED" /\ rec.refunds = {}
        /\ rec.history = {"NEW", "FAILED"}
    BY <2>1, FlittRecords
  <2>3. /\ FlittHandles(c, ep) /\ FlittDone(c, "declined")
        /\ Open(Payment(rec, call[c].req, call[c].rule))
        /\ notes' = IF rec.status = "AUTHORIZED" THEN Callback(c, NewID, "AUTHORIZED") ELSE notes
        /\ Outcome(call[c].rule) \in Refusals
    BY <1>3, <2>1 DEF FlittDecline, FlittOpen
  <2>4. ep \in FlittOpeners /\ call[c].rule.action \in {"force_failure", "force_3ds"}
    BY <2>3 DEF FlittOpeners, Outcome, Refusals
  <2> QED
    BY <2>2, <2>3, <2>4, FlittOpens
<1>4. ASSUME NEW ep \in {"flitt_direct", "flitt_recurring"}, FlittChallenge(c, ep)
      PROVE  Shape(c)
  <2>1. PICK rec : rec = NewRecord("flitt", "NEW", Price)
    OBVIOUS
  <2>2. /\ rec \in RecordType /\ rec.status = "NEW" /\ rec.refunds = {}
        /\ rec.history = {"NEW"}
    BY <2>1, FlittRecords
  <2>3. PICK h : h = IF ep = "flitt_direct" THEN "challenge" ELSE "ok"
    OBVIOUS
  <2>4. /\ FlittHandles(c, ep) /\ FlittDone(c, h)
        /\ Open(Payment(rec, call[c].req, call[c].rule))
        /\ notes' = IF rec.status = "AUTHORIZED" THEN Callback(c, NewID, "AUTHORIZED") ELSE notes
        /\ Outcome(call[c].rule) \in Challenges3DS /\ call[c].req.ep = ep
    BY <1>4, <2>1, <2>3 DEF FlittChallenge, FlittOpen, FlittHandles
  <2>5. ep \in FlittOpeners /\ call[c].rule.action \in {"force_failure", "force_3ds"}
    BY <2>4 DEF FlittOpeners, Outcome, Challenges3DS
  <2>6. h = "challenge" \/ (h = "ok" /\ Excepted(call[c]))
    BY <2>3, <2>4 DEF Excepted, Unchecked
  <2> QED
    BY <2>2, <2>4, <2>5, <2>6, FlittOpens
<1> QED
  BY <1>1, <1>2, <1>3, <1>4

LEMMA FlittMovesShape ==
  ASSUME GatewayInv, bank = "flitt", NEW c \in Clients, Waiting(c), NEW id \in DOMAIN pays,
         FlittCapture(c, id) \/ FlittReverse(c, id) \/ FlittStep2(c, id)
  PROVE  Shape(c)
<1>1. call[c].req.sum \in Uint
  BY CallTyped DEF GatewayInv, RequestType
<1>2. /\ "flitt_capture" \in FlittOperations /\ "flitt_reverse" \in FlittOperations
      /\ "flitt_3ds_step2" \in FlittOperations
  BY DEF FlittOperations
<1>3. /\ Promised("flitt_capture") = {"CAPTURED"} /\ Promised("flitt_3ds_step2") = {"AUTHORIZED"}
      /\ Promised("flitt_reverse") = {"CANCELLED", "REFUNDED", "PARTIAL_REFUNDED"}
  BY DEF Promised, Wallets
<1>4. CASE FlittCapture(c, id)
  <2>1. PICK rec : rec = Capturing(id, call[c].req.sum)
    OBVIOUS
  <2>2. FlittMoves(c, "flitt_capture", id, rec) /\ notes' = Callback(c, id, "CAPTURED")
    BY <1>4, <2>1 DEF FlittCapture
  <2>3. Status(id) = "AUTHORIZED"
    BY <2>2 DEF FlittMoves, FlittAllows
  <2>4. /\ rec \in RecordType /\ IsFiniteSet(rec.refunds) /\ Succeeds(pays[id].rec, rec)
        /\ rec.status = "CAPTURED" /\ rec # pays[id].rec
    BY <1>1, <2>1, <2>3, CapturingMoves
  <2> QED
    BY <1>2, <1>3, <2>2, <2>4, FlittMovesOne
<1>5. CASE FlittReverse(c, id)
  <2>1. PICK rec : rec = IF Status(id) = "AUTHORIZED" THEN Cancelling(id)
                         ELSE Refunding(id, call[c].req.sum)
    OBVIOUS
  <2>2. FlittMoves(c, "flitt_reverse", id, rec) /\ notes' = Callback(c, id, rec.status)
    BY <1>5, <2>1 DEF FlittReverse
  <2>3. Status(id) = "AUTHORIZED" \/ Status(id) \in Refundable
    BY <2>2 DEF FlittMoves, FlittAllows
  <2>4. CASE Status(id) = "AUTHORIZED"
    <3>1. /\ rec \in RecordType /\ IsFiniteSet(rec.refunds) /\ Succeeds(pays[id].rec, rec)
          /\ rec.status = "CANCELLED" /\ rec # pays[id].rec
      BY <2>1, <2>4, CancellingMoves
    <3> QED
      BY <1>2, <1>3, <2>2, <3>1, FlittMovesOne
  <2>5. CASE Status(id) \in Refundable /\ Status(id) # "AUTHORIZED"
    <3>1. /\ rec \in RecordType /\ IsFiniteSet(rec.refunds) /\ Succeeds(pays[id].rec, rec)
          /\ rec.status \in {"REFUNDED", "PARTIAL_REFUNDED"} /\ rec # pays[id].rec
      BY <1>1, <2>1, <2>5, RefundingOne
    <3> QED
      BY <1>2, <1>3, <2>2, <3>1, FlittMovesOne
  <2> QED
    BY <2>3, <2>4, <2>5
<1>6. CASE FlittStep2(c, id)
  <2>1. PICK rec : rec = IF Status(id) = "NEW" THEN Moved(pays[id].rec, "AUTHORIZED")
                         ELSE pays[id].rec
    OBVIOUS
  <2>2. /\ FlittMoves(c, "flitt_3ds_step2", id, rec)
        /\ notes' = IF rec.status = "AUTHORIZED" THEN Callback(c, id, "AUTHORIZED") ELSE notes
    BY <1>6, <2>1 DEF FlittStep2, Passed
  <2>3. CASE Status(id) = "NEW"
    <3>1. Status(id) \in AllowedTransitions("AUTHORIZED")
      BY <2>3 DEF AllowedTransitions
    <3>2. /\ rec \in RecordType /\ IsFiniteSet(rec.refunds) /\ Succeeds(pays[id].rec, rec)
          /\ rec.status = "AUTHORIZED" /\ rec # pays[id].rec
      BY <2>1, <2>3, <3>1, Authorizing
    <3> QED
      BY <1>2, <1>3, <2>2, <2>3, <3>2, FlittMovesOne
  <2>4. CASE Status(id) # "NEW"
    <3>1. rec = pays[id].rec /\ rec.status = Status(id)
      BY <2>1, <2>4 DEF Status
    <3>2. rec \in RecordType /\ IsFiniteSet(rec.refunds) /\ rec.status \in rec.history
      BY <3>1, PaysTyped DEF GatewayInv, RecordsKeep
    <3>3. Succeeds(pays[id].rec, rec)
      BY <3>1, <3>2 DEF Succeeds
    <3> QED
      BY <1>2, <2>2, <2>4, <3>1, <3>2, <3>3, FlittMovesOne
  <2> QED
    BY <2>3, <2>4
<1> QED
  BY <1>4, <1>5, <1>6

LEMMA FlittShape ==
  ASSUME GatewayInv, NEW c \in Clients, FlittServe(c)
  PROVE  Shape(c)
<1>1. Waiting(c) /\ bank = "flitt" /\ FlittServing(c)
  BY DEF FlittServe
<1> QED
  BY <1>1, FlittCutShape, FlittSilentCallbackShape, FlittLooksShape, FlittOpensShape,
     FlittMovesShape DEF FlittServing

-----------------------------------------------------------------------------
(* Freedom *)

LEMMA FreedomDoneAnswers ==
  ASSUME GatewayInv, bank = "freedom", NEW c \in Clients, Waiting(c),
         NEW h, FreedomDone(c, h), PastKept
  PROVE  /\ Answered(c) /\ found' = found /\ NothingSaid
         /\ last' \in {h, "distorted"}
         /\ h \in {"error", "ambiguous"} => last' = h
<1>1. /\ UNCHANGED <<bank, book, failed, notes, due, holds, found>>
      /\ call' = [call EXCEPT ![c] = Idle]
      /\ last' \in {h, "distorted"} /\ (h \in {"error", "ambiguous"} => last' = h)
  BY DEF FreedomDone, Answer
<1>2. ~RefusedFirst(c)
  BY DEF RefusedFirst
<1>3. \A n \in notes' : About(n, pays')
  BY <1>1, NotesKept DEF GatewayInv
<1> QED
  BY <1>1, <1>2, <1>3 DEF Answered, GatewayInv, Types, NothingSaid

LEMMA FreedomEndpoint ==
  ASSUME GatewayInv, bank = "freedom", NEW c \in Clients, Waiting(c)
  PROVE  /\ call[c].req.ep \notin {"epay_status", "epay_confirm", "flitt_3ds_step2"}
         /\ call[c].req.id \in 0 .. MaxId
         /\ ~DeclinedByRule(c) /\ ~RefusedFirst(c)
<1>1. FitsFreedom(call[c].req)
  BY DEF GatewayInv, RequestsFit, Fits
<1> QED
  BY <1>1 DEF FitsFreedom, FreedomOpeners, FreedomOperations, Wallets, DeclinedByRule, RefusedFirst

LEMMA FreedomLooks ==
  ASSUME GatewayInv, bank = "freedom", NEW c \in Clients, Waiting(c),
         NEW ep, FreedomHandles(c, ep), NEW h, FreedomDone(c, h), pays' = pays,
         h \in {"error", "ambiguous"} \/ (h \in {"ok", "refund"} /\ Promised(ep) = Statuses)
  PROVE  Shape(c)
<1>1. /\ Answered(c) /\ found' = found /\ NothingSaid
      /\ last' \in {h, "distorted"} /\ (h \in {"error", "ambiguous"} => last' = h)
  BY FreedomDoneAnswers DEF PastKept
<1>2. call[c].req.ep = ep
  BY DEF FreedomHandles
<1>3. ~Success(c)
  BY <1>1, <1>2, FreedomEndpoint DEF Success
<1>4. Looked(c)
  BY <1>1, <1>3, FreedomEndpoint DEF Looked, GatewayInv, Types
<1> QED
  BY <1>1, <1>4 DEF Shape

LEMMA FreedomMovesOne ==
  ASSUME GatewayInv, bank = "freedom", NEW c \in Clients, Waiting(c),
         NEW ep, NEW id \in DOMAIN pays, NEW rec \in RecordType,
         FreedomMoves(c, ep, id, rec),
         IsFiniteSet(rec.refunds), Succeeds(pays[id].rec, rec),
         \/ rec.status \in Promised(ep) /\ rec # pays[id].rec
         \/ NotRefunded(call[c])
  PROVE  Shape(c)
<1>1. /\ FreedomDone(c, "ok") /\ Store(id, rec, call[c].rule) /\ call[c].req.ep = ep
  BY DEF FreedomMoves, FreedomHandles
<1>2. pays' = [pays EXCEPT ![id].rec = rec,
                           ![id].muted = @ \/ call[c].rule.action \in Muting]
  BY <1>1 DEF Store
<1>3. pays'[id].rec = rec /\ PastKept
  BY <1>1, StoreOne DEF GatewayInv
<1>4. Answered(c) /\ found' = found /\ NothingSaid /\ last' \in {"ok", "distorted"}
  BY <1>1, <1>3, FreedomDoneAnswers
<1>5. Moves(id, rec, Mutes(c))
  BY <1>2, <1>4 DEF Moves, Mutes
<1>6. /\ Success(c) => rec.status \in Promised(ep) /\ rec # pays[id].rec
      /\ ~Failure(c) /\ last' # "declined"
  BY <1>1, <1>4, FreedomEndpoint DEF Success, Failure, Excepted, PastCheck
<1>7. MovedOne(c)
  BY <1>3, <1>4, <1>5, <1>6, <1>1, FreedomEndpoint DEF MovedOne
<1> QED
  BY <1>4, <1>7 DEF Shape

LEMMA FreedomCutShape ==
  ASSUME GatewayInv, bank = "freedom", NEW c \in Clients, Waiting(c),
         FreedomCut(c) \/ FreedomRefuse(c) \/ WalletChallenge(c)
  PROVE  Shape(c)
<1>1. PICK a \in {"lost", "garbled", "refused", "challenge"} : Instead(c, a)
  BY DEF FreedomCut, FreedomRefuse, WalletChallenge, Cut
<1> QED
  BY <1>1, InsteadLooks, FreedomEndpoint

LEMMA SilentHoldShape ==
  ASSUME GatewayInv, bank = "freedom", NEW c \in Clients, Waiting(c), SilentHold(c)
  PROVE  Shape(c)
<1>1. /\ UNCHANGED <<bank, book, failed, pays, notes, found>> /\ last' = "held"
      /\ call' = [call EXCEPT ![c] = Idle]
      /\ holds' = holds \cup HoldLater(call[c])
  BY DEF SilentHold, Answer
<1>2. HoldLater(call[c]) \subseteq Ids
  BY FreedomEndpoint, MaxIdAssumption DEF HoldLater, Ids
<1>3. Answered(c)
  BY <1>1, <1>2, FreedomEndpoint DEF Answered, GatewayInv, Types
<1>4. Looked(c)
  BY <1>1, FreedomEndpoint DEF Looked, GatewayInv, Types, NothingSaid, Success
<1> QED
  BY <1>3, <1>4 DEF Shape

LEMMA FreedomLooksShape ==
  ASSUME GatewayInv, bank = "freedom", NEW c \in Clients, Waiting(c),
         \/ RemoveCard(c) \/ FreedomStatusUnknown(c)
         \/ \E ep \in FreedomOperations \cup Wallets : FreedomOperationFails(c, ep)
         \/ \E id \in DOMAIN pays : HoldAgain(c, id) \/ FreedomStatus(c, id)
  PROVE  Shape(c)
<1>1. Promised("remove") = Statuses /\ Promised("get_status3.php") = Statuses
  BY DEF Promised, Wallets
<1>2. CASE RemoveCard(c)
  BY <1>1, <1>2, FreedomLooks DEF RemoveCard
<1>3. CASE FreedomStatusUnknown(c)
  BY <1>3, FreedomLooks DEF FreedomStatusUnknown, FreedomFails
<1>4. ASSUME NEW ep, FreedomOperationFails(c, ep)
      PROVE  Shape(c)
  BY <1>4, FreedomLooks DEF FreedomOperationFails, FreedomFails
<1>5. ASSUME NEW id, HoldAgain(c, id)
      PROVE  Shape(c)
  BY <1>5, FreedomLooks DEF HoldAgain
<1>6. ASSUME NEW id, FreedomStatus(c, id)
      PROVE  Shape(c)
  <2>1. /\ FreedomHandles(c, "get_status3.php") /\ pays' = pays
        /\ \E h \in {"ok", "refund"} : FreedomDone(c, h)
    BY <1>6 DEF FreedomStatus
  <2> QED
    BY <1>1, <2>1, FreedomLooks
<1> QED
  BY <1>2, <1>3, <1>4, <1>5, <1>6

LEMMA FreedomOpenShape ==
  ASSUME GatewayInv, bank = "freedom", NEW c \in Clients, Waiting(c),
         NEW ep \in FreedomOpeners, FreedomOpen(c, ep)
  PROVE  Shape(c)
<1>1. FreedomHandles(c, ep) /\ call[c].req.ep = ep
  BY DEF FreedomOpen, FreedomHandles
<1>2. CASE FreedomFails(c)
  BY <1>1, <1>2, FreedomLooks DEF FreedomFails
<1>3. CASE /\ Open(Payment(NewRecord("any", "NEW", call[c].req.sum), call[c].req, call[c].rule))
           /\ FreedomDone(c, "ok")
  <2>1. "any" \in Banks /\ "NEW" \in Statuses /\ call[c].req.sum \in Uint
    BY CallTyped DEF GatewayInv, RequestType, Banks, Statuses
  <2>2. PICK rec \in RecordType :
          /\ rec = NewRecord("any", "NEW", call[c].req.sum)
          /\ rec.status = "NEW" /\ rec.refunds = {} /\ rec.history = {"NEW"}
    BY <2>1, NewRecordTyped
  <2>3. PICK p \in PaymentType :
          /\ p = Payment(rec, call[c].req, call[c].rule) /\ p.rec = rec
          /\ p.kind = call[c].req.kind /\ (p.muted <=> Mutes(c))
    BY PaymentOpened DEF GatewayInv
  <2>4. /\ NewID \in DOMAIN pays' /\ pays'[NewID] = p /\ pays' = Append(pays, p)
        /\ PastKept
    BY <1>3, <2>2, <2>3, OpenOne DEF GatewayInv
  <2>5. Answered(c) /\ found' = found /\ NothingSaid /\ last' \in {"ok", "distorted"}
    BY <1>3, <2>4, FreedomDoneAnswers
  <2>6. "NEW" \in Promised(ep) /\ ep \in Openers(bank)
    BY DEF FreedomOpeners, Promised, Wallets, Openers
  <2>7. ~Failure(c) /\ last' # "declined"
    BY <2>5, FreedomEndpoint DEF Failure, PastCheck
  <2>8. Opened(c)
    BY <1>1, <2>2, <2>3, <2>4, <2>5, <2>6, <2>7, FreedomEndpoint DEF Opened
  <2> QED
    BY <2>5, <2>8 DEF Shape
<1> QED
  BY <1>2, <1>3 DEF FreedomOpen

\* A refund that is noted leaves the rest of the record as it is; one that was
\* made moves it.
LEMMA RevokingMoves ==
  ASSUME GatewayInv, NEW id \in DOMAIN pays, Status(id) \in Refundable, NEW sum \in Uint,
         NEW delta \in Uint, delta = RefundDelta(pays[id].rec, sum), NEW ok \in BOOLEAN
  PROVE  LET noted == [pays[id].rec EXCEPT !.refunds = @ \cup
                         {[id |-> Cardinality(@) + 1, amount |-> -AsInt(delta), ok |-> ok]}]
             rec   == IF ok THEN Refunded(noted, delta) ELSE noted
         IN  /\ rec \in RecordType /\ IsFiniteSet(rec.refunds) /\ Succeeds(pays[id].rec, rec)
             /\ ok => rec.status \in {"REFUNDED", "PARTIAL_REFUNDED"} /\ rec # pays[id].rec
<1> DEFINE note == [id |-> Cardinality(pays[id].rec.refunds) + 1,
                    amount |-> -AsInt(delta), ok |-> ok]
           noted == [pays[id].rec EXCEPT !.refunds = @ \cup {note}]
<1>1. /\ pays[id].rec \in RecordType /\ IsFiniteSet(pays[id].rec.refunds)
      /\ pays[id].rec.status \in pays[id].rec.history
  BY PaysTyped DEF GatewayInv, RecordsKeep, Status
<1>2. PICK n \in RefundType : n = note
  <2>1. Cardinality(pays[id].rec.refunds) \in Nat
    BY <1>1, FS_CardinalityType
  <2>2. AsInt(delta) \in Int
    BY WordAssumption DEF AsInt, Uint
  <2>3. PICK k \in Nat : k = Cardinality(pays[id].rec.refunds) + 1
    BY <2>1
  <2>4. PICK a \in Int : a = -AsInt(delta)
    BY <2>2
  <2>5. [id |-> k, amount |-> a, ok |-> ok] \in RefundType
    BY Zenon DEF RefundType
  <2> QED
    BY <2>3, <2>4, <2>5
<1>3. PICK r \in RecordType : r = noted
  <2>1. pays[id].rec.refunds \cup {n} \in SUBSET RefundType
    BY <1>1 DEF RecordType
  <2> QED
    BY <1>1, <1>2, <2>1 DEF RecordType
<1>4. /\ r.refunds = pays[id].rec.refunds \cup {n} /\ r.history = pays[id].rec.history
      /\ r.status = pays[id].rec.status
  BY <1>1, <1>2, <1>3 DEF RecordType
<1>5. r.captured = pays[id].rec.captured /\ r.refunded = pays[id].rec.refunded
  BY <1>1, <1>2, <1>3 DEF RecordType
<1>6. IsFiniteSet(r.refunds)
  BY <1>1, <1>4, FS_AddElement
<1>7. Succeeds(pays[id].rec, r)
  BY <1>1, <1>4 DEF Succeeds
<1>8. /\ Refunded(r, delta) \in RecordType /\ IsFiniteSet(Refunded(r, delta).refunds)
      /\ Succeeds(pays[id].rec, Refunded(r, delta))
      /\ Refunded(r, delta).status \in {"REFUNDED", "PARTIAL_REFUNDED"}
      /\ Refunded(r, delta) # pays[id].rec
  <2>1. PICK new \in RecordType : new = Refunded(r, delta)
    BY RefundedRecord
  <2>2. /\ new.refunds = r.refunds /\ new.history = r.history \cup {new.status}
        /\ new.status \in {"REFUNDED", "PARTIAL_REFUNDED"}
    BY <2>1, RefundedRecord
  <2>3. Succeeds(pays[id].rec, new)
    BY <1>4, <2>2 DEF Succeeds
  <2>4. delta = RefundDelta(r, sum) /\ r.status \in Refundable
    BY <1>4, <1>5 DEF RefundDelta, Status
  <2>5. new.status # r.status \/ new.refunded # r.refunded
    BY <2>1, <2>4, RefundingMoves
  <2>6. new # pays[id].rec
    BY <1>4, <1>5, <2>5
  <2> QED
    BY <1>6, <2>1, <2>2, <2>3, <2>6
<1> HIDE DEF note
<1> QED
  BY <1>3, <1>6, <1>7, <1>8 DEF note

LEMMA FreedomMovesShape ==
  ASSUME GatewayInv, bank = "freedom", NEW c \in Clients, Waiting(c), NEW id \in DOMAIN pays,
         \/ Hold(c, id) \/ FreedomCapture(c, id) \/ FreedomCancel(c, id) \/ FreedomRevoke(c, id)
         \/ \E ep \in Wallets : PayWallet(c, ep, id)
  PROVE  Shape(c)
<1>1. call[c].req.sum \in Uint
  BY CallTyped DEF GatewayInv, RequestType
<1>2. /\ \A ep \in {"direct"} \cup Wallets : Promised(ep) = {"AUTHORIZED"}
      /\ Promised("do_capture.php") = {"CAPTURED"} /\ Promised("cancel.php") = {"CANCELLED"}
      /\ Promised("revoke.php") = {"REFUNDED", "PARTIAL_REFUNDED"}
  BY DEF Promised, Wallets
<1>3. ASSUME NEW ep \in {"direct"} \cup Wallets,
             FreedomMoves(c, ep, id, Moved(pays[id].rec, "AUTHORIZED"))
      PROVE  Shape(c)
  <2>1. PICK rec : rec = Moved(pays[id].rec, "AUTHORIZED")
    OBVIOUS
  <2>2. FreedomMoves(c, ep, id, rec)
    BY <1>3, <2>1
  <2>3. Status(id) \in AllowedTransitions("AUTHORIZED")
    BY <2>2 DEF FreedomMoves, FreedomAllows, Wallets
  <2>4. /\ rec \in RecordType /\ IsFiniteSet(rec.refunds) /\ Succeeds(pays[id].rec, rec)
        /\ rec.status = "AUTHORIZED" /\ rec # pays[id].rec
    BY <2>1, <2>3, Authorizing
  <2> QED
    BY <1>2, <2>2, <2>4, FreedomMovesOne
<1>4. CASE FreedomCapture(c, id)
  <2>1. PICK rec : rec = Capturing(id, call[c].req.sum)
    OBVIOUS
  <2>2. FreedomMoves(c, "do_capture.php", id, rec)
    BY <1>4, <2>1 DEF FreedomCapture
  <2>3. Status(id) = "AUTHORIZED"
    BY <2>2 DEF FreedomMoves, FreedomAllows, Wallets
  <2>4. /\ rec \in RecordType /\ IsFiniteSet(rec.refunds) /\ Succeeds(pays[id].rec, rec)
        /\ rec.status = "CAPTURED" /\ rec # pays[id].rec
    BY <1>1, <2>1, <2>3, CapturingMoves
  <2> QED
    BY <1>2, <2>2, <2>4, FreedomMovesOne
<1>5. CASE FreedomCancel(c, id)
  <2>1. PICK rec : rec = Cancelling(id)
    OBVIOUS
  <2>2. FreedomMoves(c, "cancel.php", id, rec)
    BY <1>5, <2>1 DEF FreedomCancel
  <2>3. Status(id) = "AUTHORIZED"
    BY <2>2 DEF FreedomMoves, FreedomAllows, Wallets
  <2>4. /\ rec \in RecordType /\ IsFiniteSet(rec.refunds) /\ Succeeds(pays[id].rec, rec)
        /\ rec.status = "CANCELLED" /\ rec # pays[id].rec
    BY <2>1, <2>3, CancellingMoves
  <2> QED
    BY <1>2, <2>2, <2>4, FreedomMovesOne
<1>6. CASE FreedomRevoke(c, id)
  <2>1. PICK ok \in BOOLEAN : ok = (call[c].rule.action \notin {"refund_declined", "refund_pending"})
    OBVIOUS
  <2>2. PICK delta : delta = RefundDelta(pays[id].rec, call[c].req.sum)
    OBVIOUS
  <2>3. PICK noted : noted = [pays[id].rec EXCEPT !.refunds = @ \cup
                       {[id |-> Cardinality(@) + 1, amount |-> -AsInt(delta), ok |-> ok]}]
    OBVIOUS
  <2>4. PICK rec : rec = IF ok THEN Refunded(noted, delta) ELSE noted
    OBVIOUS
  <2>5. FreedomMoves(c, "revoke.php", id, rec)
    BY <1>6, <2>1, <2>2, <2>3, <2>4 DEF FreedomRevoke
  <2>6. Status(id) \in Refundable
    BY <2>5 DEF FreedomMoves, FreedomAllows, Wallets
  <2>7. delta \in Uint
    BY <1>1, <2>2, <2>6, RefundingMoves, PaysTyped DEF GatewayInv, Status
  <2>8. /\ rec \in RecordType /\ IsFiniteSet(rec.refunds) /\ Succeeds(pays[id].rec, rec)
        /\ ok => rec.status \in {"REFUNDED", "PARTIAL_REFUNDED"} /\ rec # pays[id].rec
    BY <1>1, <2>2, <2>3, <2>4, <2>6, <2>7, RevokingMoves
  <2>9. ~ok => NotRefunded(call[c])
    BY <2>1, <2>5 DEF FreedomMoves, FreedomHandles, NotRefunded
  <2> QED
    BY <1>2, <2>5, <2>8, <2>9, FreedomMovesOne
<1> QED
  BY <1>3, <1>4, <1>5, <1>6 DEF Hold, PayWallet

LEMMA FreedomShape ==
  ASSUME GatewayInv, NEW c \in Clients, FreedomServe(c)
  PROVE  Shape(c)
<1>1. Waiting(c) /\ bank = "freedom" /\ FreedomServing(c)
  BY DEF FreedomServe
<1> QED
  BY <1>1, FreedomCutShape, SilentHoldShape, FreedomLooksShape, FreedomOpenShape,
     FreedomMovesShape DEF FreedomServing

LEMMA ServeHasShape ==
  ASSUME GatewayInv, NEW c \in Clients, Serve(c)
  PROVE  Shape(c)
  BY EpayShape, FlittShape, FreedomShape DEF Serve

-----------------------------------------------------------------------------
(* The invariant is inductive *)

LEMMA IdleTyped ==
  /\ Idle \in CallType /\ Idle.req = NoReq /\ Idle.rule = Plain
  /\ NoReq.ep = "none" /\ \A b : "none" \notin Openers(b)
<1>1. 0 \in Uint
  BY WordAssumption DEF Uint
<1>2. NoReq \in RequestType /\ NoReq.ep = "none"
  <2>1. PICK o \in Orders \cup {NoOrder} : o = NoOrder
    OBVIOUS
  <2>2. PICK kind \in Kinds : kind = "pay"
    BY DEF Kinds
  <2>3. NoReq = [ep |-> "none", id |-> 0, order |-> o, sum |-> 0, kind |-> kind]
    BY <2>1, <2>2 DEF NoReq, ByOrder, Req
  <2> QED
    BY <1>1, <2>3 DEF RequestType, OrNone
<1>3. Plain \in CopyType
  <2>1. PICK late \in BOOLEAN : late = FALSE
    OBVIOUS
  <2>2. PICK z \in Nat : z = 0
    OBVIOUS
  <2>3. PICK text \in OrNone(STRING) : text = "none"
    BY DEF OrNone
  <2>4. [action |-> text, arg |-> text, late |-> late, hits |-> z, no |-> z] \in CopyType
    BY Zenon DEF CopyType
  <2> QED
    BY <2>1, <2>2, <2>3, <2>4 DEF Plain
<1>4. Idle \in CallType /\ Idle.req = NoReq /\ Idle.rule = Plain
  BY <1>2, <1>3 DEF Idle, CallType
<1>5. \A b : "none" \notin Openers(b)
  BY DEF Openers, EpayOpeners, FlittOpeners, FreedomOpeners
<1> QED
  BY <1>2, <1>4, <1>5

LEMMA ExceptElsewhere ==
  ASSUME NEW S, NEW seq \in Seq(S), NEW i, i \notin 1 .. Len(seq), NEW e
  PROVE  [seq EXCEPT ![i] = e] = seq
<1>1. PICK n \in Nat : n = Len(seq)
  OBVIOUS
<1>2. seq \in [1 .. n -> S] /\ DOMAIN seq = 1 .. n
  BY <1>1
<1> QED
  BY <1>1, <1>2

LEMMA ExceptTyped ==
  ASSUME NEW S, NEW seq \in Seq(S), NEW i \in 1 .. Len(seq), NEW e \in S,
         NEW new, new = [seq EXCEPT ![i] = e]
  PROVE  new \in Seq(S) /\ Len(new) = Len(seq) /\ DOMAIN new = DOMAIN seq
<1>1. new \in Seq(S) /\ Len(new) = Len(seq)
  BY ExceptSeq
<1> QED
  BY <1>1

LEMMA MovesTyped ==
  ASSUME GatewayInv, NEW id \in DOMAIN pays, NEW rec, NEW mutes \in BOOLEAN,
         Moves(id, rec, mutes)
  PROVE  /\ pays' \in Seq(PaymentType) /\ Len(pays') = Len(pays) /\ DOMAIN pays' = DOMAIN pays
         /\ pays'[id].rec = rec /\ rec \in RecordType
         /\ pays'[id].kind = pays[id].kind /\ pays'[id].order = pays[id].order
         /\ pays'[id].hidden = pays[id].hidden
         /\ pays'[id].muted <=> pays[id].muted \/ mutes
         /\ \A x \in DOMAIN pays \ {id} : pays'[x] = pays[x]
<1>1. /\ pays' = [pays EXCEPT ![id].rec = rec, ![id].muted = @ \/ mutes]
      /\ rec \in RecordType /\ pays \in Seq(PaymentType) /\ pays[id] \in PaymentType
  BY PaysTyped DEF Moves, GatewayInv, Types
<1>2. PICK m \in BOOLEAN : m = (pays[id].muted \/ mutes)
  OBVIOUS
<1>3. PICK p \in PaymentType : p = [pays[id] EXCEPT !.rec = rec, !.muted = m]
  BY <1>1, <1>2 DEF PaymentType
<1>4. pays' = [pays EXCEPT ![id] = p]
  BY <1>1, <1>2, <1>3
<1>5. /\ p.rec = rec /\ p.kind = pays[id].kind /\ p.order = pays[id].order
      /\ p.hidden = pays[id].hidden /\ p.muted = m
  BY <1>1, <1>3 DEF PaymentType
<1>6. pays' \in Seq(PaymentType) /\ Len(pays') = Len(pays) /\ DOMAIN pays' = DOMAIN pays
  <2>1. id \in 1 .. Len(pays)
    BY <1>1
  <2> QED
    BY <1>1, <1>4, <2>1, ExceptTyped
<1>7. pays'[id] = p /\ \A x \in DOMAIN pays \ {id} : pays'[x] = pays[x]
  BY <1>1, <1>4
<1>8. pays'[id].muted <=> pays[id].muted \/ mutes
  BY <1>2, <1>5, <1>7
<1> QED
  BY <1>1, <1>5, <1>6, <1>7, <1>8

\* The requests under way that may open a payment.
Opening == {x \in Clients : call[x].req.ep \in Openers(bank)}

LEMMA OpeningCounted ==
  /\ Busy(Openers(bank)) = Cardinality(Opening)
  /\ IsFiniteSet(Opening) /\ Cardinality(Opening) \in Nat
<1>1. IsFiniteSet(Opening)
  BY ClientsAssumption, FS_Subset DEF Opening
<1> QED
  BY <1>1, FS_CardinalityType DEF Opening, Busy

\* A request that is answered makes room for the payment it may have opened.
LEMMA AnsweredRoom ==
  ASSUME GatewayInv, NEW c \in Clients, Answered(c)
  PROVE  /\ Opening' = Opening \ {c} /\ IsFiniteSet(Opening')
         /\ Busy(Openers(bank))' <= Busy(Openers(bank))
         /\ c \in Opening => Busy(Openers(bank))' = Busy(Openers(bank)) - 1
<1>1. call' = [call EXCEPT ![c] = Idle] /\ bank' = bank /\ call \in [Clients -> CallType]
  BY DEF Answered, GatewayInv, Types
<1>2. Opening' = Opening \ {c}
  BY <1>1, IdleTyped DEF Opening
<1>3. Busy(Openers(bank))' = Cardinality(Opening')
  BY <1>1 DEF Busy, Opening
<1>4. /\ IsFiniteSet(Opening') /\ Cardinality(Opening') <= Cardinality(Opening)
      /\ c \in Opening => Cardinality(Opening') = Cardinality(Opening) - 1
  BY <1>2, OpeningCounted, FS_RemoveElement, FS_Subset
<1> QED
  BY <1>2, <1>3, <1>4, OpeningCounted

LEMMA AnsweredTypes ==
  ASSUME GatewayInv, NEW c \in Clients, Answered(c),
         pays' \in Seq(PaymentType), found' \subseteq Orders
  PROVE  Types' /\ RequestsFit'
<1>1. /\ call' = [call EXCEPT ![c] = Idle] /\ bank' = bank /\ book' = book
      /\ call \in [Clients -> CallType] /\ failed \in Seq(Nat) /\ Len(book) <= Len(failed)
  BY DEF Answered, GatewayInv, Types
<1>2. failed' \in Seq(Nat) /\ Len(failed') = Len(failed)
  <2>1. PICK no \in Nat : no = call[c].rule.no
    BY CallTyped DEF GatewayInv, CopyType
  <2>2. CASE failed' = [failed EXCEPT ![no] = @ + 1]
    <3>1. CASE no \in 1 .. Len(failed)
      <4>1. PICK k \in Nat : k = failed[no] + 1
        BY <1>1, <3>1
      <4>2. failed' = [failed EXCEPT ![no] = k]
        BY <2>2, <4>1
      <4> QED
        BY <1>1, <3>1, <4>2, ExceptSeq
    <3>2. CASE no \notin 1 .. Len(failed)
      BY <1>1, <2>2, <3>2, ExceptElsewhere
    <3> QED
      BY <3>1, <3>2
  <2>3. CASE failed' = failed
    BY <1>1, <2>3
  <2> QED
    BY <2>1, <2>2, <2>3 DEF Answered
<1>3. call' \in [Clients -> CallType]
  BY <1>1, IdleTyped
<1>4. Types'
  BY <1>1, <1>2, <1>3 DEF Types, GatewayInv, Answered
<1>5. ASSUME NEW x \in Clients, (call[x].req)' # NoReq
      PROVE  Fits(bank', (call[x].req)')
  <2>1. x # c /\ call'[x] = call[x]
    BY <1>1, <1>5, IdleTyped
  <2> QED
    BY <1>1, <1>5, <2>1 DEF GatewayInv, RequestsFit, Waiting
<1>6. RequestsFit'
  BY <1>5 DEF RequestsFit, Waiting
<1> QED
  BY <1>4, <1>6

LEMMA MovesKept ==
  ASSUME GatewayInv, NEW id \in DOMAIN pays, NEW rec, NEW mutes \in BOOLEAN,
         Moves(id, rec, mutes)
  PROVE  PastKept
<1>1. /\ DOMAIN pays' = DOMAIN pays /\ pays'[id].rec = rec /\ pays'[id].kind = pays[id].kind
      /\ \A x \in DOMAIN pays \ {id} : pays'[x] = pays[x]
  BY MovesTyped
<1>2. pays[id].rec.history \subseteq rec.history
  BY DEF Moves, Succeeds
<1> QED
  BY <1>1, <1>2 DEF PastKept

LEMMA MovesKeepsRecords ==
  ASSUME GatewayInv, NEW id \in DOMAIN pays, NEW rec, NEW mutes \in BOOLEAN,
         Moves(id, rec, mutes)
  PROVE  RecordsKeep'
<1>1. /\ DOMAIN pays' = DOMAIN pays /\ pays'[id].rec = rec
      /\ \A x \in DOMAIN pays \ {id} : pays'[x] = pays[x]
  BY MovesTyped
<1>2. rec.status \in rec.history /\ IsFiniteSet(rec.refunds)
  BY DEF Moves, Succeeds
<1> QED
  BY <1>1, <1>2 DEF GatewayInv, RecordsKeep, Status

LEMMA ShapeKeepsInv ==
  ASSUME GatewayInv, NEW c \in Clients, Shape(c)
  PROVE  GatewayInv'
<1>1. Answered(c) /\ found \subseteq Orders /\ pays \in Seq(PaymentType)
  BY DEF Shape, GatewayInv, Types
<1>2. PICK room \in Nat : room = Busy(Openers(bank))
  BY OpeningCounted
<1>3. PICK left \in Nat : left = Busy(Openers(bank))'
  <2>1. Busy(Openers(bank))' = Cardinality(Opening') /\ IsFiniteSet(Opening')
    BY <1>1, AnsweredRoom DEF Busy, Opening
  <2> QED
    BY <2>1, FS_CardinalityType
<1>4. Len(pays) + room <= MaxId
  BY <1>2 DEF GatewayInv, Room
<1>5. CASE Looked(c)
  <2>1. pays' = pays /\ found' \subseteq Orders
    BY <1>5 DEF Looked
  <2>2. Room'
    BY <1>1, <1>2, <1>3, <1>4, <2>1, AnsweredRoom, MaxIdAssumption DEF Room
  <2>3. RecordsKeep'
    BY <2>1 DEF GatewayInv, RecordsKeep, Status
  <2> QED
    BY <1>1, <2>1, <2>2, <2>3, AnsweredTypes DEF GatewayInv
<1>6. CASE Opened(c)
  <2>1. PICK p \in PaymentType :
          /\ pays' = Append(pays, p) /\ found' = found
          /\ p.rec.refunds = {} /\ p.rec.status \in p.rec.history
    BY <1>6 DEF Opened
  <2>2. pays' \in Seq(PaymentType) /\ Len(pays') = Len(pays) + 1
    BY <1>1, <2>1
  <2>3. c \in Opening
    BY <1>6 DEF Opened, Opening
  <2>4. Room'
    BY <1>1, <1>2, <1>3, <1>4, <2>2, <2>3, AnsweredRoom, MaxIdAssumption DEF Room
  <2>5. RecordsKeep'
    <3>1. IsFiniteSet(p.rec.refunds)
      BY <2>1, FS_EmptySet
    <3>2. ASSUME NEW x \in DOMAIN pays'
          PROVE  pays'[x] = p \/ (x \in DOMAIN pays /\ pays'[x] = pays[x])
      BY <1>1, <2>1
    <3> QED
      BY <2>1, <3>1, <3>2 DEF GatewayInv, RecordsKeep, Status
  <2> QED
    BY <1>1, <2>1, <2>2, <2>4, <2>5, AnsweredTypes DEF GatewayInv
<1>7. CASE MovedOne(c)
  <2>1. PICK id \in DOMAIN pays : Moves(id, pays'[id].rec, Mutes(c))
    BY <1>7 DEF MovedOne
  <2>2. Mutes(c) \in BOOLEAN
    BY DEF Mutes
  <2>3. pays' \in Seq(PaymentType) /\ Len(pays') = Len(pays) /\ found' = found
    BY <2>1, <2>2, MovesTyped DEF Moves
  <2>4. Room'
    BY <1>1, <1>2, <1>3, <1>4, <2>3, AnsweredRoom, MaxIdAssumption DEF Room
  <2>5. RecordsKeep'
    BY <2>1, <2>2, MovesKeepsRecords
  <2> QED
    BY <1>1, <2>3, <2>4, <2>5, AnsweredTypes DEF GatewayInv
<1> QED
  BY <1>5, <1>6, <1>7 DEF Shape

\* A book without one of its entries is a book.
LEMMA WithoutTyped ==
  ASSUME NEW S, NEW s \in Seq(S), NEW i \in 1 .. Len(s)
  PROVE  /\ Without(s, i) \in Seq(S) /\ Len(Without(s, i)) = Len(s) - 1
         /\ DOMAIN Without(s, i) = 1 .. (Len(s) - 1)
         /\ \A k \in 1 .. (Len(s) - 1) : Without(s, i)[k] = IF k < i THEN s[k] ELSE s[k + 1]
<1>1. PICK n \in Nat : n = Len(s)
  OBVIOUS
<1>2. \A k \in 1 .. (n - 1) : (IF k < i THEN s[k] ELSE s[k + 1]) \in S
  BY <1>1
<1>3. n - 1 \in Nat
  BY <1>1
<1>4. PICK m \in Nat : m = n - 1
  BY <1>3
<1>5. Without(s, i) = [k \in 1 .. m |-> IF k < i THEN s[k] ELSE s[k + 1]]
  BY <1>1, <1>4 DEF Without
<1>6. Without(s, i) \in [1 .. m -> S]
  BY <1>2, <1>4, <1>5
<1>7. Without(s, i) \in Seq(S) /\ Len(Without(s, i)) = m
  BY <1>4, <1>6, <1>5
<1> QED
  BY <1>1, <1>4, <1>5, <1>7

LEMMA EntryTyped ==
  ASSUME Types, NEW i \in DOMAIN book
  PROVE  /\ book[i] \in EntryType /\ i \in 1 .. Len(book)
         /\ book[i].rule \in AnyRule /\ book[i].hits \in Nat /\ book[i].no \in Nat
<1>1. book \in Seq(EntryType) /\ i \in 1 .. Len(book)
  BY DEF Types
<1>2. PICK e \in EntryType : e = book[i]
  BY <1>1
<1>3. e.rule \in AnyRule /\ e.hits \in Nat /\ e.no \in Nat
  BY <1>2, LimitAssumption DEF EntryType
<1> QED
  BY <1>1, <1>2, <1>3

LEMMA HitTyped ==
  ASSUME NEW e \in EntryType, e.hits < MaxHits
  PROVE  /\ Hit(e) \in EntryType /\ Hit(e).rule = e.rule /\ Hit(e).no = e.no
         /\ Hit(e).hits = e.hits + 1 /\ Taken(e) \in CopyType
         /\ Taken(e).action = e.rule.action /\ Taken(e).no = e.no
         /\ Taken(e).hits = e.hits + 1
<1>1. PICK hits \in 0 .. MaxHits : hits = e.hits + 1
  BY LimitAssumption DEF EntryType
<1>2. PICK h \in EntryType : h = [e EXCEPT !.hits = hits]
  BY DEF EntryType
<1>3. h = Hit(e)
  BY <1>1, <1>2 DEF Hit
<1>4. h.rule = e.rule /\ h.no = e.no /\ h.hits = hits
  BY <1>2 DEF EntryType
<1>5. /\ Taken(e) = [action |-> h.rule.action, arg |-> h.rule.arg, late |-> h.rule.late,
                     hits |-> h.hits, no |-> h.no]
  BY <1>3 DEF Taken, Copy
<1>6. PICK r \in AnyRule : r = h.rule
  BY <1>2 DEF EntryType
<1>7. /\ r.action \in OrNone(STRING) /\ r.arg \in OrNone(STRING) /\ r.late \in BOOLEAN
      /\ h.hits \in Nat /\ h.no \in Nat
  BY <1>2, <1>4, <1>6, LimitAssumption DEF AnyRule, OrNone, EntryType
<1>8. Taken(e) \in CopyType
  <2>1. \A action \in OrNone(STRING), arg \in OrNone(STRING), late \in BOOLEAN, n \in Nat, no \in Nat :
          [action |-> action, arg |-> arg, late |-> late, hits |-> n, no |-> no] \in CopyType
    BY Zenon DEF CopyType
  <2>2. [action |-> r.action, arg |-> r.arg, late |-> r.late, hits |-> h.hits, no |-> h.no]
          \in CopyType
    BY <1>7, <2>1, Zenon
  <2> QED
    BY <1>5, <1>6, <2>2, Zenon
<1> QED
  BY <1>1, <1>2, <1>3, <1>4, <1>5, <1>8

\* What Ask leaves: a call, and a book.
LEMMA AskTyped ==
  ASSUME GatewayInv, NEW c \in Clients, NEW req \in RequestType, NEW seen, Ask(c, req, seen)
  PROVE  /\ UNCHANGED <<bank, failed, last, pays, notes, due, holds, found>>
         /\ \E call1 \in CallType : call1.req = req /\ call' = [call EXCEPT ![c] = call1]
         /\ book' \in Seq(EntryType) /\ Len(book') <= Len(failed)
<1>1. UNCHANGED <<bank, failed, last, pays, notes, due, holds, found>>
  BY DEF Ask, store
<1>2. CASE call' = [call EXCEPT ![c] = [Idle EXCEPT !.req = req]] /\ book' = book
  <2>1. [Idle EXCEPT !.req = req] \in CallType /\ [Idle EXCEPT !.req = req].req = req
    BY IdleTyped DEF CallType
  <2> QED
    BY <1>1, <1>2, <2>1 DEF GatewayInv, Types
<1>3. ASSUME NEW i \in DOMAIN book, book[i].hits < MaxHits, book' = AfterMatch(i),
             call' = [call EXCEPT ![c] = [Idle EXCEPT !.req = req, !.rule = Taken(book[i])]]
      PROVE  /\ \E call1 \in CallType : call1.req = req /\ call' = [call EXCEPT ![c] = call1]
             /\ book' \in Seq(EntryType) /\ Len(book') <= Len(failed)
  <2>1. /\ book \in Seq(EntryType) /\ i \in 1 .. Len(book) /\ book[i] \in EntryType
        /\ Len(book) <= Len(failed) /\ failed \in Seq(Nat)
    BY EntryTyped DEF GatewayInv, Types
  <2>2. PICK copy \in CopyType : copy = Taken(book[i])
    BY <1>3, <2>1, HitTyped
  <2>3. /\ [Idle EXCEPT !.req = req, !.rule = copy] \in CallType
        /\ [Idle EXCEPT !.req = req, !.rule = copy].req = req
    BY IdleTyped DEF CallType
  <2>4. PICK e \in EntryType : e = Hit(book[i])
    BY <1>3, <2>1, HitTyped
  <2>5. book' = Without(book, i) \/ book' = [book EXCEPT ![i] = e]
    BY <1>3, <2>4 DEF AfterMatch
  <2>6. book' \in Seq(EntryType) /\ Len(book') <= Len(book)
    BY <2>1, <2>5, WithoutTyped, ExceptTyped
  <2>7. Len(book') \in Nat /\ Len(book) \in Nat /\ Len(failed) \in Nat
    BY <2>1, <2>6
  <2>8. PICK call1 : call1 = [Idle EXCEPT !.req = req, !.rule = Taken(book[i])]
    OBVIOUS
  <2>9. call1 \in CallType /\ call1.req = req
    BY <2>2, <2>3, <2>8
  <2>10. call' = [call EXCEPT ![c] = call1]
    BY <1>3, <2>8
  <2>11. Len(book') <= Len(failed)
    BY <2>1, <2>6, <2>7
  <2> QED
    BY <2>6, <2>9, <2>10, <2>11
<1> QED
  BY <1>1, <1>2, <1>3 DEF Ask

LEMMA AskKeepsInv ==
  ASSUME GatewayInv, NEW c \in Clients, NEW req \in RequestType, NEW seen, Ask(c, req, seen),
         ~Waiting(c), Fits(bank, req), HasRoom(Openers(bank), req.ep)
  PROVE  GatewayInv'
<1>1. PICK call1 \in CallType : call1.req = req /\ call' = [call EXCEPT ![c] = call1]
  BY AskTyped
<1>2. /\ UNCHANGED <<bank, failed, last, pays, notes, due, holds, found>>
      /\ book' \in Seq(EntryType) /\ Len(book') <= Len(failed)
  BY AskTyped
<1>3. call \in [Clients -> CallType] /\ pays \in Seq(PaymentType)
  BY DEF GatewayInv, Types
<1>4. call' \in [Clients -> CallType]
  BY <1>1, <1>3
<1>5. Types'
  BY <1>2, <1>4 DEF GatewayInv, Types
<1>6. RequestsFit'
  <2>1. SUFFICES ASSUME NEW x \in Clients, (call[x].req)' # NoReq
                 PROVE  Fits(bank', (call[x].req)')
    BY DEF RequestsFit, Waiting
  <2>2. CASE x = c
    BY <1>1, <1>2, <1>3, <2>2
  <2>3. CASE x # c
    BY <1>1, <1>2, <1>3, <2>1, <2>3 DEF GatewayInv, RequestsFit, Waiting
  <2> QED
    BY <2>2, <2>3
<1>7. Room'
  <2>1. c \notin Opening
    BY IdleTyped DEF Waiting, Opening
  <2>2. Opening' = IF req.ep \in Openers(bank) THEN Opening \cup {c} ELSE Opening
    BY <1>1, <1>2, <1>3, <2>1 DEF Opening
  <2>3. Busy(Openers(bank))' = Cardinality(Opening')
    BY <1>2 DEF Busy, Opening
  <2>4. PICK room \in Nat : room = Busy(Openers(bank)) /\ room = Cardinality(Opening)
    BY OpeningCounted
  <2>5. PICK n \in Nat : n = Len(pays) /\ n = Len(pays')
    BY <1>2, <1>3
  <2>6. CASE req.ep \in Openers(bank)
    <3>1. n + room < MaxId
      BY <2>4, <2>5, <2>6 DEF HasRoom
    <3>2. Cardinality(Opening') = room + 1
      BY <2>1, <2>2, <2>4, <2>6, OpeningCounted, FS_AddElement
    <3> QED
      BY <2>3, <2>5, <3>1, <3>2, MaxIdAssumption DEF Room
  <2>7. CASE req.ep \notin Openers(bank)
    BY <2>2, <2>3, <2>4, <2>5, <2>7 DEF GatewayInv, Room
  <2> QED
    BY <2>6, <2>7
<1>8. RecordsKeep'
  BY <1>2 DEF GatewayInv, RecordsKeep, Status
<1> QED
  BY <1>5, <1>6, <1>7, <1>8 DEF GatewayInv

-----------------------------------------------------------------------------
(* What the clients of a bank ask for *)

LEMMA ReqTyped ==
  ASSUME NEW ep \in EpayEndpoints \cup FlittEndpoints \cup FreedomEndpoints, NEW id \in Nat,
         NEW order \in Orders \cup {NoOrder}, NEW sum \in Uint, NEW kind \in Kinds
  PROVE  /\ Req(ep, id, order, sum, kind) \in RequestType
         /\ Req(ep, id, order, sum, kind).ep = ep /\ Req(ep, id, order, sum, kind).id = id
         /\ Req(ep, id, order, sum, kind).order = order
  BY DEF Req, RequestType, OrNone

\* The values the requests are made of.
LEMMA Inputs ==
  /\ 0 \in Uint /\ Price \in Uint /\ Parts \subseteq Uint /\ "pay" \in Kinds /\ "bind" \in Kinds
  /\ EpayIds \subseteq 0 .. MaxId /\ FreedomIds \subseteq 0 .. MaxId /\ 0 \in 0 .. MaxId
  /\ \A id \in EpayIds : id # 0
  BY WordAssumption, PriceAssumption, MaxIdAssumption DEF Uint, Kinds, EpayIds, FreedomIds, Ids

LEMMA EpayReqFits ==
  ASSUME NEW ep \in EpayEndpoints, NEW id \in 0 .. MaxId, NEW order \in Orders \cup {NoOrder},
         NEW sum \in Uint, NEW kind \in Kinds,
         ep \in EpayOpeners => id = 0,
         ep = "epay_status" => (order = NoOrder <=> id # 0)
  PROVE  /\ Req(ep, id, order, sum, kind) \in RequestType
         /\ FitsEpay(Req(ep, id, order, sum, kind))
<1>1. id \in Nat
  BY MaxIdAssumption
<1>2. PICK r \in RequestType :
        r = Req(ep, id, order, sum, kind) /\ r.ep = ep /\ r.id = id /\ r.order = order
  BY <1>1, ReqTyped
<1> QED
  BY <1>2 DEF FitsEpay

LEMMA EpayReqTyped ==
  ASSUME NEW req \in EpayReqs
  PROVE  req \in RequestType /\ FitsEpay(req)
<1>1. CASE req = ById("epay_token", 0)
  BY <1>1, Inputs, EpayReqFits DEF ById, EpayEndpoints, EpayOpeners
<1>2. ASSUME NEW o \in Orders, NEW ep \in EpayOpeners, NEW s \in {0, Price}, NEW k \in Kinds,
             req = Req(ep, 0, o, s, k)
      PROVE  req \in RequestType /\ FitsEpay(req)
  <2>1. ep \in EpayEndpoints /\ ep # "epay_status"
    BY DEF EpayOpeners, EpayEndpoints
  <2> QED
    BY <1>2, <2>1, Inputs, EpayReqFits
<1>3. ASSUME NEW ep \in {"epay_confirm", "epay_charge", "epay_cancel", "epay_status", "epay_refund"},
             NEW id \in EpayIds, NEW s \in Parts \cup {0}, req = Req(ep, id, NoOrder, s, "pay")
      PROVE  req \in RequestType /\ FitsEpay(req)
  <2>1. ep \in EpayEndpoints /\ ep \notin EpayOpeners
    BY DEF EpayOpeners, EpayEndpoints
  <2>2. id \in 0 .. MaxId /\ id # 0 /\ s \in Uint /\ "pay" \in Kinds
    BY Inputs
  <2> QED
    BY <1>3, <2>1, <2>2, EpayReqFits
<1>4. ASSUME NEW o \in Orders, req = ByOrder("epay_status", o)
      PROVE  req \in RequestType /\ FitsEpay(req)
  <2>1. "epay_status" \in EpayEndpoints /\ "epay_status" \notin EpayOpeners /\ o # NoOrder
    BY OrdersAssumption DEF EpayOpeners, EpayEndpoints
  <2> QED
    BY <1>4, <2>1, Inputs, EpayReqFits DEF ByOrder
<1>5. "epay_cryptopay" \in EpayOpeners /\ "epay_card_auth" \in EpayOpeners
  BY DEF EpayOpeners
<1> QED
  BY <1>1, <1>2, <1>3, <1>4, <1>5, Inputs DEF EpayReqs, ById

LEMMA FlittReqTyped ==
  ASSUME NEW req \in FlittReqs
  PROVE  req \in RequestType /\ FitsFlitt(req)
<1>1. ASSUME NEW ep \in FlittOpeners \cup FlittOperations, NEW o \in Orders,
             NEW s \in Uint, req = Req(ep, 0, o, s, "pay")
      PROVE  req \in RequestType /\ FitsFlitt(req)
  <2>1. ep \in FlittEndpoints
    BY DEF FlittOpeners, FlittOperations, FlittEndpoints
  <2> QED
    BY <1>1, <2>1, Inputs, ReqTyped DEF FitsFlitt
<1>2. /\ "flitt_reverse" \in FlittOperations
      /\ {"flitt_capture", "flitt_status", "flitt_3ds_step2"} \subseteq FlittOperations
  BY DEF FlittOperations
<1> QED
  BY <1>1, <1>2, Inputs DEF FlittReqs, ByOrder

LEMMA FreedomReqTyped ==
  ASSUME NEW req \in FreedomReqs
  PROVE  req \in RequestType /\ FitsFreedom(req)
<1> DEFINE All == FreedomOpeners \cup FreedomOperations \cup Wallets \cup {"remove"}
<1>1. ASSUME NEW ep \in All, NEW id \in 0 .. MaxId, NEW o \in Orders \cup {NoOrder},
             NEW s \in Uint, NEW k \in Kinds, req = Req(ep, id, o, s, k)
      PROVE  req \in RequestType /\ FitsFreedom(req)
  <2>1. ep \in FreedomEndpoints
    BY DEF FreedomOpeners, FreedomOperations, Wallets, FreedomEndpoints
  <2>2. id \in Nat
    BY MaxIdAssumption
  <2>3. req \in RequestType /\ req.ep = ep /\ req.id = id
    BY <1>1, <2>1, <2>2, ReqTyped
  <2> QED
    BY <2>3 DEF FitsFreedom
<1>2. {"init", "init_payment.php", "add2", "direct", "do_capture.php", "cancel.php",
       "get_status3.php", "revoke.php", "remove"} \cup Wallets \subseteq All
  BY DEF FreedomOpeners, FreedomOperations
<1> HIDE DEF All
<1>3. CASE req \in {Req(ep, 0, o, s, "pay") : ep \in {"init", "init_payment.php"},
                                              o \in Orders, s \in {0, Price}}
  BY <1>1, <1>2, <1>3, Inputs
<1>4. CASE req \in {Req("add2", 0, o, 0, "bind") : o \in Orders}
  BY <1>1, <1>2, <1>4, Inputs
<1>5. CASE req \in {ById(ep, id) : ep \in {"direct", "do_capture.php", "cancel.php", "get_status3.php"}
                                            \cup Wallets, id \in FreedomIds}
  <2>1. PICK ep \in {"direct", "do_capture.php", "cancel.php", "get_status3.php"} \cup Wallets,
             id \in FreedomIds : req = Req(ep, id, NoOrder, 0, "pay")
    BY <1>5 DEF ById
  <2>2. ep \in All /\ id \in 0 .. MaxId /\ 0 \in Uint /\ "pay" \in Kinds
    BY <1>2, Inputs
  <2> QED
    BY <1>1, <2>1, <2>2
<1>6. CASE req \in {Req("revoke.php", id, NoOrder, s, "pay") : id \in FreedomIds, s \in Parts}
  <2>1. PICK id \in FreedomIds, s \in Parts : req = Req("revoke.php", id, NoOrder, s, "pay")
    BY <1>6
  <2>2. "revoke.php" \in All /\ id \in 0 .. MaxId /\ s \in Uint /\ "pay" \in Kinds
    BY <1>2, Inputs
  <2> QED
    BY <1>1, <2>1, <2>2
<1>7. CASE req \in {ByOrder("get_status3.php", o) : o \in Orders} \cup {ById("remove", 0)}
  BY <1>1, <1>2, <1>7, Inputs DEF ByOrder, ById
<1> QED
  BY <1>3, <1>4, <1>5, <1>6, <1>7 DEF FreedomReqs

\* A request that comes in.
Asked(c, req, seen) ==
  /\ ~Waiting(c) /\ Ask(c, req, seen) /\ seen.endpoint = req.ep
  /\ req \in RequestType /\ Fits(bank, req) /\ HasRoom(Openers(bank), req.ep)

LEMMA AskHasShape ==
  ASSUME NEW c \in Clients, EpayAsk(c) \/ FlittAsk(c) \/ FreedomAsk(c)
  PROVE  \E req, seen : Asked(c, req, seen)
<1>1. CASE EpayAsk(c)
  <2>1. bank = "epay" /\ ~Waiting(c)
    BY <1>1 DEF EpayAsk
  <2>2. PICK req \in EpayReqs :
          /\ HasRoom(EpayOpeners, req.ep)
          /\ Ask(c, req, [bank |-> "epay", endpoint |-> req.ep, payment |-> "", order |-> ""])
    BY <1>1 DEF EpayAsk
  <2> DEFINE seen == [bank |-> "epay", endpoint |-> req.ep, payment |-> "", order |-> ""]
  <2>3. seen.endpoint = req.ep
    OBVIOUS
  <2>4. Ask(c, req, seen)
    BY <2>2
  <2> HIDE DEF seen
  <2>5. Asked(c, req, seen)
    BY <2>1, <2>2, <2>3, <2>4, EpayReqTyped DEF Asked, Fits, Openers
  <2> QED
    BY <2>5
<1>2. CASE FlittAsk(c)
  <2>1. bank = "flitt" /\ ~Waiting(c)
    BY <1>2 DEF FlittAsk
  <2>2. PICK req \in FlittReqs :
          /\ HasRoom(FlittOpeners, req.ep)
          /\ Ask(c, req, [bank |-> "flitt", endpoint |-> req.ep,
                       payment |-> "", order |-> req.order])
    BY <1>2 DEF FlittAsk
  <2> DEFINE seen == [bank |-> "flitt", endpoint |-> req.ep,
                           payment |-> "", order |-> req.order]
  <2>3. seen.endpoint = req.ep
    OBVIOUS
  <2>4. Ask(c, req, seen)
    BY <2>2
  <2> HIDE DEF seen
  <2>5. Asked(c, req, seen)
    BY <2>1, <2>2, <2>3, <2>4, FlittReqTyped DEF Asked, Fits, Openers
  <2> QED
    BY <2>5
<1>3. CASE FreedomAsk(c)
  <2>1. bank = "freedom" /\ ~Waiting(c)
    BY <1>3 DEF FreedomAsk
  <2>2. PICK req \in FreedomReqs :
          /\ HasRoom(FreedomOpeners, req.ep)
          /\ Ask(c, req, [bank |-> "freedom", endpoint |-> req.ep,
                       payment |-> IF req.id = 0 THEN "" ELSE ToString(req.id),
                       order |-> OrderOf(req)])
    BY <1>3 DEF FreedomAsk
  <2> DEFINE seen == [bank |-> "freedom", endpoint |-> req.ep,
                           payment |-> IF req.id = 0 THEN "" ELSE ToString(req.id),
                           order |-> OrderOf(req)]
  <2>3. seen.endpoint = req.ep
    OBVIOUS
  <2>4. Ask(c, req, seen)
    BY <2>2
  <2> HIDE DEF seen
  <2>5. Asked(c, req, seen)
    BY <2>1, <2>2, <2>3, <2>4, FreedomReqTyped DEF Asked, Fits, Openers
  <2> QED
    BY <2>5
<1> QED
  BY <1>1, <1>2, <1>3

-----------------------------------------------------------------------------
(* What goes on without a request *)

LEMMA UnhiddenTyped ==
  ASSUME GatewayInv, NEW S, pays' = Unhidden(S)
  PROVE  /\ pays' \in Seq(PaymentType) /\ Len(pays') = Len(pays) /\ DOMAIN pays' = DOMAIN pays
         /\ \A id \in DOMAIN pays :
              /\ pays'[id].rec = pays[id].rec /\ pays'[id].order = pays[id].order
              /\ pays'[id].kind = pays[id].kind /\ pays'[id].muted = pays[id].muted
              /\ pays'[id].hidden => pays[id].hidden
<1>1. pays \in Seq(PaymentType)
  BY DEF GatewayInv, Types
<1>2. PICK n \in Nat : n = Len(pays) /\ DOMAIN pays = 1 .. n
  BY <1>1
<1>3. ASSUME NEW id \in DOMAIN pays
      PROVE  \E p \in PaymentType :
               /\ p = IF id \in S THEN [pays[id] EXCEPT !.hidden = FALSE] ELSE pays[id]
               /\ p.rec = pays[id].rec /\ p.order = pays[id].order
               /\ p.kind = pays[id].kind /\ p.muted = pays[id].muted
               /\ p.hidden => pays[id].hidden
  <2>1. PICK q \in PaymentType : q = pays[id]
    BY <1>1
  <2>2. PICK no \in BOOLEAN : no = FALSE
    OBVIOUS
  <2>3. PICK p \in PaymentType : p = [q EXCEPT !.hidden = no]
    BY DEF PaymentType
  <2>4. p.rec = q.rec /\ p.order = q.order /\ p.kind = q.kind
    BY <2>3 DEF PaymentType
  <2>5. p.muted = q.muted
    BY <2>3 DEF PaymentType
  <2>6. ~p.hidden
    BY <2>2, <2>3 DEF PaymentType
  <2>7. CASE id \in S
    BY <2>1, <2>2, <2>3, <2>4, <2>5, <2>6, <2>7
  <2>8. CASE id \notin S
    BY <2>1, <2>8
  <2> QED
    BY <2>7, <2>8
<1>4. pays' = [id \in 1 .. n |-> IF id \in S THEN [pays[id] EXCEPT !.hidden = FALSE] ELSE pays[id]]
  BY <1>2 DEF Unhidden
<1>5. DOMAIN pays' = 1 .. n
  BY <1>4
<1>6. ASSUME NEW id \in DOMAIN pays
      PROVE  /\ pays'[id] \in PaymentType
             /\ pays'[id].rec = pays[id].rec /\ pays'[id].order = pays[id].order
             /\ pays'[id].kind = pays[id].kind /\ pays'[id].muted = pays[id].muted
             /\ pays'[id].hidden => pays[id].hidden
  <2>1. pays'[id] = IF id \in S THEN [pays[id] EXCEPT !.hidden = FALSE] ELSE pays[id]
    BY <1>2, <1>4
  <2>2. PICK p \in PaymentType :
          /\ p = IF id \in S THEN [pays[id] EXCEPT !.hidden = FALSE] ELSE pays[id]
          /\ p.rec = pays[id].rec /\ p.order = pays[id].order
          /\ p.kind = pays[id].kind /\ p.muted = pays[id].muted
          /\ p.hidden => pays[id].hidden
    BY <1>3
  <2>3. pays'[id] = p
    BY <2>1, <2>2
  <2> QED
    BY <2>2, <2>3
<1>7. pays' \in [1 .. n -> PaymentType]
  BY <1>2, <1>4, <1>6
<1>8. pays' \in Seq(PaymentType) /\ Len(pays') = n
  BY <1>2, <1>7
<1> QED
  BY <1>2, <1>5, <1>6, <1>8

\* The step of a goroutine, or of time: no request is touched.
LEMMA QuietKeepsInv ==
  ASSUME GatewayInv, UNCHANGED <<bank, book, failed, call, found>>,
         pays' \in Seq(PaymentType), Len(pays') = Len(pays),
         \A n \in notes' : About(n, pays'), holds' \subseteq holds, RecordsKeep'
  PROVE  GatewayInv'
<1>1. Types' /\ RequestsFit'
  BY DEF GatewayInv, Types, RequestsFit, Waiting
<1>2. Busy(Openers(bank))' = Busy(Openers(bank))
  BY DEF Busy
<1>3. Room'
  BY <1>2 DEF GatewayInv, Room
<1> QED
  BY <1>1, <1>3 DEF GatewayInv

LEMMA TimeKeepsInv ==
  ASSUME GatewayInv, NEW S, pays' = Unhidden(S),
         UNCHANGED <<bank, book, failed, call, last, notes, due, holds, found>>
  PROVE  GatewayInv'
<1>1. /\ pays' \in Seq(PaymentType) /\ Len(pays') = Len(pays) /\ DOMAIN pays' = DOMAIN pays
      /\ \A id \in DOMAIN pays : pays'[id].rec = pays[id].rec
  BY UnhiddenTyped
<1>2. RecordsKeep'
  BY <1>1 DEF GatewayInv, RecordsKeep, Status
<1>3. \A n \in notes' : About(n, pays')
  BY <1>1, UnhiddenTyped, NotesKept DEF PastKept, GatewayInv
<1> QED
  BY <1>1, <1>2, <1>3, QuietKeepsInv DEF GatewayInv, Types

\* The goroutine of a silent hold moves a payment, or finds nothing to do.
LEMMA AsyncHoldMoves ==
  ASSUME GatewayInv, NEW id \in holds, AsyncHold(id)
  PROVE  \/ pays' = pays
         \/ /\ id \in DOMAIN pays /\ Status(id) \in {"NEW", "HOLD_PENDING"}
            /\ Moves(id, Moved(pays[id].rec, "AUTHORIZED"), Plain.action \in Muting)
            /\ Plain.action \notin Muting
            /\ Moved(pays[id].rec, "AUTHORIZED").status = "AUTHORIZED"
<1>1. CASE CanHold(id)
  <2>1. id \in DOMAIN pays /\ Status(id) \in AllowedTransitions("AUTHORIZED")
    BY <1>1 DEF CanHold, Known
  <2>2. /\ Moved(pays[id].rec, "AUTHORIZED") \in RecordType
        /\ IsFiniteSet(Moved(pays[id].rec, "AUTHORIZED").refunds)
        /\ Succeeds(pays[id].rec, Moved(pays[id].rec, "AUTHORIZED"))
        /\ Moved(pays[id].rec, "AUTHORIZED").status = "AUTHORIZED"
    BY <2>1, Authorizing
  <2>3. Store(id, Moved(pays[id].rec, "AUTHORIZED"), Plain) /\ found' = found
    BY <1>1 DEF AsyncHold
  <2>4. Moves(id, Moved(pays[id].rec, "AUTHORIZED"), Plain.action \in Muting)
    BY <2>2, <2>3 DEF Moves, Store
  <2> QED
    BY <2>1, <2>2, <2>4 DEF AllowedTransitions, Plain, Muting
<1>2. CASE ~CanHold(id)
  BY <1>2 DEF AsyncHold
<1> QED
  BY <1>1, <1>2

LEMMA AsyncHoldKeepsInv ==
  ASSUME GatewayInv, NEW id \in holds, AsyncHold(id)
  PROVE  GatewayInv'
<1>1. /\ UNCHANGED <<bank, book, failed, call, notes, found>>
      /\ holds' \subseteq holds
  BY DEF AsyncHold
<1>2. CASE pays' = pays
  <2>1. RecordsKeep'
    BY <1>2 DEF GatewayInv, RecordsKeep, Status
  <2> QED
    BY <1>1, <1>2, <2>1, QuietKeepsInv DEF GatewayInv, Types
<1>3. CASE /\ id \in DOMAIN pays
           /\ Moves(id, Moved(pays[id].rec, "AUTHORIZED"), Plain.action \in Muting)
  <2>1. (Plain.action \in Muting) \in BOOLEAN
    OBVIOUS
  <2>2. pays' \in Seq(PaymentType) /\ Len(pays') = Len(pays) /\ DOMAIN pays' = DOMAIN pays
    BY <1>3, <2>1, MovesTyped
  <2>3. RecordsKeep'
    BY <1>3, <2>1, MovesKeepsRecords
  <2>4. PastKept
    BY <1>3, <2>1, MovesKept
  <2> QED
    BY <1>1, <2>2, <2>3, <2>4, QuietKeepsInv, NotesKept DEF GatewayInv, Types
<1> QED
  BY <1>2, <1>3, AsyncHoldMoves

LEMMA RunLookupNotes ==
  ASSUME GatewayInv, NEW l \in due, RunLookup(l)
  PROVE  /\ UNCHANGED <<bank, book, failed, pays, call, last, holds, found>>
         /\ NothingSaid /\ \A n \in notes' : About(n, pays)
<1>1. UNCHANGED <<bank, book, failed, pays, call, last, holds, found>>
  BY DEF RunLookup
<1>2. \A n \in notes : About(n, pays)
  BY DEF GatewayInv, Types
<1>3. ASSUME NEW id \in DOMAIN pays, notes' = Noted(notes, id, Status(id), "unasked", 1)
      PROVE  NothingSaid /\ \A n \in notes' : About(n, pays)
  <2>1. Status(id) \in Statuses /\ Tells(pays[id], "unasked", Status(id))
    BY PaysTyped DEF GatewayInv, RecordsKeep, Tells
  <2>2. \A n \in Noted(notes, id, Status(id), "unasked", 1) : About(n, pays)
    BY <1>2, <2>1, NotedIsAbout
  <2> QED
    BY <1>3, <2>2, SaidNoted DEF NothingSaid
<1>4. notes' = notes \/ \E id \in DOMAIN pays : notes' = Noted(notes, id, Status(id), "unasked", 1)
  BY DEF RunLookup, Found, Reported
<1> QED
  BY <1>1, <1>2, <1>3, <1>4 DEF NothingSaid

LEMMA LookupKeepsInv ==
  ASSUME GatewayInv, NEW l \in due, RunLookup(l)
  PROVE  GatewayInv'
<1>1. RecordsKeep'
  BY RunLookupNotes DEF GatewayInv, RecordsKeep, Status
<1> QED
  BY <1>1, RunLookupNotes, QuietKeepsInv DEF GatewayInv, Types

\* Every step there is.
LEMMA StepCases ==
  ASSUME GatewayInv, [Next]_vars
  PROVE  \/ UNCHANGED vars
         \/ \E c \in Clients : \E req, seen : Asked(c, req, seen)
         \/ \E c \in Clients : Shape(c)
         \/ \E id \in holds : AsyncHold(id)
         \/ \E S : /\ pays' = Unhidden(S)
                   /\ UNCHANGED <<bank, book, failed, call, last, notes, due, holds, found>>
         \/ \E l \in due : RunLookup(l)
<1>1. ASSUME NEW c \in Clients, EpayAsk(c) \/ FlittAsk(c) \/ FreedomAsk(c)
      PROVE  \E req, seen : Asked(c, req, seen)
  BY <1>1, AskHasShape
<1>2. ASSUME NEW c \in Clients, EpayServe(c) \/ FlittServe(c) \/ FreedomServe(c)
      PROVE  Shape(c)
  BY <1>2, ServeHasShape DEF Serve
<1>3. CASE EpayNext
  BY <1>1, <1>2, <1>3 DEF EpayNext, TimePasses, Reveal
<1>4. CASE FlittNext
  BY <1>1, <1>2, <1>4 DEF FlittNext
<1>5. CASE FreedomNext
  BY <1>1, <1>2, <1>5 DEF FreedomNext
<1> QED
  BY <1>3, <1>4, <1>5 DEF Next

LEMMA StepKeepsInv ==
  ASSUME GatewayInv, [Next]_vars
  PROVE  GatewayInv'
<1>1. CASE UNCHANGED vars
  <2>1. Types' /\ RequestsFit' /\ RecordsKeep'
    BY <1>1 DEF GatewayInv, Types, RequestsFit, RecordsKeep, Waiting, Status, vars
  <2>2. Busy(Openers(bank))' = Busy(Openers(bank))
    BY <1>1 DEF Busy, vars
  <2> QED
    BY <1>1, <2>1, <2>2 DEF GatewayInv, Room, vars
<1>2. CASE \E c \in Clients : \E req, seen : Asked(c, req, seen)
  BY <1>2, AskKeepsInv DEF Asked
<1> QED
  BY <1>1, <1>2, StepCases, ShapeKeepsInv, AsyncHoldKeepsInv, TimeKeepsInv, LookupKeepsInv

LEMMA InitHasInv ==
  ASSUME Init
  PROVE  GatewayInv
<1>1. PICK rules \in Seq(AnyRule) :
        book = PutUp(rules) /\ failed = [i \in DOMAIN rules |-> 0]
  BY BooksAssumption DEF Init
<1>2. /\ bank \in {"epay", "flitt", "freedom"} /\ pays = <<>> /\ call = [c \in Clients |-> Idle]
      /\ notes = {} /\ holds = {} /\ found = {}
  BY BooksAssumption DEF Init
<1>3. PICK n \in Nat : n = Len(rules) /\ DOMAIN rules = 1 .. n
  BY <1>1
<1>4. failed \in Seq(Nat) /\ Len(failed) = n
  <2>1. failed \in [1 .. n -> Nat]
    BY <1>1, <1>3
  <2> QED
    BY <1>3, <2>1
<1>5. book \in Seq(EntryType) /\ Len(book) = n
  <2>1. PICK z \in 0 .. MaxHits : z = 0
    BY LimitAssumption
  <2>2. ASSUME NEW i \in 1 .. n
        PROVE  [rule |-> rules[i], hits |-> 0, no |-> i] \in EntryType
    <3>1. rules[i] \in AnyRule /\ i \in Nat
      BY <1>1, <1>3, <2>2
    <3> QED
      BY <2>1, <3>1 DEF EntryType
  <2>3. book = [i \in 1 .. n |-> [rule |-> rules[i], hits |-> 0, no |-> i]]
    BY <1>1, <1>3 DEF PutUp
  <2>4. book \in [1 .. n -> EntryType]
    BY <2>2, <2>3
  <2> QED
    BY <1>3, <2>4
<1>6. Types
  BY <1>2, <1>4, <1>5, IdleTyped DEF Types
<1>7. RequestsFit
  BY <1>2, IdleTyped DEF RequestsFit, Waiting
<1>8. Room
  <2>1. Opening = {}
    BY <1>2, IdleTyped DEF Opening
  <2>2. Busy(Openers(bank)) = 0
    BY <2>1, OpeningCounted, FS_EmptySet
  <2> QED
    BY <1>2, <2>2, MaxIdAssumption DEF Room
<1>9. RecordsKeep
  BY <1>2 DEF RecordsKeep
<1> QED
  BY <1>6, <1>7, <1>8, <1>9 DEF GatewayInv

\* The invariant of the steps of Gateways.
LEMMA InvariantHolds == Spec => []GatewayInv
<1>1. Init => GatewayInv
  BY InitHasInv
<1>2. GatewayInv /\ [Next]_vars => GatewayInv'
  BY StepKeepsInv
<1> QED
  BY <1>1, <1>2, PTL DEF Spec
=============================================================================
