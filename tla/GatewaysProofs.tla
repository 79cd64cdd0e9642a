--------------------------- MODULE GatewaysProofs ---------------------------
(***************************************************************************)
(* The properties of Gateways, proved of every step GatewaysSteps tells    *)
(* apart.                                                                  *)
(***************************************************************************)
EXTENDS GatewaysSteps

\* Every value is of its type, and the bounds hold.
THEOREM GatewayIsTyped == Spec => []TypeOK
<1>1. ASSUME GatewayInv
      PROVE  TypeOK
  <2>1. Len(book) <= Len(failed) /\ \A i \in DOMAIN book : book[i].hits \in 0 .. MaxHits
    BY <1>1, EntryTyped DEF GatewayInv, Types, EntryType
  <2>2. ASSUME NEW id \in DOMAIN pays
        PROVE  /\ id \in Ids /\ [pays[id].rec EXCEPT !.refunds = {}] \in Record
               /\ pays[id].order \in Orders \cup {NoOrder} /\ pays[id].kind \in Kinds
    <3>1. pays \in Seq(PaymentType) /\ Room
      BY <1>1 DEF GatewayInv, Types
    <3>2. PICK n \in Nat : n = Len(pays) /\ DOMAIN pays = 1 .. n
      BY <3>1
    <3>3. PICK busy \in Nat : busy = Busy(Openers(bank))
      BY OpeningCounted
    <3>4. id \in Ids
      BY <3>1, <3>2, <3>3, MaxIdAssumption DEF Room, Ids
    <3>5. PICK rec \in RecordType : rec = pays[id].rec
      BY <1>1, PaysTyped DEF GatewayInv
    <3>6. [rec EXCEPT !.refunds = {}] \in Record
      BY DEF RecordType, Record
    <3>7. pays[id].order \in Orders \cup {NoOrder} /\ pays[id].kind \in Kinds
      <4>1. PICK p \in PaymentType : p = pays[id]
        BY <1>1, PaysTyped DEF GatewayInv
      <4> QED
        BY <4>1 DEF PaymentType
    <3> QED
      BY <3>4, <3>5, <3>6, <3>7
  <2> QED
    BY <1>1, <2>1, <2>2 DEF TypeOK, GatewayInv, Types, About
<1> QED
  BY <1>1, InvariantHolds, PTL

-----------------------------------------------------------------------------
(* What the steps do to the payments *)

\* A request that is served is answered in the step.
LEMMA ServedHasShape ==
  ASSUME GatewayInv, [Next]_vars, NEW c \in Clients, Served(c)
  PROVE  Shape(c)
<1>1. SUFFICES ASSUME ~Shape(c)
               PROVE  FALSE
  OBVIOUS
<1>2. Waiting(c) /\ call'[c].req = NoReq /\ call'[c] # call[c] /\ call \in [Clients -> CallType]
  BY DEF Served, Waiting, GatewayInv, Types
<1>3. ASSUME NEW d \in Clients, NEW call1, call' = [call EXCEPT ![d] = call1]
      PROVE  c = d
  BY <1>2, <1>3
<1>4. ASSUME NEW d \in Clients, NEW req, NEW seen, Asked(d, req, seen)
      PROVE  FALSE
  <2>1. c = d
    BY <1>3, <1>4, AskTyped DEF Asked
  <2> QED
    BY <1>2, <1>4, <2>1 DEF Asked
<1>5. ASSUME NEW d \in Clients, Shape(d)
      PROVE  FALSE
  BY <1>1, <1>3, <1>5 DEF Shape, Answered
<1> QED
  BY <1>2, <1>4, <1>5, StepCases DEF vars, AsyncHold, RunLookup

\* A payment is opened next to the others.
LEMMA OpenedOne ==
  ASSUME GatewayInv, NEW c \in Clients, Opened(c)
  PROVE  /\ NewID \notin DOMAIN pays /\ DOMAIN pays' = DOMAIN pays \cup {NewID}
         /\ \A id \in DOMAIN pays : pays'[id] = pays[id]
<1>1. PICK p \in PaymentType : pays' = Append(pays, p)
  BY DEF Opened
<1>2. pays \in Seq(PaymentType)
  BY DEF GatewayInv, Types
<1>3. PICK n \in Nat : n = Len(pays)
  BY <1>2
<1>4. DOMAIN pays = 1 .. n /\ DOMAIN pays' = 1 .. (n + 1) /\ NewID = n + 1
  BY <1>1, <1>2, <1>3 DEF NewID
<1> QED
  BY <1>1, <1>2, <1>3, <1>4

LEMMA MovedTyped ==
  ASSUME GatewayInv, NEW c \in Clients, NEW id \in DOMAIN pays, NEW rec,
         Moves(id, rec, Mutes(c))
  PROVE  /\ pays' \in Seq(PaymentType) /\ DOMAIN pays' = DOMAIN pays
         /\ pays'[id].rec = rec /\ rec \in RecordType
         /\ pays'[id].kind = pays[id].kind /\ pays'[id].order = pays[id].order
         /\ pays'[id].hidden = pays[id].hidden
         /\ pays'[id].muted <=> pays[id].muted \/ Mutes(c)
         /\ \A x \in DOMAIN pays \ {id} : pays'[x] = pays[x]
<1>1. Mutes(c) \in BOOLEAN
  BY DEF Mutes
<1> QED
  BY <1>1, MovesTyped

\* What no step takes from a payment: it is there, with its order, its kind
\* and all it has been, and it is not hidden again.
Stays(id) ==
  /\ id \in DOMAIN pays' /\ pays[id].rec.history \subseteq pays'[id].rec.history
  /\ pays'[id].order = pays[id].order /\ pays'[id].kind = pays[id].kind
  /\ pays'[id].hidden => pays[id].hidden

LEMMA MovedStays ==
  ASSUME GatewayInv, NEW id \in DOMAIN pays, NEW rec, NEW mutes \in BOOLEAN,
         Moves(id, rec, mutes), NEW x \in DOMAIN pays
  PROVE  Stays(x)
<1>1. CASE x = id
  <2>1. Succeeds(pays[id].rec, rec)
    BY DEF Moves
  <2>2. id \in DOMAIN pays' /\ pays'[id].rec = rec
    BY MovesTyped
  <2>3. pays'[id].kind = pays[id].kind /\ pays'[id].order = pays[id].order
    BY MovesTyped
  <2>4. pays'[id].hidden = pays[id].hidden
    BY MovesTyped
  <2>5. pays[id].rec.history \subseteq rec.history
    BY <2>1 DEF Succeeds
  <2>6. pays'[id].hidden => pays[id].hidden
    BY <2>4
  <2> QED
    BY <1>1, <2>2, <2>3, <2>5, <2>6 DEF Stays
<1>2. CASE x # id
  BY <1>2, MovesTyped DEF Stays
<1> QED
  BY <1>1, <1>2

LEMMA PaymentsStay ==
  ASSUME GatewayInv, [Next]_vars, NEW x \in DOMAIN pays
  PROVE  Stays(x)
<1>1. CASE pays' = pays
  BY <1>1 DEF Stays
<1>2. ASSUME NEW c \in Clients, Shape(c)
      PROVE  Stays(x)
  <2>1. CASE Looked(c)
    BY <1>1, <2>1 DEF Looked
  <2>2. CASE Opened(c)
    BY <2>2, OpenedOne DEF Stays
  <2>3. CASE MovedOne(c)
    <3>1. PICK id \in DOMAIN pays : Moves(id, pays'[id].rec, Mutes(c))
      BY <2>3 DEF MovedOne
    <3>2. Mutes(c) \in BOOLEAN
      BY DEF Mutes
    <3> QED
      BY <3>1, <3>2, MovedStays
  <2> QED
    BY <1>2, <2>1, <2>2, <2>3 DEF Shape
<1>3. ASSUME NEW id \in holds, AsyncHold(id)
      PROVE  Stays(x)
  <2>1. (Plain.action \in Muting) \in BOOLEAN
    OBVIOUS
  <2> QED
    BY <1>1, <1>3, <2>1, AsyncHoldMoves, MovedStays
<1>4. ASSUME NEW S, pays' = Unhidden(S)
      PROVE  Stays(x)
  BY <1>4, UnhiddenTyped DEF Stays
<1>5. ASSUME NEW c \in Clients, NEW req, NEW seen, Asked(c, req, seen)
      PROVE  pays' = pays
  BY <1>5 DEF Asked, Ask, store
<1> QED
  BY <1>1, <1>2, <1>3, <1>4, <1>5, StepCases DEF vars, RunLookup

-----------------------------------------------------------------------------
(* Answers *)

\* What a client is told is what became of its payment.  Three answers promise
\* too much and are excepted by name: of a recurring charge under a 3DS check, of
\* step2 for an order past its check, of a refund that a rule keeps from being
\* made.  Besides them success is told of no payment that has not come to the
\* status promised, nor failure of one that has been opened or moved, nor does
\* step2 touch an order past its check.
THEOREM AnswersMatchPayments == Spec => AnswersAgree
<1>1. ASSUME GatewayInv, [Next]_vars, NEW c \in Clients, Served(c)
      PROVE  LET r == call[c] IN
             /\ last' \in {"ok", "distorted"} /\ Promised(r.req.ep) # Statuses /\ ~Excepted(r)
                  => \E id \in Touched : StatusThen(id) \in Promised(r.req.ep)
             /\ last' = "lost" /\ r.req.ep = "epay_confirm"
                  => \E id \in Touched : StatusThen(id) = "AUTHORIZED"
             /\ last' \in {"refused", "error", "garbled", "ambiguous", "held"} \/ PastCheck(r)
                  => Touched = {} \/ r.rule.action = "epay_late_operation"
             /\ last' = "declined"
                  => \A id \in Touched : StatusThen(id) = "FAILED"
  <2>1. Answered(c) /\ (Looked(c) \/ Opened(c) \/ MovedOne(c))
    BY <1>1, ServedHasShape DEF Shape
  <2>2. CASE Looked(c)
    <3>1. Touched = {}
      BY <2>2 DEF Looked, Touched, Known
    <3> QED
      BY <2>2, <3>1 DEF Looked, Success
  <2>3. CASE Opened(c)
    <3>1. Touched = {NewID}
      BY <1>1, <2>3, OpenedOne DEF Touched, Known
    <3>2. /\ call[c].req.ep \in Openers(bank)
          /\ Success(c) => StatusThen(NewID) \in Promised(call[c].req.ep)
          /\ Failure(c) => call[c].rule.action = "epay_late_operation"
          /\ last' = "declined" => StatusThen(NewID) = "FAILED"
      BY <2>3 DEF Opened, StatusThen
    <3>3. call[c].req.ep # "epay_confirm"
      BY <3>2 DEF Openers, EpayOpeners, FlittOpeners, FreedomOpeners, Wallets
    <3> QED
      BY <3>1, <3>2, <3>3 DEF Success, Failure
  <2>4. CASE MovedOne(c)
    <3>1. PICK id \in DOMAIN pays :
            /\ Moves(id, pays'[id].rec, Mutes(c))
            /\ Success(c) => /\ StatusThen(id) \in Promised(call[c].req.ep)
                             /\ pays'[id].rec # pays[id].rec
            /\ Failure(c) => pays'[id].rec = pays[id].rec
            /\ last' = "declined" => StatusThen(id) = "FAILED"
      BY <2>4 DEF MovedOne, StatusThen
    <3>2. DOMAIN pays' = DOMAIN pays /\ \A x \in DOMAIN pays \ {id} : pays'[x] = pays[x]
      BY <1>1, <3>1, MovedTyped
    <3>3. Touched = IF pays'[id].rec = pays[id].rec THEN {} ELSE {id}
      BY <3>2 DEF Touched, Known
    <3>4. Promised("epay_confirm") = {"AUTHORIZED"}
      BY DEF Promised, Wallets
    <3> QED
      BY <3>1, <3>3, <3>4 DEF Success, Failure
  <2> QED
    BY <2>1, <2>2, <2>3, <2>4
<1>2. GatewayInv /\ [Next]_vars =>
        [\A c \in Clients : Served(c) =>
           LET r == call[c] IN
           /\ last' \in {"ok", "distorted"} /\ Promised(r.req.ep) # Statuses /\ ~Excepted(r)
                => \E id \in Touched : StatusThen(id) \in Promised(r.req.ep)
           /\ last' = "lost" /\ r.req.ep = "epay_confirm"
                => \E id \in Touched : StatusThen(id) = "AUTHORIZED"
           /\ last' \in {"refused", "error", "garbled", "ambiguous", "held"} \/ PastCheck(r)
                => Touched = {} \/ r.rule.action = "epay_late_operation"
           /\ last' = "declined"
                => \A id \in Touched : StatusThen(id) = "FAILED"]_vars
  BY <1>1, Zenon
<1> QED
  BY <1>2, InvariantHolds, PTL DEF Spec, AnswersAgree

\* A decline Epay answers is on record, whichever of its handlers answers it.
THEOREM DeclinesAreOnRecord == Spec => DeclineOnRecord
<1>1. ASSUME GatewayInv, [Next]_vars, NEW c \in Clients
      PROVE  LET r  == call[c]
                 id == IF r.req.id = 0 THEN NewID ELSE r.req.id
             IN  Served(c) /\ bank = "epay" /\ r.rule.action = "force_failure"
                   /\ r.req.ep \in {"epay_cryptopay", "epay_card_auth", "epay_confirm"}
                   /\ last' # "error"
                 => id \in DOMAIN pays' /\ StatusThen(id) = "FAILED"
  <2>1. SUFFICES ASSUME Served(c), DeclinedByRule(c), last' # "error"
                 PROVE  LET id == IF call[c].req.id = 0 THEN NewID ELSE call[c].req.id
                        IN  id \in DOMAIN pays' /\ StatusThen(id) = "FAILED"
    BY DEF DeclinedByRule
  <2>2. Opened(c) \/ MovedOne(c)
    BY <1>1, <2>1, ServedHasShape DEF Shape, Looked
  <2>3. CASE Opened(c)
    BY <2>1, <2>3 DEF Opened, StatusThen
  <2>4. CASE MovedOne(c)
    <3>1. PICK id \in DOMAIN pays :
            /\ Moves(id, pays'[id].rec, Mutes(c))
            /\ StatusThen(id) = "FAILED" /\ call[c].req.id = id /\ id # 0
      BY <2>1, <2>4 DEF MovedOne, StatusThen
    <3> QED
      BY <1>1, <3>1, MovedTyped
  <2> QED
    BY <2>2, <2>3, <2>4
<1>2. GatewayInv /\ [Next]_vars =>
        [\A c \in Clients :
           LET r  == call[c]
               id == IF r.req.id = 0 THEN NewID ELSE r.req.id
           IN  Served(c) /\ bank = "epay" /\ r.rule.action = "force_failure"
                 /\ r.req.ep \in {"epay_cryptopay", "epay_card_auth", "epay_confirm"}
                 /\ last' # "error"
               => id \in DOMAIN pays' /\ StatusThen(id) = "FAILED"]_vars
  BY <1>1, Zenon
<1> QED
  BY <1>2, InvariantHolds, PTL DEF Spec, DeclineOnRecord

\* What check-status has found it can show: an operation that is visible stays
\* visible, and among the visible ones there is a newest.
LEMMA FoundIsShown == Spec => [](GatewayInv /\ FoundShown)
<1>1. Init => FoundShown
  BY DEF Init, FoundShown
<1>2. ASSUME GatewayInv, FoundShown, [Next]_vars
      PROVE  FoundShown'
  <2>1. ASSUME NEW o, Shown(o) # {}
        PROVE  Shown(o)' # {}
    <3>1. PICK id \in DOMAIN pays : pays[id].order = o /\ ~pays[id].hidden
      BY <2>1 DEF Shown
    <3>2. id \in DOMAIN pays' /\ pays'[id].order = o /\ ~pays'[id].hidden
      BY <1>2, <3>1, PaymentsStay DEF Stays
    <3> QED
      BY <3>2 DEF Shown
  <2>2. \A o \in found' \ found : Shown(o) # {}
    <3>1. ASSUME NEW c \in Clients, Shape(c)
          PROVE  \A o \in found' \ found : Shown(o) # {}
      BY <3>1 DEF Shape, Looked, Opened, MovedOne, Moves
    <3> QED
      BY <1>2, <3>1, StepCases DEF vars, Asked, Ask, store, AsyncHold, RunLookup
  <2> QED
    BY <1>2, <2>1, <2>2 DEF FoundShown
<1>3. GatewayInv /\ FoundShown /\ [Next]_vars => FoundShown'
  BY <1>2
<1> QED
  BY <1>1, <1>3, InvariantHolds, PTL DEF Spec

\* An invoice check-status has found it finds again.
THEOREM FoundIsFoundAgain == Spec => FoundStaysFound
<1>1. ASSUME GatewayInv, FoundShown, [Next]_vars, NEW c \in Clients,
             Served(c), call[c].req.ep = "epay_status", call[c].req.order \in found
      PROVE  last' # "error"
  <2>1. Shape(c) /\ Waiting(c)
    BY <1>1, ServedHasShape DEF Served
  <2>2. Fits(bank, call[c].req) /\ bank \in {"epay", "flitt", "freedom"} /\ found \subseteq Orders
    BY <1>1, <2>1 DEF GatewayInv, RequestsFit, Types
  <2>3. bank = "epay"
    BY <1>1, <2>2 DEF Fits, FitsFlitt, FitsFreedom, FlittOpeners, FlittOperations,
                      FreedomOpeners, FreedomOperations, Wallets
  <2>4. FitsEpay(call[c].req)
    BY <2>2, <2>3 DEF Fits
  <2>5. call[c].req.id = 0
    BY <1>1, <2>2, <2>4, OrdersAssumption DEF FitsEpay
  <2>6. Looked(c)
    BY <1>1, <2>1, <2>3 DEF Shape, Opened, MovedOne, Openers, EpayOpeners
  <2>7. Shown(call[c].req.order) # {}
    BY <1>1 DEF FoundShown
  <2> QED
    BY <1>1, <2>5, <2>6, <2>7 DEF Looked
<1>2. (GatewayInv /\ FoundShown) /\ [Next]_vars =>
        [\A c \in Clients :
           Served(c) /\ call[c].req.ep = "epay_status" /\ call[c].req.order \in found
             => last' # "error"]_vars
  BY <1>1, Zenon
<1> QED
  BY <1>2, FoundIsShown, PTL DEF Spec, FoundStaysFound

-----------------------------------------------------------------------------
(* Notifications *)

\* Every note tells a status its payment has been in: the goroutine that reads
\* the payment early, before its operation is stored, tells what it was before.
\* A success is told of no payment under its check and of none that failed, the
\* two notes nobody asked for aside, and a binding of one that is opened.
THEOREM NotesTellTheTruth == Spec => []NotesAreTrue
<1>1. GatewayInv => NotesAreTrue
  BY DEF GatewayInv, Types, About, NotesAreTrue
<1> QED
  BY <1>1, InvariantHolds, PTL

\* What a step makes of the record of a payment that was there.
Became(id) ==
  \/ pays'[id].rec = pays[id].rec
  \/ Succeeds(pays[id].rec, pays'[id].rec)

LEMMA RecordsMove ==
  ASSUME GatewayInv, [Next]_vars, NEW x \in DOMAIN pays
  PROVE  Became(x)
<1>1. CASE pays' = pays
  BY <1>1 DEF Became
<1>2. ASSUME NEW id \in DOMAIN pays, NEW rec, NEW mutes \in BOOLEAN, Moves(id, rec, mutes)
      PROVE  Became(x)
  <2>1. pays'[id].rec = rec /\ \A y \in DOMAIN pays \ {id} : pays'[y] = pays[y]
    BY <1>2, MovesTyped
  <2>2. Succeeds(pays[id].rec, rec)
    BY <1>2 DEF Moves
  <2> QED
    BY <2>1, <2>2 DEF Became
<1>3. ASSUME NEW c \in Clients, Shape(c)
      PROVE  Became(x)
  <2>1. CASE Looked(c)
    BY <1>1, <2>1 DEF Looked
  <2>2. CASE Opened(c)
    BY <2>2, OpenedOne DEF Became
  <2>3. CASE MovedOne(c)
    <3>1. PICK id \in DOMAIN pays : Moves(id, pays'[id].rec, Mutes(c))
      BY <2>3 DEF MovedOne
    <3>2. Mutes(c) \in BOOLEAN
      BY DEF Mutes
    <3> QED
      BY <1>2, <3>1, <3>2
  <2> QED
    BY <1>3, <2>1, <2>2, <2>3 DEF Shape
<1>4. ASSUME NEW id \in holds, AsyncHold(id)
      PROVE  Became(x)
  <2>1. (Plain.action \in Muting) \in BOOLEAN
    OBVIOUS
  <2> QED
    BY <1>1, <1>2, <1>4, <2>1, AsyncHoldMoves
<1>5. ASSUME NEW S, pays' = Unhidden(S)
      PROVE  Became(x)
  BY <1>5, UnhiddenTyped DEF Became
<1>6. ASSUME NEW c \in Clients, NEW req, NEW seen, Asked(c, req, seen)
      PROVE  pays' = pays
  BY <1>6 DEF Asked, Ask, store
<1> QED
  BY <1>1, <1>3, <1>4, <1>5, <1>6, StepCases DEF vars, RunLookup

\* A payment that is there after a step was there before, or was opened in it.
LEMMA PaymentsCome ==
  ASSUME GatewayInv, [Next]_vars, NEW x \in DOMAIN pays', x \notin DOMAIN pays
  PROVE  x = NewID /\ \E c \in Clients : Answered(c) /\ Opened(c)
<1>1. pays' # pays /\ DOMAIN pays' # DOMAIN pays
  OBVIOUS
<1>2. ASSUME NEW id \in DOMAIN pays, NEW rec, NEW mutes \in BOOLEAN, Moves(id, rec, mutes)
      PROVE  FALSE
  BY <1>1, <1>2, MovesTyped
<1>3. ASSUME NEW c \in Clients, Shape(c)
      PROVE  x = NewID /\ Answered(c) /\ Opened(c)
  <2>1. ~Looked(c)
    BY <1>1 DEF Looked
  <2>2. ~MovedOne(c)
    <3>1. SUFFICES ASSUME MovedOne(c)
                   PROVE  FALSE
      OBVIOUS
    <3>2. PICK id \in DOMAIN pays : Moves(id, pays'[id].rec, Mutes(c))
      BY <3>1 DEF MovedOne
    <3>3. Mutes(c) \in BOOLEAN
      BY DEF Mutes
    <3> QED
      BY <1>2, <3>2, <3>3
  <2>3. Opened(c)
    BY <1>3, <2>1, <2>2 DEF Shape
  <2> QED
    BY <1>3, <2>3, OpenedOne DEF Shape
<1>4. ASSUME NEW id \in holds, AsyncHold(id)
      PROVE  FALSE
  <2>1. (Plain.action \in Muting) \in BOOLEAN
    OBVIOUS
  <2> QED
    BY <1>1, <1>2, <1>4, <2>1, AsyncHoldMoves
<1>5. ASSUME NEW S, pays' = Unhidden(S)
      PROVE  FALSE
  BY <1>1, <1>5, UnhiddenTyped
<1>6. ASSUME NEW c \in Clients, NEW req, NEW seen, Asked(c, req, seen)
      PROVE  pays' = pays
  BY <1>6 DEF Asked, Ask, store
<1> QED
  BY <1>1, <1>3, <1>4, <1>5, <1>6, StepCases DEF vars, RunLookup

\* A payment that is still to be held has been nothing that is announced; one
\* that is held has been nothing else of that kind.
LEMMA StatusStoryHolds == Spec => []StatusStory
<1>1. Init => StatusStory
  BY DEF Init, StatusStory
<1>2. ASSUME GatewayInv, StatusStory, [Next]_vars, NEW x \in DOMAIN pays'
      PROVE  LET rec == pays'[x].rec IN
             /\ rec.status \in {"NEW", "HOLD_PENDING"} => rec.history \cap Announceable = {}
             /\ rec.status = "AUTHORIZED" => rec.history \cap Announceable = {"AUTHORIZED"}
  <2>1. CASE x \in DOMAIN pays
    <3> DEFINE old == pays[x].rec
               rec == pays'[x].rec
    <3>1. /\ old.status \in {"NEW", "HOLD_PENDING"} => old.history \cap Announceable = {}
          /\ old.status = "AUTHORIZED" => old.history \cap Announceable = {"AUTHORIZED"}
      BY <1>2, <2>1 DEF StatusStory, Status
    <3>2. rec = old \/ Succeeds(old, rec)
      BY <1>2, <2>1, RecordsMove DEF Became
    <3>3. old.status \in old.history
      BY <1>2, <2>1 DEF GatewayInv, RecordsKeep, Status
    <3> HIDE DEF old, rec
    <3>4. /\ rec.status \in {"NEW", "HOLD_PENDING"} => rec.history \cap Announceable = {}
          /\ rec.status = "AUTHORIZED" => rec.history \cap Announceable = {"AUTHORIZED"}
      <4>1. CASE rec = old
        BY <3>1, <4>1
      <4>2. CASE Succeeds(old, rec) /\ rec.status = old.status
        <5>1. rec.history = old.history
          BY <3>3, <4>2 DEF Succeeds
        <5> QED
          BY <3>1, <4>2, <5>1
      <4>3. CASE Succeeds(old, rec) /\ rec.status # old.status
        BY <3>1, <4>3 DEF Succeeds, Announceable
      <4> QED
        BY <3>2, <4>1, <4>2, <4>3
    <3> QED
      BY <3>4 DEF rec
  <2>2. CASE x \notin DOMAIN pays
    <3>1. PICK c \in Clients : Opened(c)
      BY <1>2, <2>2, PaymentsCome
    <3>2. /\ pays'[x].rec.status \in pays'[x].rec.history
          /\ pays'[x].rec.history \subseteq {"NEW", pays'[x].rec.status}
      BY <1>2, <2>2, <3>1, PaymentsCome DEF Opened
    <3> QED
      BY <3>2 DEF Announceable
  <2> QED
    BY <2>1, <2>2
<1>3. GatewayInv /\ StatusStory /\ [Next]_vars => StatusStory'
  BY <1>2 DEF StatusStory, Status
<1> QED
  BY <1>1, <1>3, InvariantHolds, PTL DEF Spec

\* Every status of a payment that is announced has been.
AllAnnounced(id) ==
  \A s \in pays[id].rec.history \cap Announceable :
    /\ AutoWebhook /\ bank = "epay" /\ pays[id].kind = "pay" /\ ~pays[id].muted
       => Cardinality(OwnNotes(id, s)) = 1
    /\ AutoWebhook /\ bank = "flitt" => OwnNotes(id, s) # {}

OwnThen(id, s) == Copies(notes', id, s, "success")

LEMMA SameSaid ==
  ASSUME NEW N, NEW M, Said(N) = Said(M), NEW id, NEW s
  PROVE  Copies(N, id, s, "success") = Copies(M, id, s, "success")
  BY CopiesAreSaid

\* A payment that comes to no status anew needs no other note.
LEMMA StaysAnnounced ==
  ASSUME NEW x \in DOMAIN pays, AllAnnounced(x), bank' = bank,
         pays'[x].rec.history \cap Announceable \subseteq pays[x].rec.history,
         pays'[x].kind = pays[x].kind, pays[x].muted => pays'[x].muted,
         \A s : /\ OwnNotes(x, s) \subseteq OwnThen(x, s)
                /\ bank = "epay" => OwnThen(x, s) = OwnNotes(x, s)
  PROVE  AllAnnounced(x)'
<1>1. SUFFICES ASSUME NEW s \in pays'[x].rec.history \cap Announceable
               PROVE  /\ AutoWebhook /\ bank = "epay" /\ pays'[x].kind = "pay" /\ ~pays'[x].muted
                           => Cardinality(OwnThen(x, s)) = 1
                      /\ AutoWebhook /\ bank = "flitt" => OwnThen(x, s) # {}
  BY DEF AllAnnounced, OwnNotes, OwnThen
<1>2. s \in pays[x].rec.history \cap Announceable
  BY <1>1
<1>3. /\ AutoWebhook /\ bank = "epay" /\ pays[x].kind = "pay" /\ ~pays[x].muted
           => Cardinality(OwnNotes(x, s)) = 1
      /\ AutoWebhook /\ bank = "flitt" => OwnNotes(x, s) # {}
  BY <1>2 DEF AllAnnounced
<1>4. OwnNotes(x, s) \subseteq OwnThen(x, s) /\ (bank = "epay" => OwnThen(x, s) = OwnNotes(x, s))
  OBVIOUS
<1> QED
  BY <1>3, <1>4

\* What is said of one payment is not said of another.
LEMMA OthersUnsaid ==
  ASSUME NEW id, NEW s, NothingSaid \/ \E times \in 1 .. 2 : SaidOf(id, s, times),
         NEW x, NEW t, NothingSaid \/ x # id \/ t # s
  PROVE  OwnThen(x, t) = OwnNotes(x, t)
<1>1. CASE NothingSaid
  BY <1>1, SameSaid DEF NothingSaid, OwnThen, OwnNotes
<1>2. ASSUME NEW times \in 1 .. 2, SaidOf(id, s, times), x # id \/ t # s
      PROVE  OwnThen(x, t) = OwnNotes(x, t)
  <2>1. OwnThen(x, t) = Copies(Noted(notes, id, s, "success", times), x, t, "success")
    BY <1>2, SameSaid DEF SaidOf, OwnThen
  <2> QED
    BY <1>2, <2>1, NotedOthers DEF OwnNotes
<1> QED
  BY <1>1, <1>2

\* The first that is said of a payment in a status.
LEMMA SaidFirst ==
  ASSUME NEW id, NEW s, NEW times \in 1 .. 2, SaidOf(id, s, times), OwnNotes(id, s) = {}
  PROVE  OwnThen(id, s) # {} /\ (times = 1 => Cardinality(OwnThen(id, s)) = 1)
<1>1. OwnThen(id, s) = Copies(Noted(notes, id, s, "success", times), id, s, "success")
  BY SameSaid DEF SaidOf, OwnThen
<1> QED
  BY <1>1, NotedFirst DEF OwnNotes

LEMMA OpenedAnnounced ==
  ASSUME GatewayInv, EveryMoveAnnounced, NEW c \in Clients, Answered(c), Opened(c),
         NEW x \in DOMAIN pays'
  PROVE  AllAnnounced(x)'
<1>1. bank' = bank /\ bank \in {"epay", "flitt", "freedom"}
  BY DEF Answered, GatewayInv, Types
<1>2. NothingSaid \/ \E times \in 1 .. 2 : SaidOf(NewID, "AUTHORIZED", times)
  BY DEF Opened
<1>3. CASE x \in DOMAIN pays
  <2>1. pays'[x] = pays[x] /\ x # NewID
    BY <1>3, OpenedOne
  <2>2. \A s : OwnThen(x, s) = OwnNotes(x, s)
    BY <1>2, <2>1, OthersUnsaid
  <2>3. AllAnnounced(x)
    BY <1>3 DEF EveryMoveAnnounced, AllAnnounced
  <2> QED
    BY <1>1, <1>3, <2>1, <2>2, <2>3, StaysAnnounced
<1>4. CASE x \notin DOMAIN pays
  <2>1. x = NewID
    BY <1>4, OpenedOne
  <2>2. \A s : OwnNotes(x, s) = {}
    BY <1>4 DEF OwnNotes, Copies, GatewayInv, Types, About
  <2> DEFINE p == pays'[x]
  <2>3. /\ p.rec.history \subseteq {"NEW", p.rec.status}
        /\ \/ /\ NothingSaid
              /\ AutoWebhook /\ bank # "freedom" /\ p.rec.status \in Announceable
                   => bank = "epay" /\ (p.muted \/ p.kind = "bind")
           \/ /\ p.rec.status = "AUTHORIZED"
              /\ \E times \in 1 .. 2 : SaidOf(x, "AUTHORIZED", times) /\ (times = 2 => p.muted)
    BY <2>1 DEF Opened
  <2> HIDE DEF p
  <2>4. ASSUME NEW s \in p.rec.history \cap Announceable
        PROVE  /\ AutoWebhook /\ bank = "epay" /\ p.kind = "pay" /\ ~p.muted
                    => Cardinality(OwnThen(x, s)) = 1
               /\ AutoWebhook /\ bank = "flitt" => OwnThen(x, s) # {}
    <3>1. s = p.rec.status
      BY <2>3, <2>4 DEF Announceable
    <3>2. CASE AutoWebhook /\ bank # "freedom" => bank = "epay" /\ (p.muted \/ p.kind = "bind")
      BY <3>2
    <3>3. ASSUME NEW times \in 1 .. 2, p.rec.status = "AUTHORIZED",
                 SaidOf(x, "AUTHORIZED", times), times = 2 => p.muted
          PROVE  /\ ~p.muted => Cardinality(OwnThen(x, s)) = 1
                 /\ OwnThen(x, s) # {}
      <4>1. SaidOf(x, s, times) /\ OwnNotes(x, s) = {}
        BY <2>2, <3>1, <3>3
      <4>2. OwnThen(x, s) # {} /\ (times = 1 => Cardinality(OwnThen(x, s)) = 1)
        BY <4>1, SaidFirst
      <4> QED
        BY <3>3, <4>2
    <3> QED
      BY <2>3, <2>4, <3>1, <3>2, <3>3
  <2> QED
    BY <1>1, <2>4 DEF AllAnnounced, OwnNotes, OwnThen, p
<1> QED
  BY <1>3, <1>4

\* A status a payment comes to that is announced it has not been in before.
LEMMA FreshStatus ==
  ASSUME GatewayInv, StatusStory, NotesAreTrue, NEW id \in DOMAIN pays, NEW rec,
         Succeeds(pays[id].rec, rec), rec.status # Status(id), rec.status \in Announceable
  PROVE  OwnNotes(id, rec.status) = {}
<1>1. rec.status \notin pays[id].rec.history
  BY DEF Succeeds, StatusStory, Status, Announceable
<1> QED
  BY <1>1 DEF NotesAreTrue, Tells, OwnNotes, Copies

LEMMA MovedAnnounced ==
  ASSUME GatewayInv, StatusStory, NotesAreTrue, EveryMoveAnnounced,
         NEW c \in Clients, Answered(c), MovedOne(c), NEW x \in DOMAIN pays
  PROVE  AllAnnounced(x)'
<1>1. bank' = bank /\ bank \in {"epay", "flitt", "freedom"}
  BY DEF Answered, GatewayInv, Types
<1>2. AllAnnounced(x)
  BY DEF EveryMoveAnnounced, AllAnnounced
<1>3. PICK id \in DOMAIN pays :
        LET rec == pays'[id].rec IN
        /\ Moves(id, rec, Mutes(c))
        /\ \/ /\ NothingSaid
              /\ AutoWebhook /\ bank # "freedom"
                   /\ rec.status \in Announceable /\ rec.status # Status(id)
                   => bank = "epay" /\ Mutes(c)
           \/ /\ rec.status \notin {"NEW", "FAILED"}
              /\ bank = "epay" /\ rec.status \in Announceable => rec.status # Status(id)
              /\ \E times \in 1 .. 2 : SaidOf(id, rec.status, times) /\ (times = 2 => Mutes(c))
  BY DEF MovedOne
<1> DEFINE rec == pays'[id].rec
<1>4. /\ pays'[id].kind = pays[id].kind
      /\ \A y \in DOMAIN pays \ {id} : pays'[y] = pays[y]
  BY <1>3, MovedTyped
<1>5. pays'[id].muted <=> pays[id].muted \/ Mutes(c)
  BY <1>3, MovedTyped
<1>6. Succeeds(pays[id].rec, rec) /\ Status(id) \in pays[id].rec.history
  BY <1>3 DEF Moves, GatewayInv, RecordsKeep
<1>7. NothingSaid \/ \E times \in 1 .. 2 : SaidOf(id, rec.status, times)
  BY <1>3
<1> HIDE DEF rec
<1>8. CASE x # id
  <2>1. \A s : OwnThen(x, s) = OwnNotes(x, s)
    BY <1>7, <1>8, OthersUnsaid
  <2> QED
    BY <1>1, <1>2, <1>4, <1>8, <2>1, StaysAnnounced
<1>9. CASE x = id /\ NothingSaid
  <2>1. \A s : OwnThen(x, s) = OwnNotes(x, s)
    BY <1>7, <1>9, OthersUnsaid
  <2>2. CASE rec.status \in Announceable /\ rec.status # Status(id)
    <3>1. CASE ~AutoWebhook \/ bank = "freedom"
      BY <1>1, <3>1 DEF AllAnnounced
    <3>2. CASE AutoWebhook /\ bank # "freedom"
      <4>1. SaidOf(id, rec.status, 1) \/ SaidOf(id, rec.status, 2) \/ (bank = "epay" /\ Mutes(c))
        BY <1>3, <2>2, <3>2 DEF rec
      <4>2. CASE bank = "epay" /\ Mutes(c)
        BY <1>1, <1>5, <1>9, <4>2 DEF AllAnnounced
      <4>3. ASSUME NEW times \in 1 .. 2, SaidOf(id, rec.status, times)
            PROVE  FALSE
        <5>1. OwnThen(id, rec.status) # {}
          BY <1>6, <2>2, <4>3, FreshStatus, SaidFirst
        <5>2. OwnThen(id, rec.status) = {}
          BY <1>6, <1>9, <2>1, <2>2, FreshStatus
        <5> QED
          BY <5>1, <5>2
      <4> QED
        BY <4>1, <4>2, <4>3
    <3> QED
      BY <3>1, <3>2
  <2>3. CASE ~(rec.status \in Announceable /\ rec.status # Status(id))
    <3>1. rec.history \cap Announceable \subseteq pays[id].rec.history
      BY <1>6, <2>3 DEF Succeeds
    <3> QED
      BY <1>1, <1>2, <1>4, <1>5, <1>9, <2>1, <3>1, StaysAnnounced DEF rec
  <2> QED
    BY <2>2, <2>3
<1>10. CASE x = id /\ ~NothingSaid
  <2>1. PICK times \in 1 .. 2 : SaidOf(id, rec.status, times) /\ (times = 2 => Mutes(c))
    BY <1>3, <1>10 DEF rec
  <2>2. bank = "epay" /\ rec.status \in Announceable => rec.status # Status(id)
    BY <1>3, <1>10 DEF rec
  <2>3. ASSUME NEW s \in rec.history \cap Announceable
        PROVE  /\ AutoWebhook /\ bank = "epay" /\ pays'[x].kind = "pay" /\ ~pays'[x].muted
                    => Cardinality(OwnThen(x, s)) = 1
               /\ AutoWebhook /\ bank = "flitt" => OwnThen(x, s) # {}
    <3>1. s \in pays[x].rec.history =>
            /\ AutoWebhook /\ bank = "epay" /\ pays[x].kind = "pay" /\ ~pays[x].muted
                 => Cardinality(OwnNotes(x, s)) = 1
            /\ AutoWebhook /\ bank = "flitt" => OwnNotes(x, s) # {}
      BY <1>2, <2>3 DEF AllAnnounced
    <3>2. CASE s # rec.status
      <4>1. s \in pays[x].rec.history
        BY <1>6, <1>10, <2>3, <3>2 DEF Succeeds
      <4>2. OwnThen(x, s) = OwnNotes(x, s)
        BY <1>7, <3>2, OthersUnsaid
      <4> QED
        BY <1>4, <1>5, <1>10, <3>1, <4>1, <4>2
    <3>3. CASE s = rec.status /\ rec.status # Status(id)
      <4>1. OwnNotes(id, rec.status) = {}
        BY <1>6, <2>3, <3>3, FreshStatus
      <4>2. OwnThen(id, rec.status) # {}
              /\ (times = 1 => Cardinality(OwnThen(id, rec.status)) = 1)
        BY <2>1, <4>1, SaidFirst
      <4> QED
        BY <1>5, <1>10, <2>1, <3>3, <4>2
    <3>4. CASE s = rec.status /\ rec.status = Status(id)
      <4>1. bank # "epay"
        BY <2>2, <2>3, <3>4
      <4>2. s \in pays[x].rec.history
        BY <1>6, <1>10, <3>4
      <4>3. OwnThen(x, s) = Copies(Noted(notes, id, rec.status, "success", times), x, s, "success")
        BY <2>1, SameSaid DEF SaidOf, OwnThen
      <4>4. OwnNotes(x, s) \subseteq OwnThen(x, s)
        BY <4>3, NotedKeeps DEF OwnNotes
      <4> QED
        BY <3>1, <4>1, <4>2, <4>4
    <3> QED
      BY <3>2, <3>3, <3>4
  <2> QED
    BY <1>1, <1>10, <2>3 DEF AllAnnounced, OwnNotes, OwnThen, rec
<1> QED
  BY <1>8, <1>9, <1>10

\* Every hold, capture and cancellation is announced, but where a rule or the
\* bank's switch keeps it silent: at Epay once, at Flitt at least once.
THEOREM MovesAreAnnounced == Spec => []EveryMoveAnnounced
<1>1. Init => EveryMoveAnnounced
  BY DEF Init, EveryMoveAnnounced
<1>2. ASSUME GatewayInv, StatusStory, NotesAreTrue, EveryMoveAnnounced, [Next]_vars,
             NEW x \in DOMAIN pays'
      PROVE  AllAnnounced(x)'
  <2>1. ASSUME x \in DOMAIN pays, NothingSaid, bank' = bank,
               pays'[x].rec = pays[x].rec, pays'[x].kind = pays[x].kind,
               pays[x].muted => pays'[x].muted
        PROVE  AllAnnounced(x)'
    <3>1. \A s : OwnThen(x, s) = OwnNotes(x, s)
      BY <2>1, SameSaid DEF NothingSaid, OwnThen, OwnNotes
    <3>2. AllAnnounced(x)
      BY <1>2, <2>1 DEF EveryMoveAnnounced, AllAnnounced
    <3> QED
      BY <2>1, <3>1, <3>2, StaysAnnounced
  <2>2. ASSUME pays' = pays, NothingSaid, bank' = bank
        PROVE  AllAnnounced(x)'
    BY <2>1, <2>2
  <2>3. ASSUME NEW c \in Clients, Shape(c)
        PROVE  AllAnnounced(x)'
    <3>1. Answered(c) /\ bank' = bank
      BY <2>3 DEF Shape, Answered
    <3>2. CASE Looked(c)
      BY <2>2, <3>1, <3>2 DEF Looked
    <3>3. CASE Opened(c)
      BY <1>2, <3>1, <3>3, OpenedAnnounced
    <3>4. CASE MovedOne(c)
      <4>1. x \in DOMAIN pays
        <5>1. PICK id \in DOMAIN pays : Moves(id, pays'[id].rec, Mutes(c))
          BY <3>4 DEF MovedOne
        <5> QED
          BY <1>2, <5>1, MovedTyped
      <4> QED
        BY <1>2, <3>1, <3>4, <4>1, MovedAnnounced
    <3> QED
      BY <2>3, <3>2, <3>3, <3>4 DEF Shape
  <2>4. ASSUME NEW id \in holds, AsyncHold(id)
        PROVE  AllAnnounced(x)'
    <3>1. bank = "freedom" /\ bank' = bank
      BY <1>2, <2>4 DEF AsyncHold, GatewayInv, Types
    <3> QED
      BY <3>1 DEF AllAnnounced
  <2>5. ASSUME NEW S, pays' = Unhidden(S), notes' = notes, bank' = bank
        PROVE  AllAnnounced(x)'
    BY <1>2, <2>1, <2>5, UnhiddenTyped DEF NothingSaid
  <2>6. ASSUME NEW c \in Clients, NEW req, NEW seen, Asked(c, req, seen)
        PROVE  AllAnnounced(x)'
    BY <2>2, <2>6 DEF Asked, Ask, store, NothingSaid
  <2>7. ASSUME NEW l \in due, RunLookup(l)
        PROVE  AllAnnounced(x)'
    BY <1>2, <2>2, <2>7, RunLookupNotes
  <2>8. CASE UNCHANGED vars
    BY <2>2, <2>8 DEF vars, NothingSaid
  <2> QED
    BY <1>2, <2>3, <2>4, <2>5, <2>6, <2>7, <2>8, StepCases
<1>3. GatewayInv /\ StatusStory /\ NotesAreTrue /\ EveryMoveAnnounced /\ [Next]_vars
        => EveryMoveAnnounced'
  BY <1>2 DEF EveryMoveAnnounced, AllAnnounced
<1> QED
  BY <1>1, <1>3, InvariantHolds, StatusStoryHolds, NotesTellTheTruth, PTL DEF Spec

-----------------------------------------------------------------------------
(* Transient failures *)

\* The requests under way under rule number no, and those it is to refuse.
CopiesOf(no)    == {c \in Clients : call[c].rule.no = no}
FirstCopies(no) == {c \in CopiesOf(no) : call[c].rule.hits = 1}

\* What has become of the requests under the rule of an entry of the book.
EntryStory(e) ==
  /\ e.no \in DOMAIN failed /\ e.no # 0
  /\ \A c \in CopiesOf(e.no) :
       call[c].rule.action = e.rule.action /\ call[c].rule.hits \in 1 .. e.hits
  /\ e.rule.action = "transient_failure" =>
       /\ bank # "freedom" /\ e.rule.endpoint \notin {"", Wild, "epay_token"}
       /\ e.hits = 0 => failed[e.no] = 0
       /\ e.hits > 0 => \/ failed[e.no] = 1 /\ FirstCopies(e.no) = {}
                        \/ failed[e.no] = 0 /\ \E c \in Clients : FirstCopies(e.no) = {c}

CopyStory(c) ==
  /\ call[c].rule.action = "transient_failure" => bank # "freedom" /\ call[c].req.ep # "epay_token"
  /\ ~Waiting(c) => call[c].rule.no = 0

Entries  == {book[i] : i \in DOMAIN book}
NosApart == \A i, j \in DOMAIN book : i # j => book[i].no # book[j].no

TransientInv ==
  /\ NosApart
  /\ \A e \in Entries : EntryStory(e)
  /\ \A c \in Clients : CopyStory(c)

\* A request that is answered is refused if its rule is to refuse it.
LEMMA AnsweredTransient ==
  ASSUME GatewayInv, TransientInv, NEW c \in Clients, Answered(c)
  PROVE  TransientInv'
<1>1. /\ call' = [call EXCEPT ![c] = Idle] /\ call \in [Clients -> CallType]
      /\ bank' = bank /\ book' = book /\ failed \in Seq(Nat)
  BY DEF Answered, GatewayInv, Types
<1>2. Idle.req = NoReq /\ Idle.rule.no = 0 /\ Idle.rule.action # "transient_failure"
  BY IdleTyped DEF Plain
<1>3. call'[c] = Idle /\ \A x \in Clients \ {c} : call'[x] = call[x]
  BY <1>1
<1>4. NosApart'
  BY <1>1 DEF TransientInv, NosApart
<1>5. \A x \in Clients : CopyStory(x)'
  BY <1>1, <1>2, <1>3 DEF TransientInv, CopyStory, Waiting
<1>6. ASSUME NEW e \in EntryType, EntryStory(e)
      PROVE  EntryStory(e)'
  <2>1. PICK no \in Nat : no = e.no /\ no # 0 /\ no \in DOMAIN failed
    BY <1>6 DEF EntryStory, EntryType
  <2>2. CopiesOf(no)' = CopiesOf(no) \ {c} /\ FirstCopies(no)' = FirstCopies(no) \ {c}
    BY <1>2, <1>3, <2>1 DEF CopiesOf, FirstCopies
  <2>3. DOMAIN failed' = DOMAIN failed
    BY DEF Answered
  <2>4. \A x \in CopiesOf(no)' :
          call'[x].rule.action = e.rule.action /\ call'[x].rule.hits \in 1 .. e.hits
    BY <1>3, <1>6, <2>1, <2>2 DEF EntryStory, CopiesOf
  <2>5. ASSUME e.rule.action = "transient_failure"
        PROVE  /\ e.hits = 0 => failed'[no] = 0
               /\ e.hits > 0 => \/ failed'[no] = 1 /\ FirstCopies(no)' = {}
                                \/ failed'[no] = 0 /\ \E x \in Clients : FirstCopies(no)' = {x}
    <3>1. /\ e.hits = 0 => failed[no] = 0
          /\ e.hits > 0 => \/ failed[no] = 1 /\ FirstCopies(no) = {}
                           \/ failed[no] = 0 /\ \E x \in Clients : FirstCopies(no) = {x}
          /\ \A x \in CopiesOf(no) :
               call[x].rule.action = e.rule.action /\ call[x].rule.hits \in 1 .. e.hits
      BY <1>6, <2>1, <2>5 DEF EntryStory
    <3>2. e.hits \in Nat
      BY LimitAssumption DEF EntryType
    <3>3. CASE c \in FirstCopies(no)
      <4>1. call[c].rule.no = no /\ call[c].rule.hits = 1 /\ c \in CopiesOf(no)
        BY <3>3 DEF FirstCopies, CopiesOf
      <4>2. call[c].rule.action = "transient_failure" /\ e.hits > 0
        BY <2>5, <3>1, <3>2, <4>1
      <4>3. RefusedFirst(c)
        BY <4>1, <4>2 DEF TransientInv, CopyStory, RefusedFirst, Transient
      <4>4. failed' = [failed EXCEPT ![no] = @ + 1]
        BY <4>1, <4>3 DEF Answered
      <4>5. failed[no] = 0 /\ FirstCopies(no) = {c}
        BY <3>1, <3>3, <4>2
      <4>6. failed'[no] = 1
        BY <1>1, <2>1, <4>4, <4>5
      <4> QED
        BY <2>2, <3>2, <4>2, <4>5, <4>6
    <3>4. CASE c \notin FirstCopies(no)
      <4>1. FirstCopies(no)' = FirstCopies(no)
        BY <2>2, <3>4
      <4>2. failed'[no] = failed[no]
        <5>1. CASE RefusedFirst(c)
          <6>1. call[c].rule.no # no
            BY <3>4, <5>1 DEF RefusedFirst, Transient, FirstCopies, CopiesOf
          <6>2. failed' = [failed EXCEPT ![call[c].rule.no] = @ + 1]
            BY <5>1 DEF Answered
          <6> QED
            BY <2>1, <6>1, <6>2
        <5>2. CASE ~RefusedFirst(c)
          BY <5>2 DEF Answered
        <5> QED
          BY <5>1, <5>2
      <4> QED
        BY <3>1, <4>1, <4>2
    <3> QED
      BY <3>3, <3>4
  <2>6. e.rule.action = "transient_failure"
          => bank' # "freedom" /\ e.rule.endpoint \notin {"", Wild, "epay_token"}
    BY <1>1, <1>6 DEF EntryStory
  <2> QED
    BY <2>1, <2>3, <2>4, <2>5, <2>6 DEF EntryStory
<1>7. \A e \in Entries' : e \in Entries /\ e \in EntryType
  BY <1>1, EntryTyped DEF Entries, GatewayInv
<1>8. \A e \in Entries' : EntryStory(e)'
  BY <1>6, <1>7 DEF TransientInv
<1> QED
  BY <1>4, <1>5, <1>8 DEF TransientInv

\* A rule that has matched is taken out of the book, or is counted in its place;
\* the others stay.
LEMMA MatchedEntries ==
  ASSUME GatewayInv, NosApart, NEW i \in DOMAIN book, book[i].hits < MaxHits,
         book' = AfterMatch(i)
  PROVE  /\ NosApart'
         /\ \A e \in Entries' : \/ e \in Entries /\ e.no # book[i].no
                                \/ e = Hit(book[i])
<1>1. book \in Seq(EntryType) /\ i \in 1 .. Len(book) /\ book[i] \in EntryType
  BY EntryTyped DEF GatewayInv, Types
<1>2. PICK n \in Nat : n = Len(book) /\ DOMAIN book = 1 .. n
  BY <1>1
<1>3. CASE book' = Without(book, i)
  <2>1. /\ DOMAIN book' = 1 .. (n - 1)
        /\ \A k \in 1 .. (n - 1) : book'[k] = IF k < i THEN book[k] ELSE book[k + 1]
    <3>1. /\ DOMAIN Without(book, i) = 1 .. (Len(book) - 1)
          /\ \A k \in 1 .. (Len(book) - 1) :
               Without(book, i)[k] = IF k < i THEN book[k] ELSE book[k + 1]
      BY <1>1, WithoutTyped
    <3>2. PICK b : b = Without(book, i)
      OBVIOUS
    <3>3. book' = b
      BY <1>3, <3>2
    <3>4. /\ DOMAIN b = 1 .. (n - 1)
          /\ \A k \in 1 .. (n - 1) : b[k] = IF k < i THEN book[k] ELSE book[k + 1]
      BY <1>2, <3>1, <3>2
    <3> QED
      BY <3>3, <3>4
  <2>2. ASSUME NEW k \in 1 .. (n - 1)
        PROVE  \E j \in DOMAIN book : j # i /\ book'[k] = book[j]
                                      /\ j = IF k < i THEN k ELSE k + 1
    <3>1. CASE k < i
      BY <1>1, <1>2, <2>1, <3>1
    <3>2. CASE ~(k < i)
      BY <1>1, <1>2, <2>1, <3>2
    <3> QED
      BY <3>1, <3>2
  <2>3. ASSUME NEW k \in 1 .. (n - 1), NEW l \in 1 .. (n - 1), k # l
        PROVE  book'[k].no # book'[l].no
    <3>1. PICK j \in DOMAIN book : book'[k] = book[j] /\ j = IF k < i THEN k ELSE k + 1
      BY <2>2
    <3>2. PICK m \in DOMAIN book : book'[l] = book[m] /\ m = IF l < i THEN l ELSE l + 1
      BY <2>2
    <3>3. j # m
      BY <1>1, <1>2, <2>3, <3>1, <3>2
    <3> QED
      BY <3>1, <3>2, <3>3 DEF NosApart
  <2>4. NosApart'
    BY <2>1, <2>3 DEF NosApart
  <2>5. ASSUME NEW e \in Entries'
        PROVE  e \in Entries /\ e.no # book[i].no
    <3>1. PICK k \in 1 .. (n - 1) : e = book'[k]
      BY <2>1 DEF Entries
    <3>2. PICK j \in DOMAIN book : j # i /\ book'[k] = book[j]
      BY <2>2
    <3> QED
      BY <3>1, <3>2 DEF Entries, NosApart
  <2> QED
    BY <2>4, <2>5
<1>4. CASE book' = [book EXCEPT ![i] = Hit(@)]
  <2>1. PICK h : h = Hit(book[i]) /\ h.no = book[i].no
    BY <1>1, HitTyped
  <2>2. book' = [book EXCEPT ![i] = h]
    BY <1>4, <2>1
  <2>3. /\ DOMAIN book' = DOMAIN book /\ book'[i] = h
        /\ \A j \in DOMAIN book \ {i} : book'[j] = book[j]
    BY <1>1, <2>2
  <2>4. \A j \in DOMAIN book : book'[j].no = book[j].no
    BY <2>1, <2>3
  <2>5. NosApart'
    BY <2>3, <2>4 DEF NosApart
  <2>6. \A j \in DOMAIN book \ {i} : book'[j] \in Entries /\ book'[j].no # book[i].no
    BY <2>3 DEF Entries, NosApart
  <2> QED
    BY <2>1, <2>3, <2>5, <2>6 DEF Entries
<1> QED
  BY <1>3, <1>4 DEF AfterMatch

\* A request that comes in leaves the story of a rule it has not taken as it is.
LEMMA OthersStory ==
  ASSUME GatewayInv, NEW c \in Clients, NEW call1, call' = [call EXCEPT ![c] = call1],
         UNCHANGED <<bank, failed>>,
         NEW e, EntryStory(e), call[c].rule.no # e.no, call1.rule.no # e.no
  PROVE  EntryStory(e)'
<1>1. call'[c] = call1 /\ \A x \in Clients \ {c} : call'[x] = call[x]
  BY DEF GatewayInv, Types
<1>2. CopiesOf(e.no)' = CopiesOf(e.no) /\ FirstCopies(e.no)' = FirstCopies(e.no)
  BY <1>1 DEF CopiesOf, FirstCopies
<1>3. \A x \in CopiesOf(e.no) : call'[x] = call[x]
  BY <1>1 DEF CopiesOf
<1> QED
  BY <1>2, <1>3 DEF EntryStory

\* A request that takes a rule is the one that rule refuses if it is the first.
LEMMA TakersStory ==
  ASSUME GatewayInv, NEW c \in Clients, NEW call1, call' = [call EXCEPT ![c] = call1],
         UNCHANGED <<bank, failed>>,
         NEW e \in EntryType, EntryStory(e), call[c].rule.no # e.no,
         e.hits < MaxHits, call1.rule = Taken(e)
  PROVE  EntryStory(Hit(e))'
<1>1. call'[c] = call1 /\ \A x \in Clients \ {c} : call'[x] = call[x]
  BY DEF GatewayInv, Types
<1>2. /\ Hit(e).rule = e.rule /\ Hit(e).no = e.no /\ Hit(e).hits = e.hits + 1
      /\ call1.rule.action = e.rule.action /\ call1.rule.no = e.no
      /\ call1.rule.hits = e.hits + 1
  BY HitTyped
<1>3. PICK h : h = Hit(e)
  OBVIOUS
<1>4. PICK n \in Nat : n = e.hits
  BY LimitAssumption DEF EntryType
<1>5. PICK no : no = e.no
  OBVIOUS
<1>6. CopiesOf(no)' = CopiesOf(no) \cup {c} /\ c \notin CopiesOf(no)
  BY <1>1, <1>2, <1>5 DEF CopiesOf
<1>7. \A x \in CopiesOf(no) : call'[x] = call[x]
  BY <1>1, <1>6
<1>8. \A x \in CopiesOf(no) : call[x].rule.action = e.rule.action /\ call[x].rule.hits \in 1 .. n
  BY <1>4, <1>5 DEF EntryStory
<1>9. \A x \in CopiesOf(no)' :
        call'[x].rule.action = e.rule.action /\ call'[x].rule.hits \in 1 .. (n + 1)
  BY <1>1, <1>2, <1>4, <1>6, <1>7, <1>8
<1>10. ASSUME e.rule.action = "transient_failure"
       PROVE  /\ bank' # "freedom" /\ e.rule.endpoint \notin {"", Wild, "epay_token"}
              /\ \/ failed'[no] = 1 /\ FirstCopies(no)' = {}
                 \/ failed'[no] = 0 /\ \E x \in Clients : FirstCopies(no)' = {x}
  <2>1. /\ bank # "freedom" /\ e.rule.endpoint \notin {"", Wild, "epay_token"}
        /\ n = 0 => failed[no] = 0
        /\ n > 0 => \/ failed[no] = 1 /\ FirstCopies(no) = {}
                    \/ failed[no] = 0 /\ \E x \in Clients : FirstCopies(no) = {x}
    BY <1>4, <1>5, <1>10 DEF EntryStory
  <2>2. bank' = bank /\ failed' = failed
    OBVIOUS
  <2>3. n = 0 \/ n > 0
    BY <1>4
  <2>4. CASE n = 0
    <3>1. CopiesOf(no) = {}
      BY <1>8, <2>4
    <3>2. FirstCopies(no)' = {c}
      BY <1>1, <1>2, <1>4, <1>6, <2>4, <3>1 DEF FirstCopies
    <3> QED
      BY <2>1, <2>2, <2>4, <3>2
  <2>5. CASE n > 0
    <3>1. FirstCopies(no)' = FirstCopies(no)
      BY <1>1, <1>2, <1>4, <1>6, <1>7, <2>5 DEF FirstCopies
    <3> QED
      BY <2>1, <2>2, <2>5, <3>1
  <2> QED
    BY <2>3, <2>4, <2>5, Zenon
<1>11. h.rule = e.rule /\ h.no = no /\ h.hits = n + 1 /\ n + 1 > 0 /\ n + 1 # 0
  BY <1>2, <1>3, <1>4, <1>5
<1>12. failed' = failed /\ no \in DOMAIN failed /\ no # 0
  BY <1>5 DEF EntryStory
<1>13. EntryStory(h)'
  BY <1>9, <1>10, <1>11, <1>12 DEF EntryStory
<1> QED
  BY <1>3, <1>13

LEMMA AskedTransient ==
  ASSUME GatewayInv, TransientInv, NEW c \in Clients, NEW req, NEW seen, Asked(c, req, seen)
  PROVE  TransientInv'
<1>1. /\ ~Waiting(c) /\ Ask(c, req, seen) /\ seen.endpoint = req.ep /\ Fits(bank, req)
      /\ UNCHANGED <<bank, failed>> /\ call \in [Clients -> CallType]
      /\ bank \in {"epay", "flitt", "freedom"}
  BY AskTyped DEF Asked, GatewayInv, Types
<1>2. req # NoReq
  <2>1. req.ep # "none"
    BY <1>1 DEF Fits, FitsEpay, FitsFlitt, FitsFreedom, EpayEndpoints, FlittOpeners,
                FlittOperations, FreedomOpeners, FreedomOperations, Wallets
  <2> QED
    BY <2>1, IdleTyped
<1>3. call[c].rule.no = 0 /\ \A e \in Entries : e.no # 0
  BY <1>1 DEF TransientInv, CopyStory, EntryStory
<1>4. ASSUME NEW call1, call' = [call EXCEPT ![c] = call1], call1.req = req,
             call1.rule.action = "transient_failure"
               => bank # "freedom" /\ req.ep # "epay_token"
      PROVE  \A x \in Clients : CopyStory(x)'
  <2>1. call'[c] = call1 /\ \A x \in Clients \ {c} : call'[x] = call[x]
    BY <1>1, <1>4
  <2>2. CopyStory(c)'
    BY <1>1, <1>2, <1>4, <2>1 DEF CopyStory, Waiting
  <2>3. \A x \in Clients \ {c} : CopyStory(x)'
    BY <1>1, <2>1 DEF TransientInv, CopyStory, Waiting
  <2> QED
    BY <2>2, <2>3
<1>5. CASE book' = book /\ call' = [call EXCEPT ![c] = [Idle EXCEPT !.req = req]]
  <2>1. PICK call1 : call1 = [Idle EXCEPT !.req = req]
    OBVIOUS
  <2>2. call1.req = req /\ call1.rule = Plain
    BY <2>1 DEF Idle
  <2>3. call1.rule.no = 0 /\ call1.rule.action # "transient_failure"
    BY <2>2 DEF Plain
  <2>4. call' = [call EXCEPT ![c] = call1]
    BY <1>5, <2>1
  <2>5. \A x \in Clients : CopyStory(x)'
    BY <1>4, <2>2, <2>3, <2>4
  <2>6. \A e \in Entries : EntryStory(e)'
    BY <1>1, <1>3, <2>3, <2>4, OthersStory DEF TransientInv
  <2>7. Entries' = Entries /\ NosApart'
    BY <1>5 DEF Entries, NosApart, TransientInv
  <2> QED
    BY <2>5, <2>6, <2>7 DEF TransientInv
<1>6. ASSUME NEW i \in DOMAIN book, Matches(book[i].rule, seen), book[i].hits < MaxHits,
             book' = AfterMatch(i),
             call' = [call EXCEPT ![c] = [Idle EXCEPT !.req = req, !.rule = Taken(book[i])]]
      PROVE  TransientInv'
  <2>1. PICK e : e = book[i] /\ e \in EntryType /\ e \in Entries /\ EntryStory(e)
    BY EntryTyped DEF GatewayInv, Entries, TransientInv
  <2>2. PICK call1 : call1 = [Idle EXCEPT !.req = req, !.rule = Taken(e)]
    OBVIOUS
  <2>3. call1.req = req /\ call1.rule = Taken(e)
    BY <2>2 DEF Idle
  <2>4. call' = [call EXCEPT ![c] = call1]
    BY <1>6, <2>1, <2>2
  <2>5. call1.rule.action = e.rule.action /\ call1.rule.no = e.no
    BY <1>6, <2>1, <2>3, HitTyped
  <2>6. e.rule.action = "transient_failure" => bank # "freedom" /\ req.ep # "epay_token"
    BY <1>1, <1>6, <2>1 DEF EntryStory, Matches, MatchValue
  <2>7. \A x \in Clients : CopyStory(x)'
    BY <1>4, <2>3, <2>4, <2>5, <2>6
  <2>8. /\ NosApart'
        /\ \A d \in Entries' : \/ d \in Entries /\ d.no # e.no
                               \/ d = Hit(e)
    BY <1>6, <2>1, MatchedEntries DEF TransientInv
  <2>9. \A d \in Entries : d.no # e.no => EntryStory(d)'
    BY <1>1, <1>3, <2>4, <2>5, OthersStory DEF TransientInv
  <2>10. EntryStory(Hit(e))'
    BY <1>1, <1>3, <1>6, <2>1, <2>3, <2>4, TakersStory
  <2>11. \A d \in Entries' : EntryStory(d)'
    BY <2>8, <2>9, <2>10
  <2> QED
    BY <2>7, <2>8, <2>11 DEF TransientInv
<1> QED
  BY <1>1, <1>5, <1>6 DEF Ask, IsFirst

LEMMA InitTransient ==
  ASSUME TransientWhereHandled, Init
  PROVE  TransientInv
<1>1. PICK rules \in Books[bank] :
        book = PutUp(rules) /\ failed = [i \in DOMAIN rules |-> 0]
  BY DEF Init
<1>2. /\ bank \in DOMAIN Books /\ rules \in Seq(AnyRule) /\ call = [c \in Clients |-> Idle]
  BY <1>1, BooksAssumption DEF Init
<1>3. PICK n \in Nat : DOMAIN rules = 1 .. n
  BY <1>2
<1>4. book = [i \in 1 .. n |-> [rule |-> rules[i], hits |-> 0, no |-> i]]
  BY <1>1, <1>3 DEF PutUp
<1>5. \A c \in Clients : call[c].req = NoReq /\ call[c].rule.no = 0
                         /\ call[c].rule.action # "transient_failure"
  BY <1>2, IdleTyped DEF Plain
<1>6. NosApart
  BY <1>4 DEF NosApart
<1>7. \A c \in Clients : CopyStory(c)
  BY <1>5 DEF CopyStory
<1>8. ASSUME NEW e \in Entries
      PROVE  EntryStory(e)
  <2>1. PICK i \in 1 .. n : e = [rule |-> rules[i], hits |-> 0, no |-> i]
    BY <1>4 DEF Entries
  <2>2. e.rule = rules[i] /\ e.hits = 0 /\ e.no = i /\ i # 0
    BY <2>1
  <2>3. DOMAIN failed = 1 .. n /\ failed[i] = 0
    BY <1>1, <1>3
  <2>4. CopiesOf(e.no) = {} /\ e.no \in DOMAIN failed /\ failed[e.no] = 0 /\ e.no # 0
    BY <1>5, <2>2, <2>3 DEF CopiesOf
  <2>5. e.rule.action = "transient_failure"
          => bank # "freedom" /\ e.rule.endpoint \notin {"", Wild, "epay_token"}
    BY <1>1, <1>2, <1>3, <2>2 DEF TransientWhereHandled
  <2>6. ~(e.hits > 0)
    BY <2>2
  <2> QED
    BY <2>4, <2>5, <2>6 DEF EntryStory
<1> QED
  BY <1>6, <1>7, <1>8 DEF TransientInv

\* However many requests a transient rule shapes at a time, it refuses exactly
\* one of them, provided the rule is one of a handler that knows it.
THEOREM TransientRefusesOne ==
  ASSUME TransientWhereHandled
  PROVE  Spec => []TransientFailsOnce
<1>1. Init => TransientInv
  BY InitTransient
<1>2. ASSUME GatewayInv, TransientInv, [Next]_vars
      PROVE  TransientInv'
  <2>1. ASSUME UNCHANGED <<bank, book, failed, call>>
        PROVE  TransientInv'
    <3>1. Entries' = Entries /\ NosApart'
      BY <1>2, <2>1 DEF Entries, NosApart, TransientInv
    <3>2. \A c \in Clients : CopyStory(c)'
      BY <1>2, <2>1 DEF TransientInv, CopyStory, Waiting
    <3>3. ASSUME NEW e \in Entries
          PROVE  EntryStory(e)'
      <4>1. CopiesOf(e.no)' = CopiesOf(e.no) /\ FirstCopies(e.no)' = FirstCopies(e.no)
        BY <2>1 DEF CopiesOf, FirstCopies
      <4>2. EntryStory(e)
        BY <1>2 DEF TransientInv
      <4> QED
        BY <2>1, <4>1, <4>2 DEF EntryStory
    <3> QED
      BY <3>1, <3>2, <3>3 DEF TransientInv
  <2> QED
    BY <1>2, <2>1, StepCases, AskedTransient, AnsweredTransient
       DEF Shape, vars, AsyncHold, RunLookup
<1>3. ASSUME GatewayInv, TransientInv
      PROVE  TransientFailsOnce
  <2>1. SUFFICES ASSUME NEW i \in DOMAIN book, book[i].rule.action = "transient_failure",
                        book[i].hits > 0, \A c \in Clients : call[c].rule.no # book[i].no
                 PROVE  failed[book[i].no] = 1
    BY DEF TransientFailsOnce
  <2>2. EntryStory(book[i])
    BY <1>3 DEF TransientInv, Entries
  <2>3. FirstCopies(book[i].no) = {}
    BY <2>1 DEF FirstCopies, CopiesOf
  <2> QED
    BY <2>1, <2>2, <2>3 DEF EntryStory
<1>4. GatewayInv /\ TransientInv /\ [Next]_vars => TransientInv'
  BY <1>2
<1>5. GatewayInv /\ TransientInv => TransientFailsOnce
  BY <1>3
<1> QED
  BY <1>1, <1>4, <1>5, InvariantHolds, PTL DEF Spec
=============================================================================
