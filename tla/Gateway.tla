------------------------------ MODULE Gateway ------------------------------
(***************************************************************************)
(* The path of a client's request through the handlers of a bank: it looks *)
(* for a rule (Ask), and is then answered by the rule, by the handler, or  *)
(* by the handler with the answer distorted by the rule (a Serve action of *)
(* EpayGateway, FlittGateway or FreedomGateway).  Goroutines a request     *)
(* leaves behind run later.                                                *)
(*                                                                         *)
(* A service method is one step here; its interleaving with others, call   *)
(* by call, is the subject of CardPayments.  The rules are in the book     *)
(* from the start; Scenarios is about how they get there.  A request that  *)
(* is refused before it looks for a rule (bad XML, a bad signature, the    *)
(* wallet of an unknown payment) changes nothing, and is no step.          *)
(***************************************************************************)
EXTENDS ScenarioRules, PayDomain, TLC

CONSTANTS
  Clients,      \* requests that may be under way at the same time
  Orders,       \* order numbers, which are Epay's invoices too
  Price,        \* the amount a payment is opened with
  Parts,        \* the amounts named in later operations; 0 is the whole
  Books,        \* for each bank, the books of rules its clients may meet
  AutoWebhook,  \* whether the bank's automatic webhook is switched on
  MaxLoad,      \* bound on the payments and the requests under way together
  MaxHits,      \* bound on the hits of a rule that is kept
  MaxNotes      \* bound on the notes about one status of one payment

ASSUME PriceAssumption == Price \in Uint \ {0} /\ Parts \subseteq Uint
ASSUME LimitAssumption == MaxLoad \in Nat /\ MaxHits \in Nat /\ MaxNotes \in Nat \ {0}
ASSUME AutoAssumption  == AutoWebhook \in BOOLEAN
ASSUME ClientsAssumption == IsFiniteSet(Clients)
\* A bank has any number of books, of any rules that can be written down.
ASSUME BooksAssumption ==
  /\ DOMAIN Books \subseteq {"epay", "flitt", "freedom"}
  /\ \A b \in DOMAIN Books : \A rules \in Books[b] : rules \in Seq(AnyRule)

VARIABLES
  bank,    \* the bank the clients talk to, the same in all a behaviour
  book,    \* the rules left, with their hits
  failed,  \* history: requests refused by the transient rules, by position
  pays,    \* the payments, by id
  call,    \* the requests under way
  last,    \* the answer that was given last
  notes,   \* history: the notifications handed over, with their number
  due,     \* goroutines that read the store before they notify
  holds,   \* payments the goroutines of silent holds are to authorize
  found    \* history: the orders a status request has found

vars == <<bank, book, failed, pays, call, last, notes, due, holds, found>>
store == <<pays, notes, due, holds, found>>

-----------------------------------------------------------------------------
(* Requests *)

\* A request, with the fields its endpoint does not use at 0 or "none".
Req(ep, id, order, sum, kind) ==
  [ep |-> ep, id |-> id, order |-> order, sum |-> sum, kind |-> kind]

NoOrder == "none"
ASSUME OrdersAssumption == NoOrder \notin Orders
ById(ep, id)        == Req(ep, id, NoOrder, 0, "pay")
ByOrder(ep, order)  == Req(ep, 0, order, 0, "pay")

\* The copy of the rule a request goes on with.
Plain     == [action |-> "none", arg |-> "none", late |-> FALSE, hits |-> 0, no |-> 0]
Copy(e)   == [action |-> e.rule.action, arg |-> e.rule.arg, late |-> e.rule.late,
              hits |-> e.hits, no |-> e.no]

NoReq     == ByOrder("none", NoOrder)
Idle      == [req |-> NoReq, rule |-> Plain]
Waiting(c) == call[c].req # NoReq

\* A book as Init puts it up.
PutUp(rules) == [i \in DOMAIN rules |-> [rule |-> rules[i], hits |-> 0, no |-> i]]

Init ==
  /\ bank \in DOMAIN Books
  /\ \E rules \in Books[bank] :
       book = PutUp(rules) /\ failed = [i \in DOMAIN rules |-> 0]
  /\ pays = <<>> /\ call = [c \in Clients |-> Idle] /\ last = "none"
  /\ notes = {} /\ due = {} /\ holds = {} /\ found = {}

\* The bounds: an opened payment finds a place in pays, and the more payments
\* there are the fewer requests are under way.
Busy(openers) == Cardinality({c \in Clients : call[c].req.ep \in openers})

HasRoom(openers, ep) ==
  /\ ep \in openers => Len(pays) + Busy(openers) < MaxId
  /\ Len(pays) + Cardinality({c \in Clients : Waiting(c)}) < MaxLoad

Hit(e)     == [e EXCEPT !.hits = @ + 1]
AfterMatch(i) ==
  IF book[i].rule.once THEN Without(book, i) ELSE [book EXCEPT ![i] = Hit(@)]

\* (Mutant: the copy is taken before the hit is counted.)
StaleCopy(e) == Copy(e)
Taken(e)     == Copy(Hit(e))

\* The request comes in and takes the first rule that matches what its
\* handler has read so far.
Ask(c, req, seen) ==
  LET fit == {i \in DOMAIN book : Matches(book[i].rule, seen)}
  IN  /\ \/ /\ fit = {}
            /\ call' = [call EXCEPT ![c] = [Idle EXCEPT !.req = req]]
            /\ UNCHANGED book
         \/ \E i \in fit :
              /\ IsFirst(i, fit)
              /\ book[i].hits < MaxHits
              /\ book' = AfterMatch(i)
              /\ call' = [call EXCEPT ![c] =
                            [Idle EXCEPT !.req = req, !.rule = Taken(book[i])]]
      /\ UNCHANGED <<bank, failed, last, store>>

Answer(c, a) == call' = [call EXCEPT ![c] = Idle] /\ last' = a

\* The answer of a rule in place of the handler, which is not called.
Instead(c, a) == Answer(c, a) /\ UNCHANGED <<bank, book, failed, store>>

Cut(action) == IF action \in Lost THEN "lost" ELSE "garbled"

\* transient_failure refuses the request whose copy counts the first hit.
Transient(rule) == rule.action = "transient_failure" /\ rule.hits = 1

RefusedByTransient(c) ==
  /\ Answer(c, "refused")
  /\ failed' = [failed EXCEPT ![call[c].rule.no] = @ + 1]
  /\ UNCHANGED <<bank, book, store>>

-----------------------------------------------------------------------------
(* Payments *)

\* The actions that keep a postlink back or repeat it.
Muting == {"postlink_lost", "postlink_double", "epay_late_operation"}

\* A payment: its record, the order it was opened for, what it was opened
\* for, whether check-status hides it, and whether it was ever opened or moved
\* under a rule that meddles with its postlinks.
Payment(rec, req, rule) ==
  [rec |-> rec, order |-> req.order, kind |-> req.kind, hidden |-> FALSE,
   muted |-> rule.action \in Muting]

Open(p)         == pays' = Append(pays, p)
NewID           == Len(pays) + 1
Known(id)       == id \in DOMAIN pays
Status(id)      == pays[id].rec.status
Store(id, rec, rule) ==
  pays' = [pays EXCEPT ![id].rec = rec, ![id].muted = @ \/ rule.action \in Muting]

Authorized(b)   == Moved(NewRecord(b, "NEW", Price), "AUTHORIZED")
Declined(b, sum) == Moved(NewRecord(b, "NEW", sum), "FAILED")

IsNewest(id, S) == id \in S /\ \A x \in S : x <= id

\* The service's later methods, when their check of the status holds.
Capturing(id, sum)  == Captured(pays[id].rec, IF sum = 0 THEN pays[id].rec.amount ELSE sum)
Cancelling(id)      == Moved(pays[id].rec, "CANCELLED")
Refunding(id, sum)  == Refunded(pays[id].rec, RefundDelta(pays[id].rec, sum))

-----------------------------------------------------------------------------
(* Notifications *)

\* A note tells the client's side of a status of a payment; n tells apart the
\* notes that say the same, up to MaxNotes of them.  Goroutines that carry a
\* snapshot are handed over with what they will say; delivery is not modelled.
Copies(N, id, says, kind) == {n \in N : n.id = id /\ n.says = says /\ n.kind = kind}

Noted(N, id, says, kind, times) ==
  LET k == Cardinality(Copies(N, id, says, kind))
  IN  N \cup {[id |-> id, says |-> says, kind |-> kind, n |-> i] :
                i \in {j \in (k + 1) .. (k + times) : j <= MaxNotes}}

\* A goroutine that looks the payment up when it runs: by id, or by order.
Lookup(id, order) == [id |-> id, order |-> order]

Found(l, ids) ==
  {id \in ids : IF l.id # 0 THEN id = l.id ELSE pays[id].order = l.order}

\* Such a goroutine tells what it reads.
\* (Mutant: it tells what the request it belongs to is about to bring about.)
ReportedAhead(id) == "CAPTURED"
Reported(id) == Status(id)

\* It reports the newest payment it finds as a success, if it finds one.
RunLookup(l) ==
  /\ l \in due
  /\ due' = due \ {l}
  /\ \/ /\ Found(l, DOMAIN pays) = {}
        /\ UNCHANGED notes
     \/ \E id \in Found(l, DOMAIN pays) :
          /\ IsNewest(id, Found(l, DOMAIN pays))
          /\ notes' = Noted(notes, id, Reported(id), "unasked", 1)
  /\ UNCHANGED <<bank, book, failed, pays, call, last, holds, found>>

-----------------------------------------------------------------------------
(* Properties of every bank *)

Kinds == {"pay", "bind"}

TypeOK ==
  /\ Len(book) <= Len(failed)
  /\ \A i \in DOMAIN book : book[i].hits \in 0 .. MaxHits
  /\ \A id \in DOMAIN pays :
       /\ id \in Ids /\ [pays[id].rec EXCEPT !.refunds = {}] \in Record
       /\ pays[id].order \in Orders \cup {NoOrder} /\ pays[id].kind \in Kinds
  /\ \A n \in notes : n.id \in DOMAIN pays /\ n.says \in Statuses
  /\ holds \subseteq Ids
  /\ found \subseteq Orders

\* The rules that refuse their first request are rules of handlers that do so:
\* those of Freedom, and the token endpoint of Epay, know nothing of them.
TransientWhereHandled ==
  \A b \in DOMAIN Books : \A rules \in Books[b] : \A i \in DOMAIN rules :
    rules[i].action = "transient_failure"
      => b # "freedom" /\ rules[i].endpoint \notin {"", Wild, "epay_token"}

\* However many requests a transient rule shapes at the same time, exactly one
\* of them is refused, whichever of them is served first (the hit count a
\* request decides on is that of its own copy), if the rule is one of a
\* handler that knows it.
TransientFailsOnce ==
  \A i \in DOMAIN book :
    LET no == book[i].no IN
    book[i].rule.action = "transient_failure" /\ book[i].hits > 0
        /\ (\A c \in Clients : call[c].rule.no # no)
      => failed[no] = 1

Served(c) == Waiting(c) /\ call'[c].req = NoReq
Touched   == {id \in DOMAIN pays' : ~Known(id) \/ pays'[id].rec # pays[id].rec}
=============================================================================
