--------------------------- MODULE KaspiPayments ---------------------------
(***************************************************************************)
(* KaspiPay: links to payments, which the shop polls, and the test         *)
(* endpoints and buttons of the panel that settle them.  Every method of   *)
(* the store runs under its lock and is one step; a request that is        *)
(* refused, for a body or a reference that cannot be read, an empty action *)
(* or a payment that is not there, changes nothing.                        *)
(***************************************************************************)
EXTENDS Naturals, Sequences

CONSTANTS
  Externals,    \* the ids the shop gives its payments, which it may repeat
  MaxLinks,     \* bound on the links that are made
  MaxSettled    \* bound on the changes of status of all payments together

ASSUME KaspiBounds == MaxLinks \in Nat /\ MaxSettled \in Nat

VARIABLES
  links,        \* r.store, by the number PaymentId is above kaspiIDBase
  idCounter,    \* r.idCounter, less kaspiIDBase
  given,        \* history: every link in the order made, as it was answered
  polled,       \* history: the last answer to a poll, and how many statuses
                \* had been set by then
  settled       \* history: the statuses set, of all payments, in order

kaspiVars == <<links, idCounter, given, polled, settled>>

\* The test endpoints set "Processed" and "Error"; the panel's handler sets any
\* text but the empty one, "Wait" included.
LinkStatuses == {"Wait", "Processed", "Error", "other"}

NoPoll == [id |-> 0, status |-> "Wait", at |-> 0]

KaspiInit ==
  /\ links = <<>> /\ idCounter = 0 /\ given = <<>>
  /\ polled = NoPoll /\ settled = <<>>

NextId == idCounter + 1

\* The counter is increased by the same call that reads it.
\* (Mutant: it is only read.)
ReadOnly  == idCounter
Increased == NextId

Linked(id, ext) ==
  [i \in DOMAIN links \cup {id} |->
     IF i = id THEN [external |-> ext, status |-> "Wait"] ELSE links[i]]

\* POST create-link.
CreateLink(ext) ==
  /\ Len(given) < MaxLinks
  /\ links' = Linked(NextId, ext)
  /\ idCounter' = Increased
  /\ given' = Append(given, [id |-> NextId, external |-> ext])
  /\ UNCHANGED <<polled, settled>>

\* GET payment/status.
Poll(id) ==
  /\ id \in DOMAIN links
  /\ polled' = [id |-> id, status |-> links[id].status, at |-> Len(settled)]
  /\ UNCHANGED <<links, idCounter, given, settled>>

\* SetStatus: whatever the status was, and whatever it is to be.
\* (Mutant: the payment is looked up by the id the shop gave it.)
SetByExternal(id, s) ==
  [i \in DOMAIN links |->
     IF links[i].external = links[id].external THEN [links[i] EXCEPT !.status = s]
     ELSE links[i]]
SetOf(id, s) == [links EXCEPT ![id].status = s]

Settle(id, s) ==
  /\ id \in DOMAIN links
  /\ Len(settled) < MaxSettled
  /\ links' = SetOf(id, s)
  /\ settled' = Append(settled, [id |-> id, status |-> s])
  /\ UNCHANGED <<idCounter, given, polled>>

KaspiNext ==
  \/ \E ext \in Externals : CreateLink(ext)
  \/ \E id \in DOMAIN links : Poll(id) \/ \E s \in LinkStatuses : Settle(id, s)

KaspiSpec == KaspiInit /\ [][KaspiNext]_kaspiVars

-----------------------------------------------------------------------------
(* Properties *)

\* A link's PaymentId is its own for ever, whether or not the shop repeats its
\* external id: no later link takes over a payment that was settled.
LinksAreOwn ==
  \A i, j \in DOMAIN given :
    /\ given[i].id = given[j].id => i = j
    /\ given[i].id \in DOMAIN links
    /\ links[given[i].id].external = given[i].external

\* Status s is what became of a payment by the first n settings of sets: the
\* last one made for it, and "Wait" if none was.
LastSet(sets, n, id, s) ==
  \/ /\ s = "Wait"
     /\ \A i \in 1 .. n : sets[i].id # id
  \/ \E i \in 1 .. n :
       /\ sets[i].id = id /\ sets[i].status = s
       /\ \A j \in 1 .. n : j > i => sets[j].id # id

\* A poll tells the status that was set last for that very payment, whatever
\* links were made and settled in between, under the same external id or not:
\* KaspiRepo.SetStatus checks nothing, so no other rule holds of a status.
PollsTellLast == polled.id # 0 =>
  LastSet(settled, polled.at, polled.id, polled.status)
=============================================================================
