----------------------------- MODULE RequestLog -----------------------------
(***************************************************************************)
(* The request log: memstore.RequestLog, a slice that drops its first      *)
(* entry when it is full; the handlers that add to it; and the panel,      *)
(* which lists the entries of a bank on a page, opens one that the page    *)
(* shows, some time later, and resets the log.  Every method runs under    *)
(* the lock and is one step.  A request is what the page filters by.       *)
(***************************************************************************)
EXTENDS Integers, Sequences

CONSTANTS
  Cap,          \* l.cap
  Requests,     \* the requests that are logged
  Filters,      \* the sets of requests the page can be filtered by
  MaxLogged,    \* bound on the requests that are logged
  Gone          \* the answer for an entry that is not found

ASSUME CapAssumption == Cap \in Nat \ {0} /\ MaxLogged \in Nat
ASSUME GoneAssumption == Gone \notin Requests

VARIABLES
  entries,      \* l.entries
  nextID,       \* l.nextID
  page,         \* the ids on the page, and whether the log was reset since
  opened,       \* the entry opened last, and whether the log was reset by then
  logged,       \* history: the request logged under each id
  cleared       \* history: nextID when the log was last reset

logVars == <<entries, nextID, page, opened, logged, cleared>>

NoPage   == [ids |-> {}, reset |-> FALSE]
NoEntry  == [id |-> 0, request |-> Gone, reset |-> FALSE]

LogInit ==
  /\ entries = <<>> /\ nextID = 0 /\ logged = <<>> /\ cleared = 0
  /\ page = NoPage /\ opened = NoEntry

\* append(l.entries[1:], e), when the log is full.
\* (Mutants: it is full one entry too late; it is emptied when it is full.)
Overfull == Len(entries) > Cap
Full     == Len(entries) >= Cap
Emptied  == IF Full THEN <<>> ELSE entries
Kept     == IF Full THEN Tail(entries) ELSE entries

\* Add, when a request to a bank has been answered.
\* (Mutant: the request is logged under the id of the last one.)
LastEntry(req) == [id |-> nextID, request |-> req]
Entry(req)     == [id |-> nextID + 1, request |-> req]

Add(req) ==
  /\ nextID < MaxLogged
  /\ entries' = Append(Kept, Entry(req))
  /\ nextID' = nextID + 1
  /\ logged' = Append(logged, req)
  /\ UNCHANGED <<page, opened, cleared>>

\* List, and what the page's filter lets through.
ShowPage(filter) ==
  /\ page' = [ids |-> {entries[i].id : i \in {k \in DOMAIN entries :
                                                entries[k].request \in filter}},
              reset |-> FALSE]
  /\ UNCHANGED <<entries, nextID, opened, logged, cleared>>

\* Get: the entry is looked up by its id, not by where the page shows it.
\* (Mutant: by its position.)
AtPosition(id) == {i \in DOMAIN entries : i = id}
WithId(id)     == {i \in DOMAIN entries : entries[i].id = id}

OpenEntry(id) ==
  /\ id \in page.ids
  /\ \/ \E i \in WithId(id) :
          opened' = [id |-> id, request |-> entries[i].request, reset |-> page.reset]
     \/ /\ WithId(id) = {}
        /\ opened' = [id |-> id, request |-> Gone, reset |-> page.reset]
  /\ UNCHANGED <<entries, nextID, page, logged, cleared>>

ResetLog ==
  /\ entries' = <<>>
  /\ page' = [page EXCEPT !.reset = TRUE]
  /\ cleared' = nextID
  /\ UNCHANGED <<nextID, opened, logged>>

LogNext ==
  \/ \E req \in Requests : Add(req)
  \/ \E filter \in Filters : ShowPage(filter)
  \/ \E id \in page.ids : OpenEntry(id)
  \/ ResetLog

LogSpec == LogInit /\ [][LogNext]_logVars

-----------------------------------------------------------------------------
(* Properties *)

\* The log has the last requests that came since it was reset, as many as fit
\* and no fewer, each under the id it was given and in that order: none is
\* dropped early, lost, repeated or mistaken for another.
IdsAreRecent ==
  /\ Len(entries) = IF nextID - cleared < Cap THEN nextID - cleared ELSE Cap
  /\ \A i \in DOMAIN entries :
       /\ entries[i].id = nextID - Len(entries) + i
       /\ entries[i].request = logged[entries[i].id]

\* An entry opened from a page, however old the page, is the very request that
\* was logged under its id; it is gone only when the log was reset since the
\* page was shown or Cap newer requests have pushed it out.
OpenedAsShown ==
  opened.id # 0 =>
    \/ opened.request = logged[opened.id]
    \/ opened.request = Gone /\ (opened.reset \/ opened.id + Cap <= nextID)

\* The log does what RecentRequests promises: it shows the last Cap requests
\* logged since it was reset.
Recent == INSTANCE RecentRequests WITH
            count <- nextID, kept <- {entries[i].id : i \in DOMAIN entries}

ImplementsRecent == Recent!Spec
=============================================================================
