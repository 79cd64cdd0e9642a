----------------------------- MODULE Scenarios -----------------------------
(***************************************************************************)
(* The book of scenarios: memstore.ScenarioStore and the service above it, *)
(* used by operators of the panel, who apply presets and add, delete and   *)
(* reset rules, and by the requests of the clients, each of which looks    *)
(* for the rule that shapes its answer.                                    *)
(*                                                                         *)
(* Every method of the store runs under its lock and is one step.  A       *)
(* preset is a loop outside the lock: for each of its rules it reads the   *)
(* clock (Stamp), then takes the lock and appends the rule (Place), so     *)
(* that requests and other operators run between any two of these steps.   *)
(***************************************************************************)
EXTENDS ScenarioPresets

CONSTANTS
  Clients,     \* requests that may look for a rule at the same time
  Operators,   \* tabs of the panel
  Inputs,      \* the MatchInputs of the requests
  Names,       \* the presets that are applied
  FormRules,   \* the rules added with the form
  MaxApps,     \* bound on the applications of presets and forms
  MaxHits,     \* bound on the hits of a rule that is kept
  MaxClock,    \* bound on the clock, in units of its resolution
  NoRule       \* what a request that matches no rule carries on with

ASSUME BoundsAssumption == MaxApps \in Nat /\ MaxHits \in Nat /\ MaxClock \in Nat

RuleType ==
  [bank : STRING, endpoint : STRING, payment : STRING, order : STRING,
   action : STRING, arg : STRING, late : BOOLEAN, once : BOOLEAN]

\* A rule in the book: app and index say where it comes from.
EntryType ==
  [rule : RuleType, id : Nat, hits : Nat, created : Nat, app : Nat, index : Nat]

ASSUME RulesAssumption ==
  /\ FormRules \subseteq RuleType /\ "form" \notin Names
  /\ \A name \in Names : \A value \in Values(name) :
       Overridden(name, value) \in Seq(RuleType)
ASSUME NoRuleAssumption == NoRule \notin EntryType

VARIABLES
  book,        \* s.scenarios: the rules in the order they were appended
  nextID,      \* s.nextID
  clock,       \* time.Now
  apps,        \* history: every application, with the rules it is to place
  panel,       \* what an operator's request is doing
  call,        \* the requests, with the copy of the rule they matched
  shots        \* history: the answers every rule has shaped, by id

vars == <<book, nextID, clock, apps, panel, call, shots>>

IdleTab  == [app |-> 0, stamp |-> 0]
IdleCall == [in |-> NoRule, shot |-> NoRule]

\* (Mutant: the counter is read before it is increased.)
EntryBefore(rule, stamp, app, index) ==
  [rule |-> rule, id |-> nextID, hits |-> 0, created |-> stamp,
   app |-> app, index |-> index]
Entry(rule, stamp, app, index) ==
  [rule |-> rule, id |-> nextID + 1, hits |-> 0, created |-> stamp,
   app |-> app, index |-> index]

Init ==
  /\ book = <<>> /\ nextID = 0 /\ clock = 1 /\ apps = <<>> /\ shots = <<>>
  /\ panel = [o \in Operators |-> IdleTab]
  /\ call = [c \in Clients |-> IdleCall]

Tick ==
  /\ clock < MaxClock
  /\ clock' = clock + 1
  /\ UNCHANGED <<book, nextID, apps, panel, call, shots>>

(***************************************************************************)
(* The operators.                                                          *)
(***************************************************************************)
\* The applications whose requests have returned.
Over == {a \in DOMAIN apps : \A o \in Operators : panel[o].app # a}

\* One application of rules: placed counts those already in the book, after
\* (history) names the applications that were over when it began.
App(name, value, rules) ==
  [name |-> name, value |-> value, rules |-> rules, placed |-> 0, after |-> Over]

ByForm(a) == a.name = "form"

\* An operator sends the form of a preset, or of one rule.
MayBegin(o) == panel[o] = IdleTab /\ Len(apps) < MaxApps

Begin(o, app, goesOn) ==
  /\ apps' = Append(apps, app)
  /\ panel' = [panel EXCEPT ![o].app =
                 IF goesOn /\ app.rules # <<>> THEN Len(apps') ELSE 0]
  /\ UNCHANGED <<book, nextID, clock, call, shots>>

\* POST /panel/scenarios/preset: the value of the parameter is checked first.
\* (Mutant: the value is not checked.)
AppliedAnyway(o, name, value) ==
  /\ MayBegin(o)
  /\ Begin(o, App(name, value, Overridden(name, value)), TRUE)
ApplyPreset(o, name, value) ==
  /\ MayBegin(o)
  /\ Begin(o, App(name, value, Overridden(name, value)), ~Refused(name, value))

\* POST /panel/scenarios/add.
AddByForm(o, rule) ==
  /\ MayBegin(o)
  /\ Begin(o, App("form", "none", <<rule>>), TRUE)

\* addFor reads the clock before it takes the lock; the form leaves that to
\* the store.
Stamp(o) ==
  /\ panel[o].app # 0 /\ panel[o].stamp = 0
  /\ ~ByForm(apps[panel[o].app])
  /\ panel' = [panel EXCEPT ![o].stamp = clock]
  /\ UNCHANGED <<book, nextID, clock, apps, call, shots>>

\* The book with a new rule.
\* (Mutant: the rule is put where the panel shows the latest.)
PlacedFirst(e) == <<e>> \o book
Placed(e)      == Append(book, e)

\* Add, under the lock; after the last rule the handler returns.
Place(o) ==
  LET a     == panel[o].app
      index == apps[a].placed + 1
      stamp == IF ByForm(apps[a]) THEN clock ELSE panel[o].stamp
  IN  /\ a # 0
      /\ ByForm(apps[a]) \/ panel[o].stamp # 0
      /\ book' = Placed(Entry(apps[a].rules[index], stamp, a, index))
      /\ nextID' = nextID + 1
      /\ shots' = Append(shots, [once |-> apps[a].rules[index].once, n |-> 0])
      /\ apps' = [apps EXCEPT ![a].placed = index]
      /\ panel' = [panel EXCEPT ![o] =
                     IF index = Len(apps[a].rules) THEN IdleTab
                     ELSE [app |-> a, stamp |-> 0]]
      /\ UNCHANGED <<clock, call>>

\* POST /panel/scenarios/delete and POST /panel/scenarios/reset.
Remove(i) ==
  /\ i \in DOMAIN book
  /\ book' = Without(book, i)
  /\ UNCHANGED <<nextID, clock, apps, panel, call, shots>>

Reset ==
  /\ book # <<>>
  /\ book' = <<>>
  /\ UNCHANGED <<nextID, clock, apps, panel, call, shots>>

(***************************************************************************)
(* The requests.                                                           *)
(***************************************************************************)
Matched(in) == {i \in DOMAIN book : Matches(book[i].rule, in)}

Hit(e) == [e EXCEPT !.hits = @ + 1]

\* What Match leaves in the book of the rule it returns.
\* (Mutant: a one-shot rule is kept.)
KeptAlways(i) == [book EXCEPT ![i] = Hit(@)]
\* (Mutant: the hit is counted in the copy only.)
NotCounted(i) == IF book[i].rule.once THEN Without(book, i) ELSE book
AfterHit(i) ==
  IF book[i].rule.once THEN Without(book, i) ELSE [book EXCEPT ![i] = Hit(@)]

\* (Mutant: the last matching rule wins.)
LastOf(i, S) == i \in S /\ \A j \in S : j <= i
Chosen(i, S) == IsFirst(i, S)

\* Match, under the lock: the copy is what the request goes on with.
Match(c, in) ==
  /\ call[c] = IdleCall
  /\ \E i \in Matched(in) :
       /\ Chosen(i, Matched(in))
       /\ book[i].hits < MaxHits
       /\ book' = AfterHit(i)
       /\ call' = [call EXCEPT ![c] = [in |-> in, shot |-> Hit(book[i])]]
       /\ shots' = [shots EXCEPT ![book[i].id].n = @ + 1]
  /\ UNCHANGED <<nextID, clock, apps, panel>>

MatchNothing(c, in) ==
  /\ call[c] = IdleCall
  /\ Matched(in) = {}
  /\ call' = [call EXCEPT ![c] = [in |-> in, shot |-> NoRule]]
  /\ UNCHANGED <<book, nextID, clock, apps, panel, shots>>

Answer(c) ==
  /\ call[c] # IdleCall
  /\ call' = [call EXCEPT ![c] = IdleCall]
  /\ UNCHANGED <<book, nextID, clock, apps, panel, shots>>

Next ==
  \/ Tick \/ Reset
  \/ \E o \in Operators :
       \/ \E name \in Names : \E value \in Values(name) : ApplyPreset(o, name, value)
       \/ \E rule \in FormRules : AddByForm(o, rule)
       \/ Stamp(o) \/ Place(o)
  \/ \E i \in DOMAIN book : Remove(i)
  \/ \E c \in Clients : \/ \E in \in Inputs : Match(c, in) \/ MatchNothing(c, in)
                        \/ Answer(c)

Spec == Init /\ [][Next]_vars

(***************************************************************************)
(* Properties.                                                             *)
(***************************************************************************)
StoredRule(e) ==
  /\ e \in EntryType /\ e.id \in 1 .. nextID /\ e.created \in 1 .. clock
  /\ e.app \in DOMAIN apps /\ e.index \in DOMAIN apps[e.app].rules

TypeOK ==
  /\ nextID \in Nat /\ clock \in 1 .. (MaxClock + 1)
  /\ \A i \in DOMAIN book : StoredRule(book[i])
  /\ DOMAIN shots = 1 .. nextID
  /\ \A a \in DOMAIN apps : apps[a].placed \in 0 .. Len(apps[a].rules)
  /\ \A o \in Operators : panel[o].app \in {0} \cup DOMAIN apps

\* A rule that is used once shapes one answer at most, however many requests
\* look for a rule at the same time, and whatever the panel deletes or adds
\* meanwhile (ScenarioStore.Match counts, copies and removes under one lock).
OneShotOnce == \A id \in DOMAIN shots : shots[id].once => shots[id].n <= 1

\* The hit count of a rule still in the book is the number of the answers it
\* shaped: transient_failure fails the request whose copy says 1, so exactly
\* one request of those that matched it (ports/api/epay/scenario.go).
HitsExact == \A i \in DOMAIN book : book[i].hits = shots[book[i].id].n

\* Of the rules in the book that match a request, the one added first shapes
\* its answer, and a request goes without one only when none matches ("first
\* match wins, in the order of adding").
FirstAddedWins ==
  [][\A c \in Clients :
       call[c] = IdleCall /\ call'[c] # IdleCall =>
         \A i \in DOMAIN book :
           Matches(book[i].rule, call'[c].in) =>
             call'[c].shot # NoRule /\ call'[c].shot.id <= book[i].id]_vars

\* A preset in the book is a prefix of its rules, less those already used or
\* deleted: a request in between sees its first rules without the last, never
\* the last without the first having been there.  It is whole once its request
\* returns; a refused one leaves nothing; and the panel, which lists by
\* creation time, shows its rules in the order they are matched
\* (ApplyPresetWithParams, ScenarioStore.List).
PresetIsPrefix ==
  /\ \A i \in DOMAIN book :
       LET a == apps[book[i].app] IN
       /\ ~Refused(a.name, a.value)
       /\ book[i].index <= a.placed
       /\ book[i].rule = a.rules[book[i].index]
  /\ \A i, j \in DOMAIN book :
       i < j /\ book[i].app = book[j].app =>
         book[i].index < book[j].index /\ book[i].created <= book[j].created
  /\ \A a \in DOMAIN apps :
       \/ \E o \in Operators : panel[o].app = a
       \/ apps[a].placed = IF Refused(apps[a].name, apps[a].value) THEN 0
                           ELSE Len(apps[a].rules)

\* The panel lists the rules by the time each was created and says that "the
\* upper scenario fires first" (ports/panel/scenarios.go), while Match goes by
\* the order of adding, and a preset reads its clock before it takes the lock.
\* The two orders agree for rules of applications one of which was over before
\* the other began, whatever was deleted, used or reset between them; only
\* applications that overlap can be listed in another order than they fire in
\* (Service.addFor, ScenarioStore.List).
ListedAsMatched ==
  \A i, j \in DOMAIN book :
    book[i].app \in apps[book[j].app].after =>
      i < j /\ book[i].created <= book[j].created
=============================================================================
