-------------------------- MODULE ScenariosProofs --------------------------
(***************************************************************************)
(* Proofs about Scenarios, for every number of operators, requests,        *)
(* presets and rules.                                                      *)
(*                                                                         *)
(* ScenInv is inductive.  BookInv relates the rules in the book to the     *)
(* answers they shaped; TabsInv says what an operator's request is in the  *)
(* middle of; PresetsInv relates both to the presets applied.  The rules   *)
(* used, deleted or reset leave a book drawn from the one before in the    *)
(* same order (Drawn), which is all the last two depend on.  ClockInv and  *)
(* LaterInv are inductive on top of it: what the clock is, and in which    *)
(* order applications that do not overlap place their rules.               *)
(***************************************************************************)
EXTENDS Scenarios, TLAPS

AppType ==
  [name : Names \cup {"form"}, value : {"none", "600", "malformed"},
   rules : Seq(RuleType), placed : Nat, after : SUBSET Nat]

ShotType == [once : BOOLEAN, n : Nat]

ScenTypes ==
  /\ nextID \in Nat /\ clock \in Nat
  /\ book \in Seq(EntryType)
  /\ shots \in Seq(ShotType) /\ Len(shots) = nextID
  /\ apps \in Seq(AppType)
  /\ panel \in [Operators -> [app : Nat, stamp : Nat]]
  /\ call \in [Clients -> [in : Inputs \cup {NoRule}, shot : EntryType \cup {NoRule}]]

BookInv ==
  /\ \A i \in DOMAIN book :
       /\ book[i].id \in 1 .. nextID
       /\ book[i].hits = shots[book[i].id].n
       /\ book[i].rule.once = shots[book[i].id].once
       /\ book[i].rule.once => book[i].hits = 0
  /\ \A i, j \in DOMAIN book : i < j => book[i].id < book[j].id
  /\ \A id \in 1 .. nextID : shots[id].once => shots[id].n <= 1

\* The application an operator is in the middle of is that operator's alone
\* and has rules left; the clock was read after its last rule was placed.
TabsInv ==
  \A o \in Operators :
    /\ panel[o].stamp <= clock
    /\ panel[o].app # 0 =>
         /\ panel[o].app \in DOMAIN apps
         /\ apps[panel[o].app].placed < Len(apps[panel[o].app].rules)
         /\ ~Refused(apps[panel[o].app].name, apps[panel[o].app].value)
         /\ \A q \in Operators : panel[q].app = panel[o].app => q = o
         /\ panel[o].stamp # 0 =>
              \A i \in DOMAIN book :
                book[i].app = panel[o].app => book[i].created <= panel[o].stamp

PlacedRule(e) ==
  /\ e.app \in DOMAIN apps /\ e.created <= clock
  /\ ~Refused(apps[e.app].name, apps[e.app].value)
  /\ 1 <= e.index /\ e.index <= apps[e.app].placed
  /\ e.rule = apps[e.app].rules[e.index]

PresetsInv ==
  /\ \A i \in DOMAIN book : PlacedRule(book[i])
  /\ \A i, j \in DOMAIN book :
       i < j /\ book[i].app = book[j].app =>
         book[i].index < book[j].index /\ book[i].created <= book[j].created
  /\ \A a \in DOMAIN apps :
       /\ ByForm(apps[a]) => Len(apps[a].rules) = 1
       /\ \/ \E o \in Operators : panel[o].app = a
          \/ apps[a].placed = IF Refused(apps[a].name, apps[a].value) THEN 0
                              ELSE Len(apps[a].rules)

ScenInv == ScenTypes /\ BookInv /\ TabsInv /\ PresetsInv

-----------------------------------------------------------------------------
(* Books drawn from other books *)

\* b has some of the rules of c, in the order of c, by f; hits may differ.
DrawnBy(f, b, c) ==
  /\ \A k \in DOMAIN b : /\ f[k] \in DOMAIN c
                         /\ b[k].rule = c[f[k]].rule /\ b[k].created = c[f[k]].created
                         /\ b[k].app = c[f[k]].app /\ b[k].index = c[f[k]].index
                         /\ b[k].id = c[f[k]].id
  /\ \A k, l \in DOMAIN b : k < l => f[k] < f[l]

Drawn(b, c) == \E f : DrawnBy(f, b, c)

Source(s, i) == [k \in 1 .. (Len(s) - 1) |-> IF k < i THEN k ELSE k + 1]

LEMMA WithoutFacts ==
  ASSUME NEW s \in Seq(EntryType), NEW i \in DOMAIN s
  PROVE  /\ Without(s, i) \in Seq(EntryType)
         /\ \A k \in DOMAIN Without(s, i) :
              /\ Source(s, i)[k] \in DOMAIN s /\ Source(s, i)[k] # i
              /\ Without(s, i)[k] = s[Source(s, i)[k]]
         /\ \A k, l \in DOMAIN Without(s, i) : k < l => Source(s, i)[k] < Source(s, i)[l]
<1>1. PICK n \in Nat : n = Len(s) /\ DOMAIN s = 1 .. n
  OBVIOUS
<1>2. i \in 1 .. n /\ n - 1 \in Nat
  BY <1>1
<1>3. /\ DOMAIN Without(s, i) = 1 .. (n - 1)
      /\ \A k \in 1 .. (n - 1) :
           /\ Without(s, i)[k] = IF k < i THEN s[k] ELSE s[k + 1]
           /\ Source(s, i)[k] = IF k < i THEN k ELSE k + 1
  BY <1>1 DEF Without, Source
<1>4. \A k \in 1 .. (n - 1) : k \in 1 .. n /\ k + 1 \in 1 .. n /\ (k < i => k # i)
                              /\ (~(k < i) => k + 1 # i)
  BY <1>2
<1>5. \A k \in 1 .. (n - 1) :
        /\ Source(s, i)[k] \in 1 .. n /\ Source(s, i)[k] # i
        /\ Without(s, i)[k] = s[Source(s, i)[k]]
  BY <1>3, <1>4
<1>6. \A k, l \in 1 .. (n - 1) : k < l => Source(s, i)[k] < Source(s, i)[l]
  BY <1>2, <1>3
<1>7. Without(s, i) \in Seq(EntryType)
  <2>1. \A k \in 1 .. (n - 1) : Without(s, i)[k] \in EntryType
    BY <1>1, <1>5
  <2>2. Without(s, i) = [k \in 1 .. (n - 1) |-> Without(s, i)[k]]
    BY <1>1 DEF Without
  <2> QED
    BY <1>2, <2>1, <2>2
<1> QED
  BY <1>1, <1>3, <1>5, <1>6, <1>7

LEMMA WithoutIsDrawn ==
  ASSUME NEW s \in Seq(EntryType), NEW i \in DOMAIN s
  PROVE  Drawn(Without(s, i), s)
<1>1. DrawnBy(Source(s, i), Without(s, i), s)
  BY WithoutFacts DEF DrawnBy
<1> QED
  BY <1>1 DEF Drawn

\* What TabsInv and PresetsInv say survives any drawing.
LEMMA DrawingKeeps ==
  ASSUME ScenInv, book' \in Seq(EntryType), Drawn(book', book),
         UNCHANGED <<nextID, clock, apps, panel>>
  PROVE  TabsInv' /\ PresetsInv'
<1>1. PICK f : DrawnBy(f, book', book)
  BY DEF Drawn
<1>2. TabsInv'
  BY <1>1 DEF ScenInv, TabsInv, DrawnBy
<1>3. ASSUME NEW k \in DOMAIN book'
      PROVE  PlacedRule(book[k])'
  <2>1. PICK m \in DOMAIN book :
          /\ book'[k].rule = book[m].rule /\ book'[k].created = book[m].created
          /\ book'[k].app = book[m].app /\ book'[k].index = book[m].index
    BY <1>1 DEF DrawnBy
  <2>2. PlacedRule(book[m])
    BY DEF ScenInv, PresetsInv
  <2> QED
    BY <2>1, <2>2 DEF PlacedRule
<1>4. ASSUME NEW k \in DOMAIN book', NEW l \in DOMAIN book', k < l,
             book'[k].app = book'[l].app
      PROVE  book'[k].index < book'[l].index /\ book'[k].created <= book'[l].created
  <2>1. f[k] \in DOMAIN book /\ f[l] \in DOMAIN book /\ f[k] < f[l]
    BY <1>1, <1>4 DEF DrawnBy
  <2>2. book[f[k]].app = book[f[l]].app
    BY <1>1, <1>4 DEF DrawnBy
  <2>3. book[f[k]].index < book[f[l]].index /\ book[f[k]].created <= book[f[l]].created
    BY <2>1, <2>2 DEF ScenInv, PresetsInv
  <2> QED
    BY <1>1, <2>3 DEF DrawnBy
<1>5. PresetsInv'
  <2>1. \A a \in DOMAIN apps' :
          /\ ByForm(apps'[a]) => Len(apps'[a].rules) = 1
          /\ \/ \E o \in Operators : panel'[o].app = a
             \/ apps'[a].placed = IF Refused(apps'[a].name, apps'[a].value) THEN 0
                                  ELSE Len(apps'[a].rules)
    BY DEF ScenInv, PresetsInv
  <2> QED
    BY <1>3, <1>4, <2>1 DEF PresetsInv, ByForm
<1> QED
  BY <1>2, <1>5

-----------------------------------------------------------------------------
(* Steps that take rules out of the book *)

LEMMA RemoveKeeps == ASSUME ScenInv, NEW i, Remove(i) PROVE ScenInv'
<1>1. /\ i \in DOMAIN book /\ book' = Without(book, i) /\ book \in Seq(EntryType)
      /\ UNCHANGED <<nextID, clock, apps, panel, call, shots>>
  BY DEF Remove, ScenInv, ScenTypes
<1>2. book' \in Seq(EntryType) /\ Drawn(book', book)
  BY <1>1, WithoutFacts, WithoutIsDrawn
<1>3. ScenTypes'
  BY <1>1, <1>2 DEF ScenInv, ScenTypes
<1>4. BookInv'
  <2>1. ASSUME NEW k \in DOMAIN book'
        PROVE  Source(book, i)[k] \in DOMAIN book /\ book'[k] = book[Source(book, i)[k]]
    BY <1>1, WithoutFacts
  <2>2. \A k \in DOMAIN book' :
          /\ book'[k].id \in 1 .. nextID
          /\ book'[k].hits = shots[book'[k].id].n
          /\ book'[k].rule.once = shots[book'[k].id].once
          /\ book'[k].rule.once => book'[k].hits = 0
    BY <2>1 DEF ScenInv, BookInv
  <2>3. ASSUME NEW k \in DOMAIN book', NEW l \in DOMAIN book', k < l
        PROVE  book'[k].id < book'[l].id
    <3>1. Source(book, i)[k] < Source(book, i)[l]
      BY <1>1, <2>3, WithoutFacts
    <3> QED
      BY <2>1, <3>1 DEF ScenInv, BookInv
  <2> QED
    BY <1>1, <2>2, <2>3 DEF ScenInv, BookInv
<1> QED
  BY <1>1, <1>2, <1>3, <1>4, DrawingKeeps DEF ScenInv

LEMMA ResetKeeps == ASSUME ScenInv, Reset PROVE ScenInv'
<1>1. book' = <<>> /\ UNCHANGED <<nextID, clock, apps, panel, call, shots>>
  BY DEF Reset
<1>2. book' \in Seq(EntryType) /\ DOMAIN book' = {}
  BY <1>1
<1>3. Drawn(book', book)
  BY <1>2 DEF Drawn, DrawnBy
<1>4. ScenTypes' /\ BookInv'
  BY <1>1, <1>2 DEF ScenInv, ScenTypes, BookInv
<1> QED
  BY <1>1, <1>2, <1>3, <1>4, DrawingKeeps DEF ScenInv

\* The rule a request takes is a rule of the book with one hit more.
LEMMA HitIsEntry ==
  ASSUME NEW e \in EntryType
  PROVE  /\ Hit(e) \in EntryType /\ Hit(e).hits = e.hits + 1
         /\ Hit(e).rule = e.rule /\ Hit(e).id = e.id /\ Hit(e).created = e.created
         /\ Hit(e).app = e.app /\ Hit(e).index = e.index
  BY DEF Hit, EntryType

LEMMA MatchKeeps ==
  ASSUME ScenInv, NEW c \in Clients, NEW in \in Inputs, Match(c, in)
  PROVE  ScenInv'
<1>1. PICK i \in DOMAIN book :
        /\ book' = AfterHit(i)
        /\ call' = [call EXCEPT ![c] = [in |-> in, shot |-> Hit(book[i])]]
        /\ shots' = [shots EXCEPT ![book[i].id].n = @ + 1]
  BY DEF Match, Matched
<1>2. UNCHANGED <<nextID, clock, apps, panel>>
  BY DEF Match
<1>3. book \in Seq(EntryType) /\ book[i] \in EntryType
  BY DEF ScenInv, ScenTypes
<1>4. PICK d \in 1 .. nextID : d = book[i].id
  BY DEF ScenInv, BookInv
<1>5. /\ shots' \in Seq(ShotType) /\ Len(shots') = nextID
      /\ \A id \in 1 .. nextID :
           /\ shots'[id].once = shots[id].once
           /\ shots'[id].n = IF id = d THEN shots[id].n + 1 ELSE shots[id].n
  <2>1. shots \in Seq(ShotType) /\ Len(shots) = nextID
        /\ DOMAIN shots = 1 .. nextID
    BY DEF ScenInv, ScenTypes
  <2>2. shots' = [shots EXCEPT ![d].n = @ + 1]
    BY <1>1, <1>4
  <2>3. shots' \in Seq(ShotType) /\ Len(shots') = nextID
    <3>1. shots[d] \in ShotType
      BY <2>1
    <3>2. [shots[d] EXCEPT !.n = @ + 1] \in ShotType
      BY <3>1 DEF ShotType
    <3>3. shots' = [shots EXCEPT ![d] = [shots[d] EXCEPT !.n = @ + 1]]
      BY <2>2
    <3> QED
      BY <2>1, <3>2, <3>3
  <2>4. \A id \in 1 .. nextID :
          shots'[id] = IF id = d THEN [shots[d] EXCEPT !.n = @ + 1] ELSE shots[id]
    BY <2>1, <2>2
  <2>5. \A id \in 1 .. nextID : shots[id] \in ShotType
    BY <2>1
  <2> QED
    BY <2>3, <2>4, <2>5 DEF ShotType
<1>6. call' \in [Clients -> [in : Inputs \cup {NoRule}, shot : EntryType \cup {NoRule}]]
  BY <1>1, <1>3, HitIsEntry DEF ScenInv, ScenTypes
<1>7. /\ book[i].hits = shots[d].n /\ book[i].rule.once = shots[d].once
      /\ book[i].rule.once => book[i].hits = 0
  BY <1>4 DEF ScenInv, BookInv
<1>8. \A id \in 1 .. nextID : shots'[id].once => shots'[id].n <= 1
  <2>1. ASSUME NEW id \in 1 .. nextID, shots'[id].once
        PROVE  shots'[id].n <= 1
    <3>1. CASE id = d
      BY <1>5, <1>7, <2>1, <3>1
    <3>2. CASE id # d
      BY <1>5, <2>1, <3>2 DEF ScenInv, BookInv
    <3> QED
      BY <3>1, <3>2
  <2> QED
    BY <2>1
<1>9. CASE book[i].rule.once
  <2>1. book' = Without(book, i)
    BY <1>1, <1>9 DEF AfterHit
  <2>2. book' \in Seq(EntryType) /\ Drawn(book', book)
    BY <1>3, <2>1, WithoutFacts, WithoutIsDrawn
  <2>3. ScenTypes'
    BY <1>2, <1>5, <1>6, <2>2 DEF ScenInv, ScenTypes
  <2>4. BookInv'
    <3>1. ASSUME NEW k \in DOMAIN book'
          PROVE  /\ Source(book, i)[k] \in DOMAIN book
                 /\ book'[k] = book[Source(book, i)[k]]
                 /\ book'[k].id \in 1 .. nextID /\ book'[k].id # d
      <4>1. PICK m \in DOMAIN book : m = Source(book, i)[k] /\ m # i /\ book'[k] = book[m]
        BY <1>3, <2>1, WithoutFacts
      <4>2. m \in Nat /\ i \in Nat
        BY <1>3
      <4>3. book[m].id # d
        BY <1>4, <4>1, <4>2 DEF ScenInv, BookInv
      <4> QED
        BY <4>1, <4>3 DEF ScenInv, BookInv
    <3>2. ASSUME NEW k \in DOMAIN book'
          PROVE  /\ book'[k].id \in 1 .. nextID
                 /\ book'[k].hits = shots'[book'[k].id].n
                 /\ book'[k].rule.once = shots'[book'[k].id].once
                 /\ book'[k].rule.once => book'[k].hits = 0
      BY <1>5, <3>1 DEF ScenInv, BookInv
    <3>3. ASSUME NEW k \in DOMAIN book', NEW l \in DOMAIN book', k < l
          PROVE  book'[k].id < book'[l].id
      <4>1. Source(book, i)[k] < Source(book, i)[l]
        BY <1>3, <2>1, <3>3, WithoutFacts
      <4> QED
        BY <3>1, <4>1 DEF ScenInv, BookInv
    <3> QED
      BY <1>2, <1>8, <3>2, <3>3 DEF BookInv
  <2> QED
    BY <1>2, <2>2, <2>3, <2>4, DrawingKeeps DEF ScenInv
<1>10. CASE ~book[i].rule.once
  <2>1. book' = [book EXCEPT ![i] = Hit(book[i])]
    BY <1>1, <1>10 DEF AfterHit
  <2>2. /\ book' \in Seq(EntryType) /\ DOMAIN book' = DOMAIN book
        /\ \A k \in DOMAIN book : book'[k] = IF k = i THEN Hit(book[i]) ELSE book[k]
    BY <1>3, <2>1, HitIsEntry
  <2>3. \A k \in DOMAIN book :
          /\ book'[k].rule = book[k].rule /\ book'[k].id = book[k].id
          /\ book'[k].created = book[k].created /\ book'[k].app = book[k].app
          /\ book'[k].index = book[k].index
          /\ book'[k].hits = IF k = i THEN book[k].hits + 1 ELSE book[k].hits
    BY <1>3, <2>2, HitIsEntry
  <2>4. Drawn(book', book)
    <3>1. DrawnBy([k \in DOMAIN book |-> k], book', book)
      BY <2>2, <2>3 DEF DrawnBy
    <3> QED
      BY <3>1 DEF Drawn
  <2>5. ScenTypes'
    BY <1>2, <1>5, <1>6, <2>2 DEF ScenInv, ScenTypes
  <2>6. BookInv'
    <3>1. \A k \in DOMAIN book : k # i => book[k].id # d
      <4>1. \A k \in DOMAIN book : k \in Nat
        BY <1>3
      <4> QED
        BY <1>4, <4>1 DEF ScenInv, BookInv
    <3>2. ASSUME NEW k \in DOMAIN book
          PROVE  /\ book'[k].id \in 1 .. nextID
                 /\ book'[k].hits = shots'[book'[k].id].n
                 /\ book'[k].rule.once = shots'[book'[k].id].once
                 /\ book'[k].rule.once => book'[k].hits = 0
      <4>1. CASE k = i
        BY <1>4, <1>5, <1>7, <1>10, <2>3, <4>1
      <4>2. CASE k # i
        <5>1. /\ book[k].id \in 1 .. nextID /\ book[k].id # d
              /\ book[k].hits = shots[book[k].id].n
              /\ book[k].rule.once = shots[book[k].id].once
              /\ book[k].rule.once => book[k].hits = 0
          BY <3>1, <4>2 DEF ScenInv, BookInv
        <5>2. shots'[book[k].id].n = shots[book[k].id].n
              /\ shots'[book[k].id].once = shots[book[k].id].once
          BY <1>5, <5>1
        <5> QED
          BY <2>3, <4>2, <5>1, <5>2
      <4> QED
        BY <4>1, <4>2
    <3>3. \A k, l \in DOMAIN book : k < l => book'[k].id < book'[l].id
      BY <2>3 DEF ScenInv, BookInv
    <3> QED
      BY <1>2, <1>8, <2>2, <3>2, <3>3 DEF BookInv
  <2> QED
    BY <1>2, <2>2, <2>4, <2>5, <2>6, DrawingKeeps DEF ScenInv
<1> QED
  BY <1>9, <1>10

-----------------------------------------------------------------------------
(* Steps that leave the book alone *)

LEMMA RequestsKeep ==
  ASSUME ScenInv, NEW c \in Clients,
         Answer(c) \/ \E in \in Inputs : MatchNothing(c, in)
  PROVE  ScenInv'
<1>1. UNCHANGED <<book, nextID, clock, apps, panel, shots>>
  BY DEF Answer, MatchNothing
<1>2. call' \in [Clients -> [in : Inputs \cup {NoRule}, shot : EntryType \cup {NoRule}]]
  <2>1. PICK in \in Inputs \cup {NoRule} :
          call' = [call EXCEPT ![c] = [in |-> in, shot |-> NoRule]]
    BY DEF Answer, MatchNothing, IdleCall
  <2>2. [in |-> in, shot |-> NoRule]
          \in [in : Inputs \cup {NoRule}, shot : EntryType \cup {NoRule}]
    OBVIOUS
  <2> QED
    BY <2>1, <2>2 DEF ScenInv, ScenTypes
<1> QED
  BY <1>1, <1>2 DEF ScenInv, ScenTypes, BookInv, TabsInv, PresetsInv, PlacedRule, ByForm

LEMMA TickKeeps == ASSUME ScenInv, Tick PROVE ScenInv'
<1>1. clock \in Nat /\ clock' = clock + 1
      /\ UNCHANGED <<book, nextID, apps, panel, call, shots>>
  BY DEF Tick, ScenInv, ScenTypes
<1>2. ScenTypes' /\ BookInv'
  BY <1>1 DEF ScenInv, ScenTypes, BookInv
<1>3. TabsInv'
  <2>1. \A o \in Operators : panel[o].stamp <= clock + 1
    <3>1. \A o \in Operators : panel[o].stamp \in Nat /\ panel[o].stamp <= clock
      BY DEF ScenInv, ScenTypes, TabsInv
    <3> QED
      BY <1>1, <3>1
  <2> QED
    BY <1>1, <2>1 DEF ScenInv, TabsInv
<1>4. PresetsInv'
  <2>1. \A i \in DOMAIN book : book[i].created <= clock + 1
    <3>1. \A i \in DOMAIN book : book[i] \in EntryType
      BY DEF ScenInv, ScenTypes
    <3>2. \A i \in DOMAIN book : book[i].created \in Nat
      BY <3>1 DEF EntryType
    <3>3. \A i \in DOMAIN book : book[i].created <= clock
      BY DEF ScenInv, PresetsInv, PlacedRule
    <3> QED
      BY <1>1, <3>2, <3>3
  <2> QED
    BY <1>1, <2>1 DEF ScenInv, PresetsInv, PlacedRule, ByForm
<1> QED
  BY <1>2, <1>3, <1>4 DEF ScenInv

LEMMA StampKeeps == ASSUME ScenInv, NEW o \in Operators, Stamp(o) PROVE ScenInv'
<1>1. /\ panel[o].app # 0
      /\ panel' = [panel EXCEPT ![o].stamp = clock]
      /\ UNCHANGED <<book, nextID, clock, apps, call, shots>>
  BY DEF Stamp
<1>2. panel \in [Operators -> [app : Nat, stamp : Nat]] /\ clock \in Nat
  BY DEF ScenInv, ScenTypes
<1>3. /\ panel' \in [Operators -> [app : Nat, stamp : Nat]]
      /\ panel'[o].stamp = clock
      /\ \A q \in Operators : /\ panel'[q].app = panel[q].app
                              /\ q # o => panel'[q].stamp = panel[q].stamp
  BY <1>1, <1>2
<1>4. ScenTypes' /\ BookInv'
  BY <1>1, <1>3 DEF ScenInv, ScenTypes, BookInv
<1>5. \A i \in DOMAIN book : book[i].created <= clock
  BY DEF ScenInv, PresetsInv, PlacedRule
<1>6. ASSUME NEW q \in Operators
      PROVE  /\ panel'[q].stamp <= clock
             /\ panel'[q].app # 0 =>
                  /\ panel'[q].app \in DOMAIN apps
                  /\ apps[panel'[q].app].placed < Len(apps[panel'[q].app].rules)
                  /\ ~Refused(apps[panel'[q].app].name, apps[panel'[q].app].value)
                  /\ \A p \in Operators : panel'[p].app = panel'[q].app => p = q
                  /\ panel'[q].stamp # 0 =>
                       \A i \in DOMAIN book :
                         book[i].app = panel'[q].app => book[i].created <= panel'[q].stamp
  <2>1. CASE q = o
    BY <1>2, <1>3, <1>5, <2>1 DEF ScenInv, TabsInv
  <2>2. CASE q # o
    BY <1>3, <2>2 DEF ScenInv, TabsInv
  <2> QED
    BY <2>1, <2>2
<1>7. TabsInv'
  BY <1>1, <1>6 DEF TabsInv
<1>8. PresetsInv'
  BY <1>1, <1>3 DEF ScenInv, PresetsInv, PlacedRule, ByForm
<1> QED
  BY <1>4, <1>7, <1>8 DEF ScenInv

-----------------------------------------------------------------------------
(* Applications *)

LEMMA AppIsTyped ==
  ASSUME ScenInv
  PROVE  /\ \A name \in Names : \A value \in Values(name) :
              App(name, value, Overridden(name, value)) \in AppType
         /\ \A rule \in FormRules : App("form", "none", <<rule>>) \in AppType
<1>0. Over \in SUBSET Nat
  BY DEF Over, ScenInv, ScenTypes
<1>1. ASSUME NEW name \in Names, NEW value \in Values(name)
      PROVE  App(name, value, Overridden(name, value)) \in AppType
  <2>1. Overridden(name, value) \in Seq(RuleType)
    BY RulesAssumption
  <2>2. value \in {"none", "600", "malformed"}
    BY DEF Values
  <2> QED
    BY <1>0, <2>1, <2>2 DEF App, AppType
<1>2. ASSUME NEW rule \in FormRules
      PROVE  App("form", "none", <<rule>>) \in AppType
  <2>1. <<rule>> \in Seq(RuleType)
    BY RulesAssumption
  <2> QED
    BY <1>0, <2>1 DEF App, AppType
<1> QED
  BY <1>1, <1>2

\* A new application is not in the book, and in no other operator's hands.
LEMMA BeginKeeps ==
  ASSUME ScenInv, NEW o \in Operators, NEW app \in AppType, NEW goesOn \in BOOLEAN,
         MayBegin(o), Begin(o, app, goesOn), app.placed = 0,
         goesOn <=> ~Refused(app.name, app.value),
         ByForm(app) => Len(app.rules) = 1
  PROVE  ScenInv'
<1> DEFINE now == IF goesOn /\ app.rules # <<>> THEN Len(apps) + 1 ELSE 0
<1>1. PICK n \in Nat : n = Len(apps) /\ DOMAIN apps = 1 .. n
  BY DEF ScenInv, ScenTypes
<1>2. /\ apps' \in Seq(AppType) /\ DOMAIN apps' = 1 .. (n + 1) /\ Len(apps') = n + 1
      /\ apps'[n + 1] = app
      /\ \A a \in 1 .. n : apps'[a] = apps[a]
  BY <1>1 DEF Begin, ScenInv, ScenTypes
<1>3. UNCHANGED <<book, nextID, clock, call, shots>>
  BY DEF Begin
<1>4. PICK m \in {0, n + 1} :
        /\ m = IF goesOn /\ app.rules # <<>> THEN n + 1 ELSE 0
        /\ panel' = [panel EXCEPT ![o].app = m]
  BY <1>2 DEF Begin
<1>5. /\ panel' \in [Operators -> [app : Nat, stamp : Nat]]
      /\ panel'[o].app = m /\ panel'[o].stamp = 0 /\ panel[o].app = 0
      /\ \A q \in Operators : q # o => panel'[q] = panel[q]
  BY <1>4 DEF MayBegin, IdleTab, ScenInv, ScenTypes
<1>6. \A q \in Operators : q # o => panel[q].app = 0 \/ panel[q].app \in 1 .. n
  BY <1>1 DEF ScenInv, TabsInv
<1>7. n + 1 \notin 1 .. n /\ n + 1 # 0 /\ 0 \notin 1 .. n /\ \A a \in 1 .. n : a \in 1 .. (n + 1)
  OBVIOUS
<1>8. \A i \in DOMAIN book : book[i].app \in 1 .. n
  BY <1>1 DEF ScenInv, PresetsInv, PlacedRule
<1>9. ScenTypes' /\ BookInv'
  BY <1>2, <1>3, <1>5 DEF ScenInv, ScenTypes, BookInv
<1>10. ASSUME NEW q \in Operators
       PROVE  /\ panel'[q].stamp <= clock
              /\ panel'[q].app # 0 =>
                   /\ panel'[q].app \in 1 .. (n + 1)
                   /\ apps'[panel'[q].app].placed < Len(apps'[panel'[q].app].rules)
                   /\ ~Refused(apps'[panel'[q].app].name, apps'[panel'[q].app].value)
                   /\ \A p \in Operators : panel'[p].app = panel'[q].app => p = q
                   /\ panel'[q].stamp # 0 =>
                        \A i \in DOMAIN book :
                          book[i].app = panel'[q].app => book[i].created <= panel'[q].stamp
  <2>1. CASE q = o
    <3>1. panel'[q].stamp <= clock
      BY <1>5, <2>1 DEF ScenInv, ScenTypes
    <3>2. ASSUME m # 0
          PROVE  0 < Len(app.rules) /\ ~Refused(app.name, app.value) /\ m = n + 1
      <4>1. app.rules # <<>> /\ goesOn /\ m = n + 1
        BY <1>4, <3>2
      <4>2. app.rules \in Seq(RuleType)
        BY DEF AppType
      <4> QED
        BY <4>1, <4>2
    <3>3. \A p \in Operators : panel'[p].app = m /\ m # 0 => p = o
      BY <1>4, <1>5, <1>6, <1>7
    <3> QED
      BY <1>2, <1>5, <1>7, <2>1, <3>1, <3>2, <3>3
  <2>2. CASE q # o
    <3>1. panel'[q] = panel[q] /\ (panel[q].app = 0 \/ panel[q].app \in 1 .. n)
      BY <1>5, <1>6, <2>2
    <3>2. panel[q].app # 0 =>
            /\ apps[panel[q].app].placed < Len(apps[panel[q].app].rules)
            /\ ~Refused(apps[panel[q].app].name, apps[panel[q].app].value)
            /\ \A p \in Operators : panel[p].app = panel[q].app => p = q
            /\ panel[q].stamp # 0 =>
                 \A i \in DOMAIN book :
                   book[i].app = panel[q].app => book[i].created <= panel[q].stamp
      BY DEF ScenInv, TabsInv
    <3>3. panel[q].stamp <= clock
      BY DEF ScenInv, TabsInv
    <3>4. panel[q].app # 0 =>
            /\ apps'[panel[q].app] = apps[panel[q].app]
            /\ panel[q].app \in 1 .. (n + 1)
            /\ \A p \in Operators : panel'[p].app = panel[q].app => p = q
      <4>1. panel[q].app # 0 => panel'[o].app # panel[q].app
        BY <1>4, <1>5, <1>7, <3>1
      <4> QED
        BY <1>2, <1>5, <1>7, <3>1, <3>2, <4>1
    <3> QED
      BY <3>1, <3>2, <3>3, <3>4
  <2> QED
    BY <2>1, <2>2
<1>11. TabsInv'
  BY <1>2, <1>3, <1>10 DEF TabsInv
<1>12. PresetsInv'
  <2>1. \A i \in DOMAIN book : PlacedRule(book[i])'
    BY <1>1, <1>2, <1>3, <1>7, <1>8 DEF ScenInv, PresetsInv, PlacedRule
  <2>2. ASSUME NEW a \in 1 .. (n + 1)
        PROVE  /\ ByForm(apps'[a]) => Len(apps'[a].rules) = 1
               /\ \/ \E q \in Operators : panel'[q].app = a
                  \/ apps'[a].placed = IF Refused(apps'[a].name, apps'[a].value) THEN 0
                                       ELSE Len(apps'[a].rules)
    <3>1. CASE a = n + 1
      <4>1. CASE goesOn /\ app.rules # <<>>
        BY <1>2, <1>4, <1>5, <3>1, <4>1
      <4>2. CASE goesOn /\ app.rules = <<>>
        BY <1>2, <3>1, <4>2
      <4>3. CASE ~goesOn
        BY <1>2, <3>1, <4>3
      <4> QED
        BY <4>1, <4>2, <4>3
    <3>2. CASE a \in 1 .. n
      <4>1. apps'[a] = apps[a] /\ a # 0
        BY <1>2, <1>7, <3>2
      <4>2. ByForm(apps[a]) => Len(apps[a].rules) = 1
        BY <1>1, <3>2 DEF ScenInv, PresetsInv
      <4>3. \/ \E q \in Operators : panel[q].app = a
            \/ apps[a].placed = IF Refused(apps[a].name, apps[a].value) THEN 0
                                ELSE Len(apps[a].rules)
        BY <1>1, <3>2 DEF ScenInv, PresetsInv
      <4>4. (\E q \in Operators : panel[q].app = a) => \E q \in Operators : panel'[q].app = a
        BY <1>5, <4>1
      <4> QED
        BY <4>1, <4>2, <4>3, <4>4
    <3> QED
      BY <3>1, <3>2
  <2> QED
    BY <1>2, <1>3, <2>1, <2>2 DEF ScenInv, PresetsInv, ByForm
<1> QED
  BY <1>9, <1>11, <1>12 DEF ScenInv

LEMMA ApplyPresetKeeps ==
  ASSUME ScenInv, NEW o \in Operators, NEW name \in Names, NEW value \in Values(name),
         ApplyPreset(o, name, value)
  PROVE  ScenInv'
<1> DEFINE app == App(name, value, Overridden(name, value))
<1>1. app \in AppType /\ app.placed = 0 /\ app.name = name /\ app.value = value
  BY AppIsTyped DEF App
<1>2. ~ByForm(app)
  BY <1>1, RulesAssumption DEF ByForm
<1>3. MayBegin(o) /\ Begin(o, app, ~Refused(name, value))
  BY DEF ApplyPreset
<1>4. Refused(name, value) \in BOOLEAN
  BY DEF Refused, Declares
<1> HIDE DEF app
<1> QED
  BY <1>1, <1>2, <1>3, <1>4, BeginKeeps

LEMMA AddByFormKeeps ==
  ASSUME ScenInv, NEW o \in Operators, NEW rule \in FormRules, AddByForm(o, rule)
  PROVE  ScenInv'
<1> DEFINE app == App("form", "none", <<rule>>)
<1>1. /\ app \in AppType /\ app.placed = 0 /\ app.name = "form" /\ app.value = "none"
      /\ Len(app.rules) = 1
  BY AppIsTyped DEF App
<1>2. ~Refused("form", "none")
  BY DEF Refused
<1>3. MayBegin(o) /\ Begin(o, app, TRUE)
  BY DEF AddByForm
<1> HIDE DEF app
<1> QED
  BY <1>1, <1>2, <1>3, BeginKeeps

-----------------------------------------------------------------------------
(* Placing a rule *)

\* The rule placed next is the one after those the application has placed.
LEMMA PlaceEffect ==
  ASSUME ScenInv, NEW o \in Operators, Place(o)
  PROVE  \E a \in DOMAIN apps : \E index, stamp \in Nat : \E e \in EntryType :
           /\ a = panel[o].app /\ index = apps[a].placed + 1
           /\ index <= Len(apps[a].rules)
           /\ stamp = IF ByForm(apps[a]) THEN clock ELSE panel[o].stamp
           /\ ByForm(apps[a]) \/ panel[o].stamp # 0
           /\ e = [rule |-> apps[a].rules[index], id |-> nextID + 1, hits |-> 0,
                   created |-> stamp, app |-> a, index |-> index]
           /\ book' = Append(book, e)
           /\ shots' = Append(shots, [once |-> e.rule.once, n |-> 0])
           /\ apps' = [apps EXCEPT ![a].placed = index]
           /\ panel' = [panel EXCEPT ![o] = IF index = Len(apps[a].rules) THEN IdleTab
                                            ELSE [app |-> a, stamp |-> 0]]
<1>1. PICK a : a = panel[o].app
  OBVIOUS
<1>2. a \in DOMAIN apps /\ apps[a].placed < Len(apps[a].rules)
  BY <1>1 DEF Place, ScenInv, TabsInv
<1>3. apps[a] \in AppType /\ panel[o].stamp \in Nat /\ clock \in Nat /\ nextID \in Nat
      /\ a \in Nat
  BY <1>1, <1>2 DEF ScenInv, ScenTypes
<1>4. PICK index \in Nat : index = apps[a].placed + 1
  BY <1>3 DEF AppType
<1>5. index \in 1 .. Len(apps[a].rules) /\ apps[a].rules \in Seq(RuleType)
  BY <1>2, <1>3, <1>4 DEF AppType
<1>6. PICK stamp \in Nat : stamp = IF ByForm(apps[a]) THEN clock ELSE panel[o].stamp
  BY <1>3
<1>7. apps[a].rules[index] \in RuleType
  BY <1>5
<1>8. [rule |-> apps[a].rules[index], id |-> nextID + 1, hits |-> 0,
       created |-> stamp, app |-> a, index |-> index] \in EntryType
  BY <1>3, <1>7 DEF EntryType
<1>9. PICK e \in EntryType :
        e = [rule |-> apps[a].rules[index], id |-> nextID + 1, hits |-> 0,
             created |-> stamp, app |-> a, index |-> index]
  BY <1>8
<1>10. /\ ByForm(apps[a]) \/ panel[o].stamp # 0
       /\ book' = Append(book, e)
       /\ shots' = Append(shots, [once |-> e.rule.once, n |-> 0])
       /\ apps' = [apps EXCEPT ![a].placed = index]
       /\ panel' = [panel EXCEPT ![o] = IF index = Len(apps[a].rules) THEN IdleTab
                                        ELSE [app |-> a, stamp |-> 0]]
  BY <1>1, <1>4, <1>6, <1>9 DEF Place, Placed, Entry
<1>11. index <= Len(apps[a].rules)
  BY <1>5
<1> QED
  BY <1>1, <1>2, <1>4, <1>6, <1>9, <1>10, <1>11

LEMMA PlaceKeeps == ASSUME ScenInv, NEW o \in Operators, Place(o) PROVE ScenInv'
<1>1. PICK a \in DOMAIN apps : \E index, stamp \in Nat : \E e \in EntryType :
        /\ a = panel[o].app /\ index = apps[a].placed + 1
        /\ index <= Len(apps[a].rules)
        /\ stamp = IF ByForm(apps[a]) THEN clock ELSE panel[o].stamp
        /\ ByForm(apps[a]) \/ panel[o].stamp # 0
        /\ e = [rule |-> apps[a].rules[index], id |-> nextID + 1, hits |-> 0,
                created |-> stamp, app |-> a, index |-> index]
        /\ book' = Append(book, e)
        /\ shots' = Append(shots, [once |-> e.rule.once, n |-> 0])
        /\ apps' = [apps EXCEPT ![a].placed = index]
        /\ panel' = [panel EXCEPT ![o] = IF index = Len(apps[a].rules) THEN IdleTab
                                         ELSE [app |-> a, stamp |-> 0]]
  BY PlaceEffect
<1>2. PICK index, stamp \in Nat, e \in EntryType :
        /\ a = panel[o].app /\ index = apps[a].placed + 1
        /\ index <= Len(apps[a].rules)
        /\ stamp = IF ByForm(apps[a]) THEN clock ELSE panel[o].stamp
        /\ ByForm(apps[a]) \/ panel[o].stamp # 0
        /\ e = [rule |-> apps[a].rules[index], id |-> nextID + 1, hits |-> 0,
                created |-> stamp, app |-> a, index |-> index]
        /\ book' = Append(book, e)
        /\ shots' = Append(shots, [once |-> e.rule.once, n |-> 0])
        /\ apps' = [apps EXCEPT ![a].placed = index]
        /\ panel' = [panel EXCEPT ![o] = IF index = Len(apps[a].rules) THEN IdleTab
                                         ELSE [app |-> a, stamp |-> 0]]
  BY <1>1
<1>3. nextID' = nextID + 1 /\ UNCHANGED <<clock, call>>
  BY DEF Place
<1>4. PICK n, t \in Nat : n = Len(book) /\ t = nextID
  BY DEF ScenInv, ScenTypes
<1>5. /\ book \in Seq(EntryType) /\ DOMAIN book = 1 .. n
      /\ shots \in Seq(ShotType) /\ Len(shots) = t
      /\ apps \in Seq(AppType) /\ a # 0
      /\ panel \in [Operators -> [app : Nat, stamp : Nat]]
  BY <1>4 DEF ScenInv, ScenTypes
<1>6. /\ book' \in Seq(EntryType) /\ DOMAIN book' = 1 .. (n + 1)
      /\ book'[n + 1] = e
      /\ \A i \in 1 .. n : book'[i] = book[i]
  BY <1>2, <1>4, <1>5
<1>7. /\ shots' \in Seq(ShotType) /\ Len(shots') = t + 1
      /\ shots'[t + 1] = [once |-> e.rule.once, n |-> 0]
      /\ \A d \in 1 .. t : shots'[d] = shots[d]
  <2>1. [once |-> e.rule.once, n |-> 0] \in ShotType
    BY DEF EntryType, RuleType, ShotType
  <2> QED
    BY <1>2, <1>5, <2>1
<1>8. /\ apps' \in Seq(AppType) /\ DOMAIN apps' = DOMAIN apps
      /\ \A b \in DOMAIN apps : b # a => apps'[b] = apps[b]
      /\ apps'[a].name = apps[a].name /\ apps'[a].value = apps[a].value
      /\ apps'[a].rules = apps[a].rules /\ apps'[a].placed = index
  <2>1. apps[a] \in AppType
    BY <1>5
  <2>2. PICK x \in AppType : x = [apps[a] EXCEPT !.placed = index]
    BY <2>1 DEF AppType
  <2>3. apps' = [apps EXCEPT ![a] = x]
    BY <1>2, <2>2
  <2>4. /\ x.name = apps[a].name /\ x.value = apps[a].value
        /\ x.rules = apps[a].rules /\ x.placed = index
    BY <2>1, <2>2 DEF AppType
  <2> QED
    BY <1>5, <2>3, <2>4
<1>9. PICK tab \in [app : Nat, stamp : Nat] :
        /\ tab = IF index = Len(apps[a].rules) THEN IdleTab ELSE [app |-> a, stamp |-> 0]
        /\ panel' = [panel EXCEPT ![o] = tab]
  <2>1. a \in Nat
    BY <1>5
  <2>2. panel' = [panel EXCEPT ![o] = IF index = Len(apps[a].rules) THEN IdleTab
                                      ELSE [app |-> a, stamp |-> 0]]
    BY <1>2
  <2>3. IdleTab \in [app : Nat, stamp : Nat]
    BY DEF IdleTab
  <2>4. [app |-> a, stamp |-> 0] \in [app : Nat, stamp : Nat]
    BY <2>1
  <2>5. CASE index = Len(apps[a].rules)
    BY <2>2, <2>3, <2>5
  <2>6. CASE index # Len(apps[a].rules)
    BY <2>2, <2>4, <2>6
  <2> QED
    BY <2>5, <2>6
<1>10. /\ panel' \in [Operators -> [app : Nat, stamp : Nat]]
       /\ panel'[o] = tab /\ \A q \in Operators : q # o => panel'[q] = panel[q]
       /\ tab.stamp = 0 /\ tab.app \in {0, a}
       /\ tab.app = a <=> index # Len(apps[a].rules)
  BY <1>5, <1>9 DEF IdleTab
<1>11. \A q \in Operators : q # o => panel[q].app # a
  BY <1>2, <1>5 DEF ScenInv, TabsInv
<1>12. \A i \in 1 .. (n + 1) : i = n + 1 \/ i \in 1 .. n
  OBVIOUS
<1>13. /\ e.rule = apps[a].rules[index] /\ e.id = t + 1 /\ e.hits = 0
       /\ e.created = stamp /\ e.app = a /\ e.index = index
  BY <1>2, <1>4
<1>14. ScenTypes'
  BY <1>3, <1>4, <1>6, <1>7, <1>8, <1>10 DEF ScenInv, ScenTypes
<1>15. BookInv'
  <2>1. \A i \in 1 .. n :
          /\ book[i].id \in 1 .. t
          /\ book[i].hits = shots[book[i].id].n
          /\ book[i].rule.once = shots[book[i].id].once
          /\ book[i].rule.once => book[i].hits = 0
    BY <1>4, <1>5 DEF ScenInv, BookInv
  <2>2. t + 1 \in 1 .. (t + 1) /\ \A d \in 1 .. t : d \in 1 .. (t + 1) /\ d < t + 1
    OBVIOUS
  <2>3. \A i \in 1 .. (n + 1) :
          /\ book'[i].id \in 1 .. (t + 1)
          /\ book'[i].hits = shots'[book'[i].id].n
          /\ book'[i].rule.once = shots'[book'[i].id].once
          /\ book'[i].rule.once => book'[i].hits = 0
    <3>1. \A i \in 1 .. n :
            /\ book'[i].id \in 1 .. (t + 1)
            /\ book'[i].hits = shots'[book'[i].id].n
            /\ book'[i].rule.once = shots'[book'[i].id].once
            /\ book'[i].rule.once => book'[i].hits = 0
      BY <1>6, <1>7, <2>1, <2>2
    <3>2. /\ book'[n + 1].id \in 1 .. (t + 1)
          /\ book'[n + 1].hits = shots'[book'[n + 1].id].n
          /\ book'[n + 1].rule.once = shots'[book'[n + 1].id].once
          /\ book'[n + 1].hits = 0
      BY <1>6, <1>7, <1>13, <2>2
    <3> QED
      BY <1>12, <3>1, <3>2
  <2>4. ASSUME NEW i \in 1 .. (n + 1), NEW j \in 1 .. (n + 1), i < j
        PROVE  book'[i].id < book'[j].id
    <3>1. i \in 1 .. n
      BY <2>4
    <3>2. CASE j = n + 1
      BY <1>6, <1>13, <2>1, <2>2, <3>1, <3>2
    <3>3. CASE j \in 1 .. n
      BY <1>5, <1>6, <2>4, <3>1, <3>3 DEF ScenInv, BookInv
    <3> QED
      BY <1>12, <3>2, <3>3
  <2>5. \A d \in 1 .. (t + 1) : shots'[d].once => shots'[d].n <= 1
    <3>1. \A d \in 1 .. (t + 1) : d = t + 1 \/ d \in 1 .. t
      OBVIOUS
    <3>2. \A d \in 1 .. t : shots[d].once => shots[d].n <= 1
      BY <1>4 DEF ScenInv, BookInv
    <3>3. shots'[t + 1].n <= 1
      BY <1>7
    <3> QED
      BY <1>7, <3>1, <3>2, <3>3
  <2> QED
    BY <1>3, <1>4, <1>6, <2>3, <2>4, <2>5 DEF BookInv
<1>16. TabsInv'
  <2>1. ASSUME NEW q \in Operators
        PROVE  /\ panel'[q].stamp <= clock
               /\ panel'[q].app # 0 =>
                    /\ panel'[q].app \in DOMAIN apps
                    /\ apps'[panel'[q].app].placed < Len(apps'[panel'[q].app].rules)
                    /\ ~Refused(apps'[panel'[q].app].name, apps'[panel'[q].app].value)
                    /\ \A p \in Operators : panel'[p].app = panel'[q].app => p = q
                    /\ panel'[q].stamp # 0 =>
                         \A i \in DOMAIN book' :
                           book'[i].app = panel'[q].app => book'[i].created <= panel'[q].stamp
    <3>1. CASE q = o
      <4>1. panel'[q] = tab /\ tab.stamp = 0
        BY <1>10, <3>1
      <4>2. 0 <= clock
        BY DEF ScenInv, ScenTypes
      <4>3. tab.app # 0 => tab.app = a /\ index < Len(apps[a].rules)
        <5>1. Len(apps[a].rules) \in Nat
          BY <1>5 DEF AppType
        <5> QED
          BY <1>2, <1>10, <5>1
      <4>4. ~Refused(apps[a].name, apps[a].value)
        BY <1>2, <1>5 DEF ScenInv, TabsInv
      <4>5. \A p \in Operators : panel'[p].app = a => p = o
        BY <1>10, <1>11
      <4> QED
        BY <1>8, <3>1, <4>1, <4>2, <4>3, <4>4, <4>5
    <3>2. CASE q # o
      <4>1. panel'[q] = panel[q] /\ panel[q].app # a
        BY <1>10, <1>11, <3>2
      <4>2. panel[q].stamp <= clock
        BY DEF ScenInv, TabsInv
      <4>3. panel[q].app # 0 =>
              /\ panel[q].app \in DOMAIN apps
              /\ apps[panel[q].app].placed < Len(apps[panel[q].app].rules)
              /\ ~Refused(apps[panel[q].app].name, apps[panel[q].app].value)
              /\ \A p \in Operators : panel[p].app = panel[q].app => p = q
              /\ panel[q].stamp # 0 =>
                   \A i \in DOMAIN book :
                     book[i].app = panel[q].app => book[i].created <= panel[q].stamp
        BY DEF ScenInv, TabsInv
      <4>4. panel[q].app # 0 => apps'[panel[q].app] = apps[panel[q].app]
        BY <1>8, <4>1, <4>3
      <4>5. panel[q].app # 0 => \A p \in Operators : panel'[p].app = panel[q].app => p = q
        BY <1>10, <4>1, <4>3
      <4>6. panel[q].app # 0 /\ panel[q].stamp # 0 =>
              \A i \in 1 .. (n + 1) :
                book'[i].app = panel[q].app => book'[i].created <= panel[q].stamp
        BY <1>5, <1>6, <1>12, <1>13, <4>1, <4>3
      <4> QED
        BY <1>6, <4>1, <4>2, <4>3, <4>4, <4>5, <4>6
    <3> QED
      BY <3>1, <3>2
  <2> QED
    BY <1>3, <1>8, <2>1 DEF TabsInv
<1>17. PresetsInv'
  <2>1. \A i \in 1 .. n :
          /\ book[i].app \in DOMAIN apps /\ book[i].created <= clock
          /\ ~Refused(apps[book[i].app].name, apps[book[i].app].value)
          /\ 1 <= book[i].index /\ book[i].index <= apps[book[i].app].placed
          /\ book[i].rule = apps[book[i].app].rules[book[i].index]
    BY <1>5 DEF ScenInv, PresetsInv, PlacedRule
  <2>2. \A i \in 1 .. n : book[i] \in EntryType
    BY <1>5
  <2>3. \A i \in 1 .. n : book[i].index \in Nat /\ book[i].created \in Nat
    BY <2>2 DEF EntryType
  <2>4. apps[a].placed \in Nat /\ index = apps[a].placed + 1
    <3>1. apps[a] \in AppType
      BY <1>5
    <3> QED
      BY <1>2, <3>1 DEF AppType
  <2>5. clock \in Nat /\ stamp <= clock
    BY <1>2 DEF ScenInv, ScenTypes, TabsInv
  <2>6. \A i \in 1 .. n : book[i].app = a => book[i].index < index /\ book[i].created <= stamp
    <3>1. ASSUME NEW i \in 1 .. n, book[i].app = a
          PROVE  book[i].index < index
      BY <2>1, <2>3, <2>4, <3>1
    <3>2. ASSUME NEW i \in 1 .. n, book[i].app = a
          PROVE  book[i].created <= stamp
      <4>1. CASE ByForm(apps[a])
        <5>1. Len(apps[a].rules) = 1
          BY <4>1 DEF ScenInv, PresetsInv
        <5>2. apps[a].placed = 0
          BY <1>2, <2>4, <5>1
        <5> QED
          BY <2>1, <2>3, <3>2, <5>2
      <4>2. CASE ~ByForm(apps[a])
        BY <1>2, <1>5, <3>2, <4>2 DEF ScenInv, TabsInv
      <4> QED
        BY <4>1, <4>2
    <3> QED
      BY <3>1, <3>2
  <2>7. \A i \in 1 .. (n + 1) :
          /\ book'[i].app \in DOMAIN apps /\ book'[i].created <= clock
          /\ ~Refused(apps'[book'[i].app].name, apps'[book'[i].app].value)
          /\ 1 <= book'[i].index /\ book'[i].index <= apps'[book'[i].app].placed
          /\ book'[i].rule = apps'[book'[i].app].rules[book'[i].index]
    <3>1. ASSUME NEW i \in 1 .. n
          PROVE  /\ book'[i].app \in DOMAIN apps /\ book'[i].created <= clock
                 /\ ~Refused(apps'[book'[i].app].name, apps'[book'[i].app].value)
                 /\ 1 <= book'[i].index /\ book'[i].index <= apps'[book'[i].app].placed
                 /\ book'[i].rule = apps'[book'[i].app].rules[book'[i].index]
      <4>1. CASE book[i].app = a
        <5>1. book[i].index <= index
          BY <2>6, <2>3, <4>1
        <5>2. book'[i] = book[i]
          BY <1>6
        <5>3. /\ book[i].created <= clock /\ 1 <= book[i].index
              /\ ~Refused(apps[a].name, apps[a].value)
              /\ book[i].rule = apps[a].rules[book[i].index]
          BY <2>1, <4>1
        <5> QED
          BY <1>8, <4>1, <5>1, <5>2, <5>3
      <4>2. CASE book[i].app # a
        BY <1>6, <1>8, <2>1, <4>2
      <4> QED
        BY <4>1, <4>2
    <3>2. /\ e.app \in DOMAIN apps /\ e.created <= clock
          /\ ~Refused(apps'[a].name, apps'[a].value)
          /\ 1 <= e.index /\ e.index <= apps'[a].placed
          /\ e.rule = apps'[a].rules[e.index]
      <4>1. ~Refused(apps[a].name, apps[a].value)
        BY <1>2, <1>5 DEF ScenInv, TabsInv
      <4>2. 1 <= index /\ index <= index
        BY <2>4
      <4> QED
        BY <1>8, <1>13, <2>5, <4>1, <4>2
    <3> QED
      BY <1>6, <1>12, <1>13, <3>1, <3>2
  <2>8. ASSUME NEW i \in 1 .. (n + 1), NEW j \in 1 .. (n + 1), i < j,
               book'[i].app = book'[j].app
        PROVE  book'[i].index < book'[j].index /\ book'[i].created <= book'[j].created
    <3>1. i \in 1 .. n
      BY <2>8
    <3>2. CASE j = n + 1
      BY <1>6, <1>13, <2>6, <2>8, <3>1, <3>2
    <3>3. CASE j \in 1 .. n
      BY <1>5, <1>6, <2>8, <3>1, <3>3 DEF ScenInv, PresetsInv
    <3> QED
      BY <1>12, <3>2, <3>3
  <2>9. ASSUME NEW b \in DOMAIN apps
        PROVE  /\ ByForm(apps'[b]) => Len(apps'[b].rules) = 1
               /\ \/ \E q \in Operators : panel'[q].app = b
                  \/ apps'[b].placed = IF Refused(apps'[b].name, apps'[b].value) THEN 0
                                       ELSE Len(apps'[b].rules)
    <3>1. /\ ByForm(apps[b]) => Len(apps[b].rules) = 1
          /\ \/ \E q \in Operators : panel[q].app = b
             \/ apps[b].placed = IF Refused(apps[b].name, apps[b].value) THEN 0
                                 ELSE Len(apps[b].rules)
      BY DEF ScenInv, PresetsInv
    <3>2. CASE b = a
      <4>1. ~Refused(apps[a].name, apps[a].value)
        BY <1>2, <1>5 DEF ScenInv, TabsInv
      <4>2. CASE index = Len(apps[a].rules)
        BY <1>8, <3>1, <3>2, <4>1, <4>2 DEF ByForm
      <4>3. CASE index # Len(apps[a].rules)
        BY <1>8, <1>10, <3>1, <3>2, <4>3 DEF ByForm
      <4> QED
        BY <4>2, <4>3
    <3>3. CASE b # a
      <4>1. apps'[b] = apps[b]
        BY <1>8, <3>3
      <4>2. (\E q \in Operators : panel[q].app = b) => \E q \in Operators : panel'[q].app = b
        BY <1>2, <1>10, <3>3
      <4> QED
        BY <3>1, <4>1, <4>2
    <3> QED
      BY <3>2, <3>3
  <2> QED
    BY <1>3, <1>6, <1>8, <2>7, <2>8, <2>9 DEF PresetsInv, PlacedRule, ByForm
<1> QED
  BY <1>14, <1>15, <1>16, <1>17 DEF ScenInv

-----------------------------------------------------------------------------
(* The invariant *)

LEMMA ScenInvAtFirst == Init => ScenInv
<1> SUFFICES ASSUME Init
             PROVE  ScenInv
  OBVIOUS
<1>1. /\ book = <<>> /\ nextID = 0 /\ clock = 1 /\ apps = <<>> /\ shots = <<>>
      /\ panel = [o \in Operators |-> IdleTab]
      /\ call = [c \in Clients |-> IdleCall]
  BY DEF Init
<1>2. panel \in [Operators -> [app : Nat, stamp : Nat]]
      /\ call \in [Clients -> [in : Inputs \cup {NoRule}, shot : EntryType \cup {NoRule}]]
  BY <1>1 DEF IdleTab, IdleCall
<1>3. ScenTypes
  BY <1>1, <1>2 DEF ScenTypes
<1>4. BookInv /\ PresetsInv
  BY <1>1 DEF BookInv, PresetsInv
<1>5. TabsInv
  BY <1>1 DEF TabsInv, IdleTab
<1> QED
  BY <1>3, <1>4, <1>5 DEF ScenInv

LEMMA ScenInvIsInductive == ScenInv /\ [Next]_vars => ScenInv'
<1> SUFFICES ASSUME ScenInv, [Next]_vars
             PROVE  ScenInv'
  OBVIOUS
<1>1. CASE Tick
  BY <1>1, TickKeeps
<1>2. CASE Reset
  BY <1>2, ResetKeeps
<1>3. ASSUME NEW o \in Operators, NEW name \in Names, NEW value \in Values(name),
             ApplyPreset(o, name, value)
      PROVE  ScenInv'
  BY <1>3, ApplyPresetKeeps
<1>4. ASSUME NEW o \in Operators, NEW rule \in FormRules, AddByForm(o, rule)
      PROVE  ScenInv'
  BY <1>4, AddByFormKeeps
<1>5. ASSUME NEW o \in Operators, Stamp(o) \/ Place(o)
      PROVE  ScenInv'
  BY <1>5, StampKeeps, PlaceKeeps
<1>6. ASSUME NEW i \in DOMAIN book, Remove(i)
      PROVE  ScenInv'
  BY <1>6, RemoveKeeps
<1>7. ASSUME NEW c \in Clients, NEW in \in Inputs, Match(c, in) \/ MatchNothing(c, in)
      PROVE  ScenInv'
  BY <1>7, MatchKeeps, RequestsKeep
<1>8. ASSUME NEW c \in Clients, Answer(c)
      PROVE  ScenInv'
  BY <1>8, RequestsKeep
<1>9. CASE UNCHANGED vars
  BY <1>9 DEF vars, ScenInv, ScenTypes, BookInv, TabsInv, PresetsInv, PlacedRule, ByForm
<1> QED
  BY <1>1, <1>2, <1>3, <1>4, <1>5, <1>6, <1>7, <1>8, <1>9 DEF Next

LEMMA ScenInvHolds == Spec => []ScenInv
<1>1. Init => ScenInv
  BY ScenInvAtFirst
<1>2. ScenInv /\ [Next]_vars => ScenInv'
  BY ScenInvIsInductive
<1> QED
  BY <1>1, <1>2, PTL DEF Spec

-----------------------------------------------------------------------------
(* What a reader should know of *)

\* A one-shot rule shapes one answer at most, however many requests run
\* (ScenarioStore.Match).
THEOREM OneShotIsOnce == Spec => []OneShotOnce
<1>1. ScenInv => OneShotOnce
  <2> SUFFICES ASSUME ScenInv
               PROVE  OneShotOnce
    OBVIOUS
  <2>1. DOMAIN shots = 1 .. nextID
    BY DEF ScenInv, ScenTypes
  <2> QED
    BY <2>1 DEF ScenInv, BookInv, OneShotOnce
<1> QED
  BY <1>1, ScenInvHolds, PTL

\* Hits are counted exactly (ScenarioStore.Match, under the lock).
THEOREM HitsAreExact == Spec => []HitsExact
<1>1. ScenInv => HitsExact
  BY DEF ScenInv, BookInv, HitsExact
<1> QED
  BY <1>1, ScenInvHolds, PTL

\* A preset in the book is a prefix of itself, in the order it is listed in
\* (Service.ApplyPresetWithParams, ScenarioStore.List).
THEOREM PresetsArePrefixes == Spec => []PresetIsPrefix
<1>1. ScenInv => PresetIsPrefix
  BY DEF ScenInv, PresetsInv, PlacedRule, PresetIsPrefix
<1> QED
  BY <1>1, ScenInvHolds, PTL

\* The matching rule that was added first shapes the answer (ScenarioStore.Match).
THEOREM FirstAddedIsUsed == Spec => FirstAddedWins
<1>1. ScenInv /\ [Next]_vars =>
        [\A c \in Clients :
           call[c] = IdleCall /\ call'[c] # IdleCall =>
             \A i \in DOMAIN book :
               Matches(book[i].rule, call'[c].in) =>
                 call'[c].shot # NoRule /\ call'[c].shot.id <= book[i].id]_vars
  <2> SUFFICES ASSUME ScenInv, [Next]_vars, NEW c \in Clients,
                      call[c] = IdleCall, call'[c] # IdleCall, NEW i \in DOMAIN book,
                      Matches(book[i].rule, call'[c].in)
               PROVE  call'[c].shot # NoRule /\ call'[c].shot.id <= book[i].id
    OBVIOUS
  <2>1. call \in [Clients -> [in : Inputs \cup {NoRule}, shot : EntryType \cup {NoRule}]]
        /\ book \in Seq(EntryType)
    BY DEF ScenInv, ScenTypes
  <2>2. call' # call
    OBVIOUS
  <2>3. PICK d \in Clients :
          Answer(d) \/ \E in \in Inputs : Match(d, in) \/ MatchNothing(d, in)
    <3>1. \A o \in Operators : \A name \in Names : \A value \in Values(name) :
            ~ApplyPreset(o, name, value)
      BY <2>2 DEF ApplyPreset, Begin
    <3>2. \A o \in Operators : \A rule \in FormRules : ~AddByForm(o, rule)
      BY <2>2 DEF AddByForm, Begin
    <3>3. \A o \in Operators : ~Stamp(o) /\ ~Place(o)
      BY <2>2 DEF Stamp, Place
    <3>4. ~Tick /\ ~Reset /\ (\A k \in DOMAIN book : ~Remove(k)) /\ ~UNCHANGED vars
      BY <2>2 DEF Tick, Reset, Remove, vars
    <3> QED
      BY <3>1, <3>2, <3>3, <3>4 DEF Next
  <2>4. CASE Answer(d)
    BY <2>1, <2>4 DEF Answer
  <2>5. ASSUME NEW in \in Inputs, MatchNothing(d, in)
        PROVE  FALSE
    <3>1. call'[c].in = in
      BY <2>1, <2>5 DEF MatchNothing
    <3>2. i \in Matched(in)
      BY <3>1 DEF Matched
    <3> QED
      BY <2>5, <3>2 DEF MatchNothing
  <2>6. ASSUME NEW in \in Inputs, Match(d, in)
        PROVE  call'[c].shot # NoRule /\ call'[c].shot.id <= book[i].id
    <3>1. PICK k \in Matched(in) :
            /\ Chosen(k, Matched(in))
            /\ call' = [call EXCEPT ![d] = [in |-> in, shot |-> Hit(book[k])]]
      BY <2>6 DEF Match
    <3>2. c = d /\ call'[c].in = in /\ call'[c].shot = Hit(book[k])
      BY <2>1, <3>1
    <3>3. i \in Matched(in)
      BY <3>2 DEF Matched
    <3>4. k \in DOMAIN book /\ k <= i
      BY <3>1, <3>3 DEF Chosen, IsFirst, Matched
    <3>5. Hit(book[k]) \in EntryType /\ Hit(book[k]).id = book[k].id
      BY <2>1, <3>4, HitIsEntry
    <3>6. book[k].id <= book[i].id
      <4>1. k \in Nat /\ i \in Nat /\ book[k] \in EntryType
        BY <2>1, <3>4
      <4>2. book[k].id \in Nat
        BY <4>1 DEF EntryType
      <4>3. CASE k = i
        BY <4>2, <4>3
      <4>4. CASE k < i
        <5>1. book[k].id < book[i].id /\ book[i].id \in Nat
          BY <3>4, <4>4 DEF ScenInv, BookInv
        <5> QED
          BY <4>2, <5>1
      <4> QED
        BY <3>4, <4>1, <4>3, <4>4
    <3> QED
      BY <3>2, <3>5, <3>6, NoRuleAssumption
  <2> QED
    BY <2>3, <2>4, <2>5, <2>6
<1> QED
  BY <1>1, ScenInvHolds, PTL DEF Spec, FirstAddedWins

-----------------------------------------------------------------------------
(* The clock *)

\* The clock is within its bound, and no rule was created before it started.
ClockInv ==
  /\ clock \in 1 .. (MaxClock + 1)
  /\ \A i \in DOMAIN book : book[i].created # 0

LEMMA DrawingKeepsClock ==
  ASSUME ClockInv, Drawn(book', book), clock' = clock
  PROVE  ClockInv'
  BY DEF ClockInv, Drawn, DrawnBy

LEMMA PlaceKeepsClock ==
  ASSUME ScenInv, ClockInv, NEW o \in Operators, Place(o)
  PROVE  ClockInv'
<1>1. PICK e : book' = Append(book, e) /\ e.created # 0
  <2> DEFINE a     == panel[o].app
             stamp == IF ByForm(apps[a]) THEN clock ELSE panel[o].stamp
             e     == Entry(apps[a].rules[apps[a].placed + 1], stamp, a, apps[a].placed + 1)
  <2>1. book' = Append(book, e) /\ (ByForm(apps[a]) \/ panel[o].stamp # 0)
    BY DEF Place, Placed
  <2>2. e.created = stamp
    BY DEF Entry
  <2>3. stamp # 0
    BY <2>1 DEF ClockInv
  <2> HIDE DEF e
  <2> QED
    BY <2>1, <2>2, <2>3
<1>2. clock' = clock /\ book \in Seq(EntryType)
  BY DEF Place, ScenInv, ScenTypes
<1>3. PICK n \in Nat : n = Len(book)
  BY <1>2
<1>4. /\ DOMAIN book = 1 .. n /\ DOMAIN book' = 1 .. (n + 1) /\ book'[n + 1] = e
      /\ \A k \in 1 .. n : book'[k] = book[k]
  BY <1>1, <1>2, <1>3
<1> QED
  BY <1>1, <1>2, <1>3, <1>4 DEF ClockInv

LEMMA MatchKeepsClock ==
  ASSUME ScenInv, ClockInv, NEW c \in Clients, NEW in \in Inputs, Match(c, in)
  PROVE  ClockInv'
<1>1. PICK i \in DOMAIN book : book' = AfterHit(i)
  BY DEF Match, Matched
<1>2. book \in Seq(EntryType) /\ clock' = clock
  BY DEF Match, ScenInv, ScenTypes
<1>3. CASE book' = Without(book, i)
  BY <1>2, <1>3, WithoutIsDrawn, DrawingKeepsClock
<1>4. CASE book' = [book EXCEPT ![i] = Hit(@)]
  <2>1. book[i] \in EntryType
    BY <1>2
  <2>2. PICK h : h = Hit(book[i]) /\ h.created = book[i].created
    BY <2>1, HitIsEntry
  <2>3. book' = [book EXCEPT ![i] = h]
    BY <1>4, <2>2
  <2>4. DOMAIN book' = DOMAIN book /\ \A k \in DOMAIN book : book'[k].created = book[k].created
    BY <1>2, <2>2, <2>3
  <2> QED
    BY <1>2, <2>4 DEF ClockInv
<1> QED
  BY <1>1, <1>3, <1>4 DEF AfterHit

LEMMA ClockInvHolds == Spec => []ClockInv
<1>1. Init => ClockInv
  BY BoundsAssumption DEF Init, ClockInv
<1>2. ASSUME ScenInv, ClockInv, [Next]_vars
      PROVE  ClockInv'
  <2>1. CASE Tick
    BY <1>2, <2>1, BoundsAssumption DEF Tick, ClockInv
  <2>2. ASSUME book' = book /\ clock' = clock
        PROVE  ClockInv'
    BY <1>2, <2>2 DEF ClockInv
  <2>3. CASE Reset
    <3>1. clock' = clock /\ DOMAIN book' = {}
      BY <2>3 DEF Reset
    <3> QED
      BY <1>2, <3>1 DEF ClockInv
  <2>4. ASSUME NEW i \in DOMAIN book, Remove(i)
        PROVE  ClockInv'
    BY <1>2, <2>4, WithoutIsDrawn, DrawingKeepsClock DEF Remove, ScenInv, ScenTypes
  <2>5. ASSUME NEW o \in Operators, NEW name, NEW value, ApplyPreset(o, name, value)
        PROVE  ClockInv'
    BY <2>2, <2>5 DEF ApplyPreset, Begin
  <2>6. ASSUME NEW o \in Operators, NEW rule, AddByForm(o, rule)
        PROVE  ClockInv'
    BY <2>2, <2>6 DEF AddByForm, Begin
  <2>7. ASSUME NEW o \in Operators, Stamp(o)
        PROVE  ClockInv'
    BY <2>2, <2>7 DEF Stamp
  <2>8. ASSUME NEW o \in Operators, Place(o)
        PROVE  ClockInv'
    BY <1>2, <2>8, PlaceKeepsClock
  <2>9. ASSUME NEW c \in Clients, NEW in \in Inputs, Match(c, in)
        PROVE  ClockInv'
    BY <1>2, <2>9, MatchKeepsClock
  <2>10. ASSUME NEW c \in Clients, NEW in \in Inputs, MatchNothing(c, in)
         PROVE  ClockInv'
    BY <2>2, <2>10 DEF MatchNothing
  <2>11. ASSUME NEW c \in Clients, Answer(c)
         PROVE  ClockInv'
    BY <2>2, <2>11 DEF Answer
  <2>12. CASE UNCHANGED vars
    BY <2>2, <2>12 DEF vars
  <2> QED
    BY <1>2, <2>1, <2>3, <2>4, <2>5, <2>6, <2>7, <2>8, <2>9, <2>10, <2>11, <2>12 DEF Next
<1>3. ScenInv /\ ClockInv /\ [Next]_vars => ClockInv'
  BY <1>2
<1> QED
  BY <1>1, <1>3, ScenInvHolds, PTL DEF Spec

\* Every rule in the book comes from an application, is numbered and dated, and
\* no application places more rules than it has.
THEOREM BookIsTyped == Spec => []TypeOK
<1>1. ASSUME ScenInv, ClockInv
      PROVE  TypeOK
  <2>1. /\ nextID \in Nat /\ clock \in 1 .. (MaxClock + 1) /\ DOMAIN shots = 1 .. nextID
        /\ apps \in Seq(AppType)
    BY <1>1 DEF ScenInv, ScenTypes, ClockInv
  <2>2. ASSUME NEW a \in DOMAIN apps
        PROVE  apps[a].placed \in 0 .. Len(apps[a].rules)
    <3>1. PICK app \in AppType : app = apps[a]
      BY <2>1
    <3>2. app.placed \in Nat /\ Len(app.rules) \in Nat
      BY <3>1 DEF AppType
    <3>3. CASE \E o \in Operators : panel[o].app = a
      <4>1. a # 0
        BY <2>1
      <4>2. app.placed < Len(app.rules)
        BY <1>1, <3>1, <3>3, <4>1 DEF ScenInv, TabsInv
      <4> QED
        BY <3>1, <3>2, <4>2
    <3>4. CASE app.placed = 0 \/ app.placed = Len(app.rules)
      BY <3>1, <3>2, <3>4
    <3> QED
      BY <1>1, <3>1, <3>3, <3>4 DEF ScenInv, PresetsInv
  <2>3. ASSUME NEW i \in DOMAIN book
        PROVE  StoredRule(book[i])
    <3>1. PICK e \in EntryType : e = book[i]
      BY <1>1 DEF ScenInv, ScenTypes
    <3>2. /\ e.id \in 1 .. nextID /\ e.created # 0
          /\ e.app \in DOMAIN apps /\ e.created <= clock
          /\ 1 <= e.index /\ e.index <= apps[e.app].placed
      BY <1>1, <3>1 DEF ScenInv, BookInv, PresetsInv, PlacedRule, ClockInv
    <3>3. e.created \in Nat /\ e.index \in Nat
      BY <3>1 DEF EntryType
    <3>4. e.created \in 1 .. clock
      BY <2>1, <3>2, <3>3
    <3>5. PICK app \in AppType : app = apps[e.app]
      BY <2>1, <3>2
    <3>6. app.rules \in Seq(RuleType) /\ app.placed \in 0 .. Len(app.rules)
      BY <2>2, <3>2, <3>5 DEF AppType
    <3>7. e.index \in DOMAIN apps[e.app].rules
      BY <3>2, <3>3, <3>5, <3>6
    <3> QED
      BY <3>1, <3>2, <3>4, <3>7 DEF StoredRule
  <2>4. \A o \in Operators : panel[o].app \in {0} \cup DOMAIN apps
    BY <1>1 DEF ScenInv, TabsInv
  <2> QED
    BY <2>1, <2>2, <2>3, <2>4 DEF TypeOK
<1> QED
  BY <1>1, ScenInvHolds, ClockInvHolds, PTL

-----------------------------------------------------------------------------
(* Applications that do not overlap *)

\* What was over when an application began stays over.
OverStays ==
  \A b \in DOMAIN apps :
    apps[b].after \subseteq {a \in DOMAIN apps : \A o \in Operators : panel[o].app # a}

\* The clock was read after the rules of those applications were placed.
StampIsLater ==
  \A o \in Operators :
    panel[o].app # 0 /\ panel[o].stamp # 0 =>
      \A i \in DOMAIN book :
        book[i].app \in apps[panel[o].app].after => book[i].created <= panel[o].stamp

LaterInv == OverStays /\ StampIsLater /\ ListedAsMatched

\* Rules taken out of the book change nothing of it.
LEMMA DrawingKeepsLater ==
  ASSUME ScenInv, LaterInv, Drawn(book', book), book' \in Seq(EntryType),
         UNCHANGED <<apps, panel>>
  PROVE  LaterInv'
<1>1. PICK f : DrawnBy(f, book', book)
  BY DEF Drawn
<1>2. OverStays' /\ StampIsLater'
  BY <1>1 DEF LaterInv, OverStays, StampIsLater, DrawnBy
<1>3. ASSUME NEW i \in DOMAIN book', NEW j \in DOMAIN book',
             book'[i].app \in apps[book'[j].app].after
      PROVE  i < j /\ book'[i].created <= book'[j].created
  <2>1. f[i] \in DOMAIN book /\ f[j] \in DOMAIN book
    BY <1>1 DEF DrawnBy
  <2>2. f[i] < f[j] /\ book[f[i]].created <= book[f[j]].created
    BY <1>1, <1>3, <2>1 DEF DrawnBy, LaterInv, ListedAsMatched
  <2>3. i \in Nat /\ j \in Nat /\ f[i] \in Nat /\ f[j] \in Nat
    BY <2>1 DEF ScenInv, ScenTypes
  <2>4. j < i => f[j] < f[i]
    BY <1>1 DEF DrawnBy
  <2>5. i < j
    BY <2>2, <2>3, <2>4
  <2> QED
    BY <1>1, <2>2, <2>5 DEF DrawnBy
<1>4. ListedAsMatched'
  BY <1>3 DEF ListedAsMatched
<1> QED
  BY <1>2, <1>4 DEF LaterInv

\* A new application comes after those that are over, and is over for none.
LEMMA BeginKeepsLater ==
  ASSUME ScenInv, LaterInv, NEW o \in Operators, NEW app \in AppType, NEW goesOn,
         app.after = Over, MayBegin(o), Begin(o, app, goesOn)
  PROVE  LaterInv'
<1>1. PICK n \in Nat : n = Len(apps) /\ DOMAIN apps = 1 .. n
  BY DEF ScenInv, ScenTypes
<1>2. /\ DOMAIN apps' = 1 .. (n + 1) /\ Len(apps') = n + 1 /\ apps'[n + 1] = app
      /\ \A a \in 1 .. n : apps'[a] = apps[a]
  BY <1>1 DEF Begin, ScenInv, ScenTypes
<1>3. PICK m \in {0, n + 1} : panel' = [panel EXCEPT ![o].app = m]
  BY <1>2 DEF Begin
<1>4. /\ book' = book /\ panel'[o].app = m /\ panel'[o].stamp = 0
      /\ \A q \in Operators : q # o => panel'[q] = panel[q]
  BY <1>3 DEF Begin, MayBegin, IdleTab, ScenInv, ScenTypes
<1>5. n + 1 \notin 1 .. n /\ 0 \notin 1 .. n /\ \A a \in 1 .. n : a \in 1 .. (n + 1)
  OBVIOUS
<1>6. \A i \in DOMAIN book : book[i].app \in 1 .. n
  BY <1>1 DEF ScenInv, PresetsInv, PlacedRule
<1>7. \A q \in Operators : panel[q].app # 0 => panel[q].app \in 1 .. n
  BY <1>1 DEF ScenInv, TabsInv
<1>8. ASSUME NEW b \in 1 .. (n + 1), NEW a \in apps'[b].after
      PROVE  a \in 1 .. n /\ \A q \in Operators : panel'[q].app # a
  <2>1. CASE b = n + 1
    <3>1. a \in 1 .. n /\ \A q \in Operators : panel[q].app # a
      BY <1>1, <1>2, <1>8, <2>1 DEF Over
    <3> QED
      BY <1>4, <1>5, <3>1
  <2>2. CASE b \in 1 .. n
    <3>1. a \in 1 .. n /\ \A q \in Operators : panel[q].app # a
      BY <1>1, <1>2, <1>8, <2>2 DEF LaterInv, OverStays
    <3> QED
      BY <1>4, <1>5, <3>1
  <2> QED
    BY <2>1, <2>2
<1>9. OverStays'
  BY <1>2, <1>5, <1>8 DEF OverStays
<1>10. StampIsLater'
  BY <1>1, <1>2, <1>4, <1>7 DEF LaterInv, StampIsLater
<1>11. ListedAsMatched'
  BY <1>2, <1>4, <1>6 DEF LaterInv, ListedAsMatched
<1> QED
  BY <1>9, <1>10, <1>11 DEF LaterInv

\* A rule is placed after those of the applications that were over, and none of
\* an application that runs is placed yet to come before it.
LEMMA PlaceKeepsLater ==
  ASSUME ScenInv, LaterInv, NEW o \in Operators, Place(o)
  PROVE  LaterInv'
<1>1. PICK a \in DOMAIN apps, index, stamp \in Nat, e \in EntryType :
        /\ a = panel[o].app
        /\ stamp = IF ByForm(apps[a]) THEN clock ELSE panel[o].stamp
        /\ ByForm(apps[a]) \/ panel[o].stamp # 0
        /\ e = [rule |-> apps[a].rules[index], id |-> nextID + 1, hits |-> 0,
                created |-> stamp, app |-> a, index |-> index]
        /\ book' = Append(book, e)
        /\ apps' = [apps EXCEPT ![a].placed = index]
        /\ panel' = [panel EXCEPT ![o] = IF index = Len(apps[a].rules) THEN IdleTab
                                         ELSE [app |-> a, stamp |-> 0]]
  <2>1. PICK a \in DOMAIN apps : \E index, stamp \in Nat : \E e \in EntryType :
          /\ a = panel[o].app /\ index = apps[a].placed + 1
          /\ index <= Len(apps[a].rules)
          /\ stamp = IF ByForm(apps[a]) THEN clock ELSE panel[o].stamp
          /\ ByForm(apps[a]) \/ panel[o].stamp # 0
          /\ e = [rule |-> apps[a].rules[index], id |-> nextID + 1, hits |-> 0,
                  created |-> stamp, app |-> a, index |-> index]
          /\ book' = Append(book, e)
          /\ shots' = Append(shots, [once |-> e.rule.once, n |-> 0])
          /\ apps' = [apps EXCEPT ![a].placed = index]
          /\ panel' = [panel EXCEPT ![o] = IF index = Len(apps[a].rules) THEN IdleTab
                                           ELSE [app |-> a, stamp |-> 0]]
    BY PlaceEffect
  <2> QED
    BY <2>1
<1>2. PICK n \in Nat : n = Len(book)
  BY DEF ScenInv, ScenTypes
<1>3. /\ DOMAIN book = 1 .. n /\ DOMAIN book' = 1 .. (n + 1) /\ book'[n + 1] = e
      /\ \A i \in 1 .. n : book'[i] = book[i]
  BY <1>1, <1>2 DEF ScenInv, ScenTypes
<1>4. /\ DOMAIN apps' = DOMAIN apps
      /\ \A b \in DOMAIN apps : apps'[b].after = apps[b].after
  <2>1. apps \in Seq(AppType)
    BY DEF ScenInv, ScenTypes
  <2>2. \A b \in DOMAIN apps : apps[b] \in AppType
    BY <2>1
  <2> QED
    BY <1>1, <2>1, <2>2 DEF AppType
<1>5. /\ panel'[o].app \in {0, a} /\ panel'[o].stamp = 0
      /\ \A q \in Operators : q # o => panel'[q] = panel[q]
  BY <1>1 DEF IdleTab, ScenInv, ScenTypes
<1>6. 0 \notin DOMAIN apps /\ e.app = a /\ e.created = stamp
  BY <1>1 DEF ScenInv, ScenTypes
<1>7. \A b \in DOMAIN apps : a \notin apps[b].after
  BY <1>1 DEF LaterInv, OverStays
<1>8. \A i \in 1 .. n : book[i].app \in DOMAIN apps /\ book[i].created <= clock
  BY <1>3 DEF ScenInv, PresetsInv, PlacedRule
<1>9. \A q \in Operators : panel[q].app # 0 => panel[q].app \in DOMAIN apps
  BY DEF ScenInv, TabsInv
<1>10. \A i \in 1 .. (n + 1) : i = n + 1 \/ i \in 1 .. n
  OBVIOUS
<1>11. OverStays'
  <2>1. ASSUME NEW b \in DOMAIN apps, NEW x \in apps[b].after
        PROVE  x \in DOMAIN apps /\ \A q \in Operators : panel'[q].app # x
    <3>1. x \in DOMAIN apps /\ \A q \in Operators : panel[q].app # x
      BY <2>1 DEF LaterInv, OverStays
    <3> QED
      BY <1>5, <1>6, <1>7, <3>1
  <2> QED
    BY <1>4, <2>1 DEF OverStays
<1>12. StampIsLater'
  <2>1. ASSUME NEW q \in Operators, panel'[q].app # 0, panel'[q].stamp # 0,
               NEW i \in 1 .. (n + 1), book'[i].app \in apps'[panel'[q].app].after
        PROVE  book'[i].created <= panel'[q].stamp
    <3>1. panel'[q] = panel[q] /\ panel[q].app \in DOMAIN apps
      BY <1>5, <1>9, <2>1
    <3>2. book'[i].app \in apps[panel[q].app].after
      BY <1>4, <2>1, <3>1
    <3>3. i \in 1 .. n
      BY <1>3, <1>6, <1>7, <1>10, <3>1, <3>2
    <3> QED
      BY <1>3, <2>1, <3>1, <3>2, <3>3 DEF LaterInv, StampIsLater
  <2> QED
    BY <1>3, <2>1 DEF StampIsLater
<1>13. ListedAsMatched'
  <2>1. ASSUME NEW i \in 1 .. (n + 1), NEW j \in 1 .. (n + 1),
               book'[i].app \in apps'[book'[j].app].after
        PROVE  i < j /\ book'[i].created <= book'[j].created
    <3>1. book'[j].app \in DOMAIN apps
      BY <1>3, <1>6, <1>8, <1>10
    <3>2. book'[i].app \in apps[book'[j].app].after
      BY <1>4, <2>1, <3>1
    <3>3. i \in 1 .. n
      BY <1>3, <1>6, <1>7, <1>10, <3>1, <3>2
    <3>4. CASE j = n + 1
      <4>1. book[i].app \in apps[a].after
        BY <1>3, <1>6, <3>2, <3>3, <3>4
      <4>2. book[i].created <= stamp
        <5>1. CASE ByForm(apps[a])
          BY <1>1, <1>8, <3>3, <5>1
        <5>2. CASE ~ByForm(apps[a])
          BY <1>1, <1>3, <1>6, <3>3, <4>1, <5>2 DEF LaterInv, StampIsLater
        <5> QED
          BY <5>1, <5>2
      <4> QED
        BY <1>3, <1>6, <3>3, <3>4, <4>2
    <3>5. CASE j \in 1 .. n
      BY <1>3, <3>2, <3>3, <3>5 DEF LaterInv, ListedAsMatched
    <3> QED
      BY <1>10, <3>4, <3>5
  <2> QED
    BY <1>3, <2>1 DEF ListedAsMatched
<1> QED
  BY <1>11, <1>12, <1>13 DEF LaterInv

LEMMA StampKeepsLater ==
  ASSUME ScenInv, LaterInv, NEW o \in Operators, Stamp(o)
  PROVE  LaterInv'
<1>1. /\ panel' = [panel EXCEPT ![o].stamp = clock] /\ book' = book /\ apps' = apps
      /\ panel \in [Operators -> [app : Nat, stamp : Nat]]
  BY DEF Stamp, ScenInv, ScenTypes
<1>2. /\ panel'[o].stamp = clock
      /\ \A q \in Operators : /\ panel'[q].app = panel[q].app
                              /\ q # o => panel'[q].stamp = panel[q].stamp
  BY <1>1
<1>3. \A i \in DOMAIN book : book[i].created <= clock
  BY DEF ScenInv, PresetsInv, PlacedRule
<1>4. OverStays' /\ ListedAsMatched'
  BY <1>1, <1>2 DEF LaterInv, OverStays, ListedAsMatched
<1>5. StampIsLater'
  BY <1>1, <1>2, <1>3 DEF LaterInv, StampIsLater
<1> QED
  BY <1>4, <1>5 DEF LaterInv

LEMMA MatchKeepsLater ==
  ASSUME ScenInv, LaterInv, NEW c \in Clients, NEW in \in Inputs, Match(c, in)
  PROVE  LaterInv'
<1>1. PICK i \in DOMAIN book : book' = AfterHit(i)
  BY DEF Match, Matched
<1>2. book \in Seq(EntryType) /\ UNCHANGED <<apps, panel>>
  BY DEF Match, ScenInv, ScenTypes
<1>3. CASE book' = Without(book, i)
  BY <1>2, <1>3, WithoutFacts, WithoutIsDrawn, DrawingKeepsLater
<1>4. CASE book' = [book EXCEPT ![i] = Hit(@)]
  <2>1. book[i] \in EntryType
    BY <1>2
  <2>2. PICK h \in EntryType :
          h = Hit(book[i]) /\ h.created = book[i].created /\ h.app = book[i].app
    BY <2>1, HitIsEntry
  <2>3. book' = [book EXCEPT ![i] = h]
    BY <1>4, <2>2
  <2>4. /\ DOMAIN book' = DOMAIN book
        /\ \A k \in DOMAIN book : /\ book'[k].created = book[k].created
                                  /\ book'[k].app = book[k].app
    BY <1>2, <2>2, <2>3
  <2> QED
    BY <1>2, <2>4 DEF LaterInv, OverStays, StampIsLater, ListedAsMatched
<1> QED
  BY <1>1, <1>3, <1>4 DEF AfterHit

LEMMA LaterInvHolds == Spec => []LaterInv
<1>1. Init => LaterInv
  BY DEF Init, IdleTab, LaterInv, OverStays, StampIsLater, ListedAsMatched
<1>2. ASSUME ScenInv, LaterInv, [Next]_vars
      PROVE  LaterInv'
  <2>1. ASSUME UNCHANGED <<book, apps, panel>>
        PROVE  LaterInv'
    BY <1>2, <2>1 DEF LaterInv, OverStays, StampIsLater, ListedAsMatched
  <2>2. CASE Tick
    BY <2>1, <2>2 DEF Tick
  <2>3. CASE Reset
    <3>1. book' = <<>> /\ UNCHANGED <<apps, panel>>
      BY <2>3 DEF Reset
    <3>2. book' \in Seq(EntryType) /\ Drawn(book', book)
      BY <3>1 DEF Drawn, DrawnBy
    <3> QED
      BY <1>2, <3>1, <3>2, DrawingKeepsLater
  <2>4. ASSUME NEW i \in DOMAIN book, Remove(i)
        PROVE  LaterInv'
    <3>1. book' = Without(book, i) /\ book \in Seq(EntryType) /\ UNCHANGED <<apps, panel>>
      BY <1>2, <2>4 DEF Remove, ScenInv, ScenTypes
    <3> QED
      BY <1>2, <3>1, WithoutFacts, WithoutIsDrawn, DrawingKeepsLater
  <2>5. ASSUME NEW o \in Operators, NEW name \in Names, NEW value \in Values(name),
               ApplyPreset(o, name, value)
        PROVE  LaterInv'
    <3>1. PICK app : app = App(name, value, Overridden(name, value))
      OBVIOUS
    <3>2. app \in AppType /\ app.after = Over
      BY <1>2, <3>1, AppIsTyped DEF App
    <3>3. MayBegin(o) /\ Begin(o, app, ~Refused(name, value))
      BY <2>5, <3>1 DEF ApplyPreset
    <3> QED
      BY <1>2, <3>2, <3>3, BeginKeepsLater
  <2>6. ASSUME NEW o \in Operators, NEW rule \in FormRules, AddByForm(o, rule)
        PROVE  LaterInv'
    <3>1. PICK app : app = App("form", "none", <<rule>>)
      OBVIOUS
    <3>2. app \in AppType /\ app.after = Over
      BY <1>2, <3>1, AppIsTyped DEF App
    <3>3. MayBegin(o) /\ Begin(o, app, TRUE)
      BY <2>6, <3>1 DEF AddByForm
    <3> QED
      BY <1>2, <3>2, <3>3, BeginKeepsLater
  <2>7. ASSUME NEW o \in Operators, Stamp(o) \/ Place(o)
        PROVE  LaterInv'
    BY <1>2, <2>7, StampKeepsLater, PlaceKeepsLater
  <2>8. ASSUME NEW c \in Clients, NEW in \in Inputs, Match(c, in)
        PROVE  LaterInv'
    BY <1>2, <2>8, MatchKeepsLater
  <2>9. ASSUME NEW c \in Clients, Answer(c) \/ \E in \in Inputs : MatchNothing(c, in)
        PROVE  LaterInv'
    BY <2>1, <2>9 DEF Answer, MatchNothing
  <2>10. CASE UNCHANGED vars
    BY <2>1, <2>10 DEF vars
  <2> QED
    BY <1>2, <2>2, <2>3, <2>4, <2>5, <2>6, <2>7, <2>8, <2>9, <2>10 DEF Next
<1>3. ScenInv /\ LaterInv /\ [Next]_vars => LaterInv'
  BY <1>2
<1> QED
  BY <1>1, <1>3, ScenInvHolds, PTL DEF Spec

\* The panel lists the rules of applications that do not overlap in the order
\* they fire in (Service.addFor, ScenarioStore.List against ScenarioStore.Match).
THEOREM ListIsInOrder == Spec => []ListedAsMatched
<1>1. LaterInv => ListedAsMatched
  BY DEF LaterInv
<1> QED
  BY <1>1, LaterInvHolds, PTL
=============================================================================
