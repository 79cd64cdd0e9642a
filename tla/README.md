# A formal model of ChaosPay

ChaosPay is a mock of four payment providers (Freedom Pay, Halyk Epay, Flitt,
Kaspi) that a payment gateway, called PG below, is tested against. It keeps
payments in memory, answers the providers' HTTP APIs, can be told to misbehave
by scenarios, and has a panel from which an operator changes payments, sends
webhooks and resets everything. Paths below are relative to the repository.

This directory holds the TLA+ modules that model it, the TLC configurations
that check them, and the proofs TLAPS checks. `PROJECT.json` maps every
definition to the lines it models and lists runs, mutants, findings, hazards
and theorems.

## 1. Inventory

All state is in memory and is lost at a restart. Every HTTP request is a
goroutine of its own; every repository has one mutex, held for one repository
call and never between two. That gap, between the call that reads and the call
that writes, is where most of the system's hard behaviour is.

| Component | State | Operations | Talks to | Hard behaviour | Correct when |
|---|---|---|---|---|---|
| Payment store, `internal/infrastructure/memstore/pay.go` | records by id, index by order number, id counter | NextPaymentID, Create, Get, GetByOrder, List, Update, Transition, MarkWebhookSent, Reset | card services | ids taken outside the lock; reset under requests in flight; counter starts from the clock at boot | an id names one thing for ever |
| Payment domain, `internal/domain/pay` | none | statuses, AllowedTransitions, Record, RefundOp | store, services | none of its own | only the table's moves happen |
| Freedom and wallets, `internal/application/pay/service.go` | none | HoldInit, Hold, Capture, Cancel, Revoke, CreateHosted, CreateBind, AuthorizeWallet, ApplyForce, sends | store, webhook clients | check on a snapshot, write without a check; unsigned arithmetic; webhook goroutines | totals, refund list and status tell one story |
| Epay, `internal/application/pay/epay.go` | EpayVisibleAt of a record | EpayAuthorize, Decline, LateOperation, Charge, Cancel, Refund, reveal | store | create and authorize in two calls; operations that become visible by time | charge on a hold, refund on a charge, own bank only; what was found stays found |
| Flitt, `internal/application/pay/flitt.go` | none | Checkout, Direct, Recurring, Capture, Reverse, Complete3DS, callback | store, callback client | decline written unchecked; a reversal chooses between cancel and refund on a snapshot | as Epay |
| Scenarios, `internal/domain/scenario`, `memstore/scenario.go`, `application/scenario`, `ports/api/scenarioapply` | ordered rules, hit counts | add, delete, match, presets, reset | every API handler | consume-once rules under concurrency; presets placed rule by rule | a one-shot rule shapes one answer, the first rule added wins, and the panel lists rules as they fire |
| API handlers, `internal/ports/api/{pay,wallet,epay,flitt}` | none | parse, match a rule, call the service, answer, send postlinks | services, scenarios | faults before or after the operation; a silent hold in a goroutine; a postlink before the acknowledgement | answer, payment and notification differ only where a rule asks for it |
| QR payments, `domain/qr`, `memstore/qr.go`, `application/qr` | QR codes, refunds | create, set status, expire, refund, confirm refund | webhook client | the expiry goroutine races status changes; TrnIDs from the clock | a terminal status stays and is announced once |
| Kaspi payments, `domain/kaspi`, `memstore/kaspi.go`, `application/kaspi` | payments by id, id counter | create link, get status, set status (test confirm and decline) | PG, which polls | a status changes while PG polls; no check of any status, old or new | a poll tells what was set last for that payment |
| Request log, `memstore/requestlog.go` | the last 200 entries | add, list, get, reset | middleware, panel | dropping at capacity; pages older than the log | the newest entries are kept, as many as fit, in order, under their ids |
| Webhook clients, `infrastructure/pgclient` | none | build and POST | PG | failure is not retried | body tells the record it was given |
| Bank registry, `domain/bank` | none | FromPath | panel, log | none | each path belongs to one bank |
| Panel, `internal/ports/panel` | none | create_synthetic, force, sends, scenarios, reset | services | bypasses every check | state stays well-formed |
| Loyalty, health, signatures, XML, QR image, config, main | none | | | | |

The hazards in `PROJECT.json` list, by line, what of this is hard to test.

## 2. Plan and what became of it

| Step | Modules | Proofs | State |
|---|---|---|---|
| Card payments: the services over the store, call by call | `PayDomain`, `CardPayments`, `PaymentLifecycle` and `ConcurrentLifecycle` (abstract), `MCCardPayments` | `CardPaymentsProofs`, `CardPaymentsIds`, `CardPaymentsHistory`, `CardPaymentsSequential` | done |
| Scenarios: matching, hit counts, presets | `ScenarioRules`, `ScenarioPresets`, `Scenarios`, `MCScenarios` | `ScenariosProofs` | done |
| Handlers: rules, faults, answers, notifications, late operations | `Gateway`, `EpayGateway`, `FlittGateway`, `FreedomGateway`, `Gateways`, `MCGateways` | `GatewaysSteps`, `GatewaysProofs` | done |
| QR codes | `QRCodes` | `DeskProofs` | done |
| Kaspi payments | `KaspiPayments` | `DeskProofs` | done |
| Request log | `RequestLog`, `RecentRequests` (abstract) | `DeskProofs` | done |
| One run for the last three | `Desk`, `MCDesk` | `DeskProofs` | done |
| The id counter across restarts, approval codes | none | none | dropped, see section 6 |

Who composes whom: `Gateways` extends the three banks' modules, which extend
`Gateway`, which uses the matching of `ScenarioRules` and the record and arithmetic
of `PayDomain`; `MCGateways` adds the rules of `ScenarioPresets`, the same that
`Scenarios` places in the book. `Desk` extends the three parts that share
no state. `CardPayments` and `Gateway` look at the same services from two sides:
the first interleaves their repository calls, the second takes a service call
as one step and interleaves requests, goroutines and time.

## 3. The modules and the code

### PayDomain

`Record` keeps of `pay.Record` what the code decides on: bank, status, amount,
captured, refunded, the refund operations, the set of statuses its history has
recorded and the first of them, and whether its webhook was sent. Go's `uint`
is `Uint`, the words below `Word`, with wrapping `Plus` and `Minus`; `AsInt` is the
conversion to a signed number that a refund operation is stored with. `Word` is
2^64 in the program and small under TLC, so that sums wrap within a few steps.
`AllowedTransitions` is the function of that name; the nil map it returns for a
target outside the table, which `Transition` takes as no restriction, is the set
of all statuses.

### CardPayments

State: `store` (`PayRepo.byID`), `nextID` (its counter, from its base),
`req` (what each request goroutine still has to do), `webhooks` (goroutines
started by `maybeWebhook` and its siblings that have not sent yet).

A service method is a sequence of repository calls. In the model its first
action takes the snapshot the method decides on, checks what the method checks,
and leaves in `req` the calls to come with the arguments computed from that
snapshot; every later repository call is one action, and steps of other
clients, resets and webhooks come in between:

| Method | First action | then |
|---|---|---|
| HoldInit, CreateHosted, CreateBind | the opener of that name takes an id | Create |
| EpayAuthorize | takes an id | Create, Transition (not when 3DS is asked for) |
| EpayDecline | takes an id | Create, CommitFail |
| EpayLateOperation | takes an id | Create, ReadBack |
| FlittCheckout | takes an id | Create |
| FlittDirect, FlittRecurring | take an id | Create, then Transition, CommitFail or CommitFields |
| Hold, Cancel, EpayCancel | look | Transition |
| AuthorizeWallet | looks | Transition, CommitFields |
| Capture, EpayCharge, FlittCapture | look | CommitCapture |
| RevokeWithOutcome | looks | TakeRefundID, CommitRevoke |
| EpayRefund | looks | CommitRefund |
| FlittReverse | looks | Transition or CommitRefund |
| FlittComplete3DS | looks | Transition, or the answer as it is |
| handleConfirm, declined by a scenario | ConfirmDeclined | |
| ApplyForce | ApplyForce | |
| create_synthetic | CreateSynthetic | Create, Transition for Epay, ForceSynthetic |

`Update` is the store's Update, which does not look at the stored status;
`Transition` is the one that does. `ApplyForce` and `ConfirmDeclined` are one action
each: their Get only finds the record and its bank never changes, so nothing
read before the Update is used after it except whether the record exists. A
webhook goroutine may send at any time, in any order, or fail; a Freedom or
Flitt send marks the record, if it is still there.

What is abstracted:

- lookups by order number: a method is called with any id that exists (they
  are in `Gateway`);
- a method its first look refuses changes nothing and is no step;
- the openers of one bank differ in fields the model does not keep, and a
  request tells them apart by the bank only;
- card data, texts, time stamps, kind and reference;
- when a late Epay operation is visible, and what a client is answered (both
  are in `Gateway`);
- `AuthorizeWallet` ignores the error of its first repository write only to
  return; when the second fails because of a reset, the handler panics on a nil
  record and net/http recovers: the state is left alone, which is a return.

### PaymentLifecycle

The abstract specification: a status per payment, the ids used so far, the
moves of the table. `CardPayments` maps to it by the stored statuses and by the
ids taken, without those whose payment is still to be stored.

### ConcurrentLifecycle

What is left of that promise when clients interleave, and the abstract
specification of the service in the general case. A payment keeps besides its
status the statuses it has been in, what was captured and what was refunded;
`CardPayments` maps to it by `PaymentOf`. Each step is one change of one payment, and
its guard is on the payment's own past, not on anything a request remembers:
`Settle` obeys the table, `Charge` needs a hold in the past, `GiveBack` a charge, and computes total and
status together; `Decline`, which is written unchecked, only needs a payment. That the last three ask
nothing of the present status is what the store's unchecked `Update` leaves open.

### MCCardPayments

Two workloads. `FreedomSpec` has Freedom and the wallets, and leaves room for
three ids; `BanksSpec` has Epay and Flitt on one store, with the methods of Freedom
that do not look at the bank. Of the requests without the panel only `ConfirmDeclined` is in neither, which
multiplies the states and whose effect `CommitFail` has too: it is in `sequential` and `panel`. `GatewaySpec` (all banks, no panel) and `Spec`
(with the panel) are in `CardPayments`.

### ScenarioRules, ScenarioPresets

`ScenarioRules` has the rule (`scenario.Scenario`, with the one parameter that
changes what happens next as `arg`, and whether an operation is late), the
matching of banks, fields and wildcards, and the names of the endpoints. The filter by
merchant (`scenario.go:222`) is left out: no preset sets it, and the rules here have it wild.
`ScenarioPresets` has every preset of `service.go`: per bank, a set of
presets, each a name with the lines of the rules `ApplyPreset` adds for it
(`PresetRules`); and what a parameter of the form does to them.
`context_deadline` is offered on Freedom's page, but its rule is for any bank,
as the code has it. Three presets are markers for the operator, whose rule is a
delay of 0 (`service.go:1159-1166`, `1213-1217`): the rule takes part in the matching
and changes no answer. The table of presets the panel shows is text and left out.

### Scenarios

`book` is the slice of the store, `panel` the operators' requests under way and
`call` the clients' requests with the copy of the rule they matched. `Match`, `Place`
(Add), `Remove` and `Reset` are one step each, since each holds the lock from
beginning to end. A preset is a loop outside it: `Stamp` reads the clock for the
next rule, `Place` appends it, and anything may happen in between. `apps` and
`shots` are history: what was applied and what was over by then, and how many answers each rule shaped.

### Gateway, EpayGateway, FlittGateway, FreedomGateway, Gateways

A client's request first looks for a rule (`Ask`: the match, its count and its
removal, under the lock), then is served in one further step: refused by the
rule, cut off by it, or carried out and its answer given as it is or distorted.
Between the two steps other requests, the goroutines left behind and time run.
`pays` are the payments with their order, kind and whether they are still hidden,
`notes` what was handed over to be notified and how often, `due` the goroutines that
read the store once more before they notify (the early postlink), `holds` the payments the
goroutines of silent holds are to authorize, `last` the answer given.

| Handler's step | Action |
|---|---|
| applyScenarioBefore: rules that answer for the handler | `EpayRefuse`, `FlittRefuse`, `FreedomRefuse` and the `Cut` actions |
| the handler of each endpoint | the action named after it (`EpayCryptopay`, `EpayConfirm`, `FlittCapture`, `PayWallet`, ...) |
| the early postlink's goroutine | `RunLookup` |
| the silent hold's goroutine | `AsyncHold` |
| EpayVisibleAt passes, or the panel reveals | `TimePasses`, `Reveal` |

Decisions taken:

- `handleCardAuth` never sets Requires3DS on its payment although under
  force_3ds it answers `secure3D`, and that is how it is modelled;
- the early postlink's goroutine reads the payment id from the log entry that
  its own handler is still writing, with no synchronisation: the model lets it
  read nothing or the id, before or after the payment is stored. A torn read of the
  string is possible under Go's memory model and has, for the properties, the outcomes
  already there: a payment that is not found;
- the panel's reset of the payments is not in `Gateway`; what a reset does to
  requests under way is the subject of `CardPayments`;
- refund ids are numbered per payment here (the counter they share with payments is in
  `CardPayments`);
- an outcome that the form can name at Flitt but no preset does, and the
  verification of a saved card by an amount of 0 at `card_auth`, are left out;
- Flitt's status by order falls back to a payment id (`application/pay/flitt.go:329`); the
  model's order numbers are no payment ids, so the fallback finds nothing and is left out;
- a note is what is handed over to the client that sends it; whether PG gets it
  is outside.

### QRCodes

One action per handler and per step of `autoExpire`: the timer or the context ends
the wait (`TimeUp`, `TooLate`), the goroutine looks at the code, marks it expired, and
announces it, with the API, the panel and other codes in between. `issued` are all
TrnIDs ever given out, `told` all webhooks, `offers` the payments listed and the refund they were listed for,
`confirmed` the confirmations answered OK: history the properties need.

- Amounts and references are left out: nothing is decided by them. The code does
  not validate the parent of a refund, and neither does the model.
- The API takes any string as a status; the model has the known ones, "other" standing for the rest.
- `TrnID` is the clock in milliseconds plus a counter. The wall clock is assumed not to run
  back. Any number of codes may succeed at one instant.
- The context of `autoExpire` ends one second after its timer. A goroutine that
  runs more than a second late finds both ready and Go's select takes either:
  `TooLate` is that choice, and `missed` a goroutine that took the context.

### KaspiPayments

Links with the id the store gives and the one the shop sends, which may repeat;
polls, and what the last one was answered (`polled`); the settings of a status, by
the test endpoints (Processed, Error) and by the panel, whose handler passes on any text but the
empty one: "Wait" and "other" stand for what only it sets. `SetStatus` looks at
neither the stored status nor the new one. `settled` is the history of settings.

### RequestLog, RecentRequests

`Add` with its re-slicing at capacity, `List` with the panel's filter (`page`), `Get`
by id from a page that may be old (`opened`), `Reset`. An entry keeps what the page filters by.
Requests to Kaspi and QR are not logged. `RecentRequests` is the promise: the last `Cap` requests since the
last reset, as a set of numbers.

### Desk

The three parts above share no state, so a behaviour of `Desk` stays in one
of them (`tab`); interleaving them would multiply states and show nothing.

## 4. Runs

| Run | Specification and bounds | Shows |
|---|---|---|
| `freedom` | FreedomSpec, 2 clients, 3 ids, amounts 0..2, Word 4 | `UniqueIds`, `RefundStatusExact`, `LedgerAgrees` |
| `banks` | BanksSpec, 2 clients, 2 ids, amounts 0..1, Word 4; 924,856 states | `ChargesRestOnHolds`, `RefundsRestOnCharges`, `ImplementsConcurrent`, `BankIsolation` |
| `sequential` | GatewaySpec, 1 client, 2 ids, amounts 0..2, Word 4 | `FinalMeansFinal`, `ImplementsLifecycle` |
| `panel` | Spec, 1 client, 1 id, amounts 0..1, all webhooks on | `TypeOK`, `WebhooksTellHistory` |
| `allowed_transitions` | FairFreedomSpec, 2 clients, 1 id | `OnlyAllowedTransitions` is violated |
| `refund_bound` | FreedomSpec, 1 client, 2 ids, Word 8 | `RefundWithinPayment` is violated |
| `hold_announced` | FairFreedomSpec, 1 client, 1 id, Freedom's webhook on | `HoldAnnounced` is violated |
| `scenarios` | Scenarios, 2 clients, 2 operators, 2 applications, clock 1..2; 420,939 states | `TypeOK`, `OneShotOnce`, `HitsExact`, `PresetIsPrefix`, `FirstAddedWins`, `ListedAsMatched` |
| `gateways` | Gateways, 2 clients, 1 order, 2 payments, every bank; 1,051,418 states | `TypeOK`, `TransientFailsOnce`, `EveryMoveAnnounced`, `NotesAreTrue`, `AnswersAgree`, `DeclineOnRecord`, `FoundStaysFound` |
| `gateway_liveness` | Gateways, 2 clients, 1 payment, silent holds and late operations; 42,705 states | `SilentHoldHappens`, `LateIsFound` |
| `recurring_3ds` | Gateways, 1 client, Flitt under flitt_3ds_decline | `CheckIsAskedFor` is violated |
| `desk` | Desk, 2 codes, 2 merchants, 2 links, 3 settings, a log of 2; 777,395 states | `TypeOK`, `TrnIdentifies`, `WebhooksAgree`, `AnnouncedOnce`, `RefundConfirmedOnce`, `OffersStayGood`, `OpenIsWatched`, `EndIsFinal`, `CodesEnd`, `LinksAreOwn`, `PollsTellLast`, `IdsAreRecent`, `OpenedAsShown`, `ImplementsRecent` |

Card payments:

- `UniqueIds`: an id that was taken and not stored yet is nobody else's; no
  payment, refund, pending request or unsent webhook shares one.
- `RefundStatusExact`: REFUNDED means that at least all captured money is back,
  PARTIAL_REFUNDED that it is not. It holds although captures may repeat and
  refunds race, because each write computes status and total together.
- `LedgerAgrees`: the running total equals, as a word, what the accepted refund
  operations give back together, in whatever order they are counted.
- `ChargesRestOnHolds`, `RefundsRestOnCharges`: across all stale snapshots, a
  payment was authorized before it was charged and charged before it was
  refunded.
- `ImplementsConcurrent`: with any number of requests, resets and unchecked
  writes in between, every repository call is one change of one payment that the payment's own
  past allows, or changes nothing; no id is used twice. Stale snapshots may lose a status, and a decline may land
  on a charge, but what was refunded and what a payment has been are never lost. A hold or a cancellation that lands is
  allowed from the status it lands on, not only from the one the method saw (`RecheckedTransitions`,
  stated separately for the proofs, follows from it).
- `BankIsolation`: a request of one bank's API never writes a payment of another,
  although the bank is checked on a snapshot; it rests on ids not being given out
  again after a reset.
- `FinalMeansFinal`, `ImplementsLifecycle`: with one request at a time, the
  service is the status machine, and finished payments keep their money.
- `WebhooksTellHistory`: a late webhook tells an old status of its own payment,
  never one of a payment that took over the id.

Scenarios:

- `OneShotOnce`, `HitsExact`: however many requests match at once, a one-shot
  rule shapes one answer and no hit is lost or counted twice.
- `FirstAddedWins`: the rule first in the book among those that match is the one
  used, and a request goes without only if none matches.
- `PresetIsPrefix`: half a preset is its first half; a refused one leaves
  nothing; the panel's order by creation time and the book's agree within a preset.
- `ListedAsMatched`: the panel lists rules by creation time and says the upper one fires first; it does,
  for any two applications of which one was over before the other began. Applications that
  overlap may be listed in the other order, as the clock is read before the lock is taken.

Handlers:

- `AnswersAgree`: a client told "ok" has its payment opened or moved as its endpoint
  promises, also when only the answer was distorted; a client told anything else finds
  nothing changed, except a decline on record and a late operation. Three answers promise
  too much and are excepted by name: a recurring charge under a 3DS outcome (`Unchecked`,
  finding 4), step2 of an order that is past its check, a failed or cancelled one included
  (`PastCheck`; it must touch nothing then), and a refund that a rule declines or leaves
  pending (`NotRefunded`).
- `DeclineOnRecord`: a decline Epay answers is stored by then.
- `TransientFailsOnce`: of the requests a transient rule shapes at once, exactly one is refused, if the
  rule is put where a handler knows it (`TransientWhereHandled`): those of Freedom and Epay's token endpoint
  look for other actions only. `MCGateways` assumes this of its books, and TLC evaluates it.
- `FoundStaysFound`: an invoice check-status has found is found for ever,
  although a later attempt may be hidden.
- `EveryMoveAnnounced`: every hold, capture and cancellation is announced, at Epay once.
- `NotesAreTrue`: no notification tells a status its payment has not been in. A success that an
  operation announces is never of NEW or FAILED. The two that nobody asked for, the early postlink and the
  callback of a request a rule refuses at Flitt, are sent as a success whatever status they
  find, a NEW or FAILED one included; but it is one the payment has been in, however early or late
  their goroutine reads. A binding is announced when it is opened, under its 3DS check (NEW) or held.
- `SilentHoldHappens`: after a silent hold's error answer the payment is held all
  the same, by the goroutine or by a retry.
- `LateIsFound`: a client that keeps asking finds its late operation.

QR, Kaspi, log:

- `EndIsFinal`, `AnnouncedOnce`, `WebhooksAgree`: API, panel and expiry race for
  the end of a code; one wins, and its end alone is announced, once.
- `TrnIdentifies`, `OffersStayGood`, `RefundConfirmedOnce`: TrnIDs are never shared; what was offered
  for a refund is a payment of the refund's merchant, no refund, and stays good under its TrnID; one confirmation succeeds.
- `OpenIsWatched`: an open code's goroutine is still to come to it, or took its context for the timer:
  API, panel, a confirmed refund and a reset, between its look and its write, leave no open code behind it.
- `CodesEnd`: every code ends, is forgotten by a reset, or was missed by a
  goroutine that ran more than a second late.
- `LinksAreOwn`, `PollsTellLast`: a PaymentId stays its link's; a poll tells the status set last for that
  payment, and not for another with the same external id.
- `IdsAreRecent`, `OpenedAsShown`, `ImplementsRecent`: the log keeps the newest
  requests since its reset, as many as fit and no fewer, in order; an entry opened from an old page is the one shown, or is gone for a reason.

**Bounds.** `MaxId` bounds the ids given out: an action that takes one is
disabled at the bound. Three ids allow a payment with two refunds in flight and
two payments with a refund; two allow one payment of each bank and payments
before and after a reset, which is what bank isolation is about; the panel run
needs one id as its questions are about a single payment. Two clients are
the least that interleave, and every hazard listed is about two requests. The
amounts hold 0 (the request for everything) and amounts below, equal to and
above what is left. `Word = 4` makes sums and differences wrap; `refund_bound` and
the gateways use 8, where amounts do not wrap. `Clients` is a symmetry set
in `freedom` and `banks`, which check no liveness. The panel and all
the webhooks make the state large, so only `panel` has them. In the runs
where `AutoWebhook` is empty no webhook goroutine exists and the actions that send are
never enabled (`BanksNext` leaves them out); `panel` has all three switches on.

`scenarios`: `MaxApps = 2` applications put two presets, or a preset and a form,
side by side, each of up to two rules; `MaxHits = 2` lets a kept rule pass the hit
that transient_failure looks for; `MaxClock = 2` lets two rules have equal and different
times. `gateways`: two payments of one order show the index that keeps the
newest, and a hidden attempt after one found; `MaxLoad = 3` bounds payments and
requests under way together; `MaxHits` and `MaxNotes` are 2, one more than each
property allows. `gateway_liveness` has one payment, as its properties are about one. The books in
`MCGateways` take each kind of rule once, and for Freedom `wrong_amount` on `direct`: a handler's own error that a
rule distorts further. `desk`: one code to pay and one to refund with, and
two instants, and two merchants, so that a payment may be another's; two links, under one external id or two, and three settings,
so that one link is set twice around the other; a log of 2 with 4 requests drops twice.
`Clients` (and `Operators`) are symmetry sets in `scenarios` and `gateways`, which check no
liveness; `gateway_liveness` and `desk`, which do, have no symmetry.

**Deadlock** is checked in every run. A step is possible in every state (a reset, a request for
a status), so this says nothing more than that, and no property of deadlock freedom is
claimed: the code waits for nothing but mutexes held for bounded work.

**Fairness.** In `CardPayments`, `Fairness` is weak fairness of the repository calls of each request
that has started: net/http runs every request in a goroutine, the scheduler
runs it, a repository call waits only for a mutex held for bounded work. Nothing
is assumed of clients sending requests or of webhooks being delivered. It
is in the two specifications of violation runs with temporal properties; the passing
runs of `CardPayments` need none. In `Gateways` a handler that has its rule and a goroutine
that is ready are served for the same reason, and time passes until a late operation is
visible; clients need not ask, so `LateIsFound` has that as its condition. In
`QRCodes` the timer fires and the goroutine of a code goes on; nothing is assumed of operators or readers.

### Findings

1. `allowed_transitions`: `docs/architecture.md` says only the panel's force
   bypasses the transition table. Capture checks a snapshot and then writes
   with Update, so a capture that races a cancellation takes a payment from
   CANCELLED to CAPTURED.
2. `refund_bound`: a comment in `RevokeWithOutcome` justifies a conversion with
   the refund being bounded by the payment. Nothing bounds it.
3. `hold_announced`: `maybeWebhook` sends for records whose bank is Freedom, and
   no Freedom constructor sets the bank, so no automatic Freedom webhook is
   ever sent; the silent hold of a wallet relies on it.
4. `recurring_3ds`: the preset `flitt_3ds_decline` is described as making direct and
   recurring return `acs_url`. `handleRecurring` leaves the payment in NEW, waiting for its 3DS
   check, and answers as for an approved charge, without the address of one.

Other places where texts and code part, met while modelling; the modules follow the code:

- Ambiguous errors at Epay. `ports/api/epay/scenario.go:33` and the descriptions of the presets
  (`application/scenario/service.go:693-715`) say the operation went through and check-status
  shows AUTH or CHARGE. The rule answers before the handler and nothing is carried
  out, as the comment at `service.go:1123` and `TestPreset_AmbiguousChargeRecovery`
  (`ports/api/epay/preset_test.go:169`) say: after a charge the status is still AUTH.
  `AnswersAgree` states what the code does: after such an error nothing has changed.
- `application/pay/flitt.go:220` says a declined payment stays NEW; it is set to FAILED.
- `application/pay/flitt.go:340` says step2 ends in Authorized or, for `declined_3ds`, in Failed. It authorizes
  whatever the outcome was; a decline is only answered, by a rule in place of the handler, and is not on record.
- step2 answers "approved" for every order past its check, a failed or a cancelled one too (`ports/api/flitt/handlers.go:278-313`).
- The panel says that of several rules the first in its list fires (`ports/panel/scenarios.go:151`); it sorts by
  creation time, which for overlapping applications is not the order of matching.

## 5. Proofs

`tlapm` checks eight modules, for every value of the constants that satisfies the
assumptions named in the modules: `CardPaymentsProofs`, `CardPaymentsIds`,
`CardPaymentsHistory` and `CardPaymentsSequential`, each on the one before,
`ScenariosProofs`, `GatewaysSteps` and `GatewaysProofs` on it, and `DeskProofs`. TLC evaluates
the assumptions on every run. Every safety property of a passing run, invariant, step property or refinement, is a theorem.

Card payments: `Word` a natural above
1, `MaxId` a natural, `Amounts` words that include 0, `AutoWebhook` names of banks,
`NoPayment` no record. `Clients` is arbitrary.

- **`TypeCorrect`**, `Spec => []TypeOK`. `TypeOK` alone is not inductive: that
  a stored id is a payment id, and that a refund operation stored by
  `CommitRevoke` has an id, need that a request about to make a call has the
  arguments of that call. `TypeInv` is `TypeOK` with that shape of every
  request. Lemmas first give the type of what each operator of `PayDomain`
  returns, then the shape the building blocks (`Open`, `Proceed`, `Continue`,
  `Update`) leave, then there is one lemma per group of actions.
- **`IdsAreUnique`**, `Spec => []UniqueIds`. `IdInv` is `TypeInv` and
  `UniqueIds`; the ids of requests must be bounded by the counter for a new
  one to be new. Most actions take no id and store under none that was free:
  `QuietStep` shows once that such a step keeps `UniqueIds`, and the lemmas after it show
  each action to be quiet. What is left are the three that are not: taking an
  id (`TakingIds`), storing a payment (`CreateIds`), storing a refund
  (`RevokeIds`).
- **`WebhooksAreTrue`** and **`BanksAreIsolated`** (`CardPaymentsHistory`), for
  `Spec`. What a request or a webhook takes for granted of its payment was true
  of a snapshot. Every step extends a record's history and keeps its bank
  (`StoreStep`), and by `UniqueIds` no other payment is created under the id, so
  it is true still. `StoryInv` adds to `IdInv` what a request rests on
  (`AllRest`): its bank, and for a capture a hold in the history.
- **`RefundStatusIsExact`**, **`ChargesHaveHolds`**, **`RefundsHaveCharges`** and
  **`TransitionsAreRechecked`**, for `GatewaySpec`: the panel's force may set any
  status, so none of them holds of `Spec`. `MoneyInv` adds that a refund in progress has a
  charge in its payment's history, and that a transition can only aim at
  a hold or a cancellation. `MoneyStep` says how a record may change (`MovesOnly`), how one is
  born, and how a request goes on; one lemma shows such a step to keep the
  invariant, and the others show each action to be one.
- **`LedgersAgree`**, for `GatewaySpec` too: a force may set the total without an operation. The
  sum over the ledger is stated as a function on its parts that every operation adds its amount
  to; a new operation, whose id `UniqueIds` shows to be new, extends that function (`GivesBackMore`),
  because the words' addition commutes. A refund without an operation is Epay's or
  Flitt's, and by `AllRest` never of a Freedom payment.
- **`OverIsOver`** and the refinement **`ServiceKeepsLifecycle`** (`CardPaymentsSequential`), for
  `GatewaySpec` with one client; with two, `allowed_transitions` shows that the
  status machine is left. `InTime` says that nothing has changed the
  status since the request looked at it: only webhook goroutines, which leave it,
  and a reset, which leaves no payment, come between. Each action then maps to one of
  `PaymentLifecycle` or to a stutter, under the mapping of `Lifecycle`.
- The refinement **`ServiceIsAtomic`** (`CardPaymentsHistory`), for `GatewaySpec` and any number of clients:
  the service implements `ConcurrentLifecycle`. It has two halves. `OneEffect` says that a step opens one
  payment, alters one, takes one id or forgets them all, and what it does to the ids in use; there
  is one lemma per kind of repository call (`GatewayEffects`). `Moves` and `Born`, strengthened for it, say how the one payment's record
  may change: the money with the status, the history by the status. That a stale request's change is allowed by the present past of its
  payment is `MoneyInv`: what it rests on (`AllRest`) was true of a snapshot, and histories only grow. `EffectMaps` puts
  the halves together, one abstract action per kind of change.

Scenarios (`ScenariosProofs`). `RulesAssumption` says of the constants that the
form's rules and those of the applied presets are rules, and `NoRuleAssumption` that `NoRule` is
none; the numbers of operators, clients and applications are arbitrary. `ScenInv` is inductive. `BookInv` relates each rule's hits and its
being one-shot to the answers it shaped, and puts the ids in the order of the book: `OneShotIsOnce` and
`HitsAreExact` need that a one-shot rule in the book is unused, `FirstAddedIsUsed` that a lower id is
a smaller position. `TabsInv` says that an application under way is one operator's
and that the time just read is not before its last rule's; `PresetsInv` is `PresetIsPrefix` with the
bound on creation times, and `PresetsArePrefixes` follows. `BookIsTyped` needs besides that no time read is
ahead of the clock (`ClockInv`). Deleting, using up and resetting all leave a
book drawn from the one before in the same order (`Drawn`): one lemma shows that drawing keeps the
invariant, and three show each of them to be a drawing.

`ListIsInOrder` is `ListedAsMatched` with what makes it inductive (`LaterInv`): an application that was over
when another began has placed all it places, so its rules are before every rule of the other; and no rule of the
other has a time read before the other began.

Handlers (`GatewaysSteps`, `GatewaysProofs`). The assumptions: finitely many clients, `Books` rules
for each bank, `NoOrder` no order, the price a word above 0, at least one note kept of a kind.
There are many ways to serve a request, and the properties do not need to tell them apart.
`GatewaysSteps` shows each to be of one `Shape`: it has only looked, or has opened one payment, or has moved one
as the status machine allows, and what it notes, hides or leaves to a goroutine is about that payment. `StepCases`
adds the other steps: a request that asks, a goroutine, time, the panel's reveal. `GatewayInv`, inductive over these cases, is
`TypeOK` with what requests under way, goroutines and notes refer to. From it:

- `GatewayIsTyped`, and, since a shape says what its answer means (`Success`, `Failure`, a decline by a rule), the
  step properties `AnswersMatchPayments` and `DeclinesAreOnRecord`;
- `NotesTellTheTruth`: `GatewayInv` has it of the notes there are (`About`, `Tells`); histories only grow (`PastKept`), and every new
  note, of a goroutine too, is made of a status the payment is in or comes to in the step;
- `MovesAreAnnounced`: `StatusStory` says that a payment that has not left NEW has nothing to announce, and one that
  is held nothing but its hold. So a status that a move reaches was never announced before (`FreshStatus`), and the
  note its step makes is the one;
- `FoundIsFoundAgain`: of the order of an invoice that was found an attempt can be seen (`FoundShown`), no step hides one
  that can, and check-status looks among those that can be seen;
- `TransientRefusesOne`, under `TransientWhereHandled`: `TransientInv` says for each rule in the book that the
  requests with a copy of it include the one that has the first hit, until that one has been refused.

Two attempts failed for a reason, and the model was changed. The answer to a Freedom payment that is held
already is an ambiguous error, and stays one whatever a rule does to its other fields
(`ports/api/pay/handlers.go:46`): the model had counted it, under such a rule, as a success told with
other fields, which `AnswersAgree` does not allow. And the exception for recurring charges in `AnswersAgree` was wider than
finding 4: it is now the charge under a 3DS outcome and nothing else.

QR codes (`DeskProofs`, like the next two), for all sets of codes, merchants and readers; `NoCodeAssumption`. `QRInv`
has the TrnIDs in increasing order and none above the clock plus the counter, which is why
the next is new, and per code (`CodeInv`) what the store says against what was told, offered and confirmed.
A code not in the store has either left no trace or been forgotten by a reset, and is not
generated again. Six theorems follow from it: `TrnIDsIdentify`, `WebhooksTellOneStory`,
`EndIsAnnouncedOnce`, `RefundIsConfirmedOnce`, `OffersAreKept`, and for steps `EndsAreFinal`.
`OffersAreKept` needs `Belongs` besides, inductive on top: what a reader carries of a refund between its two calls is still that
refund's merchant, and what was offered is of that merchant. `OpenCodesAreWatched` is
inductive with `QRInv` beside it: a code open after a step is new, or was open before and its goroutine did not end in the
step (`OpenAfter`); `Expire` ends a goroutine, and either ends its code too or finds it ended by another.

Kaspi: `KaspiInv` says that the links made are numbered in the order made and
stored under their numbers, each with the status set last for it; `LinksKeepTheirIds`, `PollsAreUpToDate`.

Request log, for every capacity above 0 (`CapAssumption`): `LogInv` says how many entries there are, that each holds
the request logged under its id, and how a shown page ages; `LogIsRecent`, `OpensWhatWasShown`, and the
refinement `LogKeepsItsPromise`: under the mapping of ids to the set of kept numbers, every initial state and
every step is one of `RecentRequests` or a stutter.

The desk: a behaviour of the three together is one of each (`PartsAreOnTheirOwn`), so the theorems
about a part, stated of that part's specification, hold of `Spec` of `Desk`, which the run checks; `DeskIsTyped` joins
the three types.

Model-checked only: `CodesEnd`, `SilentHoldHappens` and `LateIsFound`, since liveness under
fairness, with ENABLED, is out of the prover's reach; and the four violations of section 4, each a counterexample.

## 6. Not modelled

- Webhook bodies and delivery, signatures, XML, QR images, pages of the panel,
  configuration and wiring, loyalty and health: no state, or only formatting and I/O.
  The panel's manual sends do not change a payment beyond the mark an automatic send also sets.
- The id counter across restarts: the counter starts from the clock, but the store is
  empty after a restart, so nothing in the program can confuse two runs' ids; that PG might is not a property of this code.
- Approval codes, the id modulo 10^6: two payments may share one, and nothing is ever looked up by it.
- Epay's table of OAuth tokens: it is written and never read.
- Texts, card data, amounts of QR codes, parameters of rules that only change wording or a delay's length.
