SPECIFICATION Spec
CONSTANTS
  Codes = {q1, q2}
  Merchants = {m1, m2}
  Readers = {r1}
  MaxClock = 2
  NoCode = NoCode
  Externals = {x1, x2}
  MaxLinks = 2
  MaxSettled = 3
  Cap = 2
  Requests = {epay, flitt}
  Filters <- SomeFilters
  MaxLogged = 4
  Gone = Gone
INVARIANTS
  TypeOK
  TrnIdentifies
  WebhooksAgree
  AnnouncedOnce
  RefundConfirmedOnce
  OffersStayGood
  OpenIsWatched
  LinksAreOwn
  PollsTellLast
  IdsAreRecent
  OpenedAsShown
PROPERTIES
  EndIsFinal
  CodesEnd
  ImplementsRecent
