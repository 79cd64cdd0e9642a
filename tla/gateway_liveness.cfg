SPECIFICATION Spec
CONSTANTS
  Clients = {c1, c2}
  Orders = {o1}
  Price = 2
  Parts = {0}
  Books <- SilentBooks
  AutoWebhook = TRUE
  MaxHits = 1
  MaxNotes = 1
  Word = 8
  MaxLoad = 3
  MaxId = 1
PROPERTIES
  SilentHoldHappens
  LateIsFound
