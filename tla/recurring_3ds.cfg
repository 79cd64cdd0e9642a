SPECIFICATION Spec
CONSTANTS
  Clients = {c1}
  Orders = {o1}
  Price = 2
  Parts = {0}
  Books <- CheckBooks
  AutoWebhook = TRUE
  MaxHits = 2
  MaxNotes = 2
  Word = 8
  MaxLoad = 3
  MaxId = 2
PROPERTIES
  CheckIsAskedFor
