SPECIFICATION FreedomSpec
CONSTANTS
  Word = 8
  MaxId = 2
  Clients = {c1}
  Amounts = {0, 1, 2}
  AutoWebhook = {}
  NoPayment = NoPayment
INVARIANT
  RefundWithinPayment
