SPECIFICATION FreedomSpec
CONSTANTS
  Word = 4
  MaxId = 3
  Clients = {c1, c2}
  Amounts = {0, 1, 2}
  AutoWebhook = {}
  NoPayment = NoPayment
INVARIANTS
  UniqueIds
  RefundStatusExact
  LedgerAgrees
SYMMETRY ClientSymmetry
