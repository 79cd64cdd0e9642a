SPECIFICATION BanksSpec
CONSTANTS
  Word = 4
  MaxId = 2
  Clients = {c1, c2}
  Amounts = {0, 1}
  AutoWebhook = {}
  NoPayment = NoPayment
INVARIANTS
  ChargesRestOnHolds
  RefundsRestOnCharges
PROPERTIES
  ImplementsConcurrent
  BankIsolation
SYMMETRY ClientSymmetry
