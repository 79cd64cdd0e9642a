SPECIFICATION FairFreedomSpec
CONSTANTS
  Word = 4
  MaxId = 1
  Clients = {c1, c2}
  Amounts = {0, 1}
  AutoWebhook = {}
  NoPayment = NoPayment
PROPERTY
  OnlyAllowedTransitions
