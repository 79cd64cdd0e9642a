SPECIFICATION Spec
CONSTANTS
  Word = 4
  MaxId = 1
  Clients = {c1}
  Amounts = {0, 1}
  AutoWebhook = {"freedom", "epay", "flitt"}
  NoPayment = NoPayment
INVARIANTS
  TypeOK
  WebhooksTellHistory
