SPECIFICATION GatewaySpec
CONSTANTS
  Word = 4
  MaxId = 2
  Clients = {c1}
  Amounts = {0, 1, 2}
  AutoWebhook = {}
  NoPayment = NoPayment
PROPERTIES
  FinalMeansFinal
  ImplementsLifecycle
