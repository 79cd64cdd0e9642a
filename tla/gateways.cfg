SPECIFICATION Spec
CONSTANTS
  Clients = {c1, c2}
  Orders = {o1}
  Price = 2
  Parts = {0, 1}
  Books <- SomeBooks
  AutoWebhook = TRUE
  MaxHits = 2
  MaxNotes = 2
  Word = 8
  MaxLoad = 3
  MaxId = 2
INVARIANTS
  TypeOK
  TransientFailsOnce
  EveryMoveAnnounced
  NotesAreTrue
PROPERTIES
  
  DeclineOnRecord
  FoundStaysFound
SYMMETRY Symmetry
