SPECIFICATION Spec
CONSTANTS
  Clients = {c1, c2}
  Operators = {o1, o2}
  Inputs <- SomeInputs
  Names <- SomeNames
  FormRules <- SomeFormRules
  MaxApps = 2
  MaxHits = 2
  MaxClock = 2
  NoRule = NoRule
INVARIANTS
  TypeOK
  OneShotOnce
  HitsExact
  PresetIsPrefix
  ListedAsMatched
PROPERTIES
  FirstAddedWins
SYMMETRY Symmetry
