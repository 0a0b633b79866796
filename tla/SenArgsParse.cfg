SPECIFICATION ProgramSpec
CONSTANTS
  Bags <- Example
  Root = "root"
  Tokens <- CommandLines
  MaxArgs = 3
  Numerals <- Sevens
  Rooms = {0, 1, 2}
  PanicModes = {TRUE, FALSE}
  Defaults = {FALSE}
INVARIANTS
  TypeOK
  OutcomeDeserved
  StoredRight
  ChoicesLeadHere
  ProgramAnswers
PROPERTIES
  ParsingMovesOn
