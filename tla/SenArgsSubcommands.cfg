SPECIFICATION ProgramSpec
CONSTANTS
  Bags <- Example
  Root = "root"
  Tokens <- Plain
  MaxArgs = 2
  Numerals <- Sevens
  Rooms = {0}
  PanicModes = {FALSE}
  Defaults = {FALSE}
INVARIANTS
  SubcommandsWork
