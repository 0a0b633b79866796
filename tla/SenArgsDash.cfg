SPECIFICATION ProgramSpec
CONSTANTS
  Bags <- Example
  Root = "root"
  Tokens <- Dash
  MaxArgs = 2
  Numerals <- Sevens
  Rooms = {0}
  PanicModes = {FALSE}
  Defaults = {FALSE}
PROPERTIES
  ParsingEnds
