SPECIFICATION Spec
CONSTANTS
  None = None
  Cut = Cut
  plain = plain
  spaced = spaced
  special = special
  main = main
  dev = dev
  Spaced = {spaced}
  Special = {special}
  Plans <- One
INVARIANT EntireStreamParsed
CHECK_DEADLOCK FALSE
