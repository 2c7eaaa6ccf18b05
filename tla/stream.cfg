SPECIFICATION FairSpec
CONSTANTS
  None = None
  Cut = Cut
  plain = plain
  spaced = spaced
  special = special
  main = main
  dev = dev
  Spaced = {spaced}
  Special = {special}
  Plans <- Pairs
INVARIANTS
  TypeOK
  ParsedAsWritten
  NothingMadeUp
  FailsOnlyIfBroken
  AnsweredInTurn
  RefsAnswered
PROPERTY ExportEnds
CHECK_DEADLOCK FALSE
