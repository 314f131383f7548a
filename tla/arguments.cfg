SPECIFICATION ArgumentsSpec
CONSTANTS
  Letters = {"a"}
  MaxLength = 6
  MaxWord = 2
CHECK_DEADLOCK FALSE
INVARIANTS ParsesAsDefined QuotingWorks
PROPERTY ParsingEnds
