SPECIFICATION RQLSpec
CONSTANTS
  Texts <- ShortTexts
  Keys <- SomeKeys
  Values <- SomeValues
  TTLs <- SomeTTLs
  Gaps <- OneBlank
  Letters = {"a"}
  Digits = {"1"}
  DigitValue <- OneDigit
  MaxInt = 10
INVARIANTS
  
  TokensCoverInput
  PanicsOnlyOnLastBackslash
PROPERTIES
  LineIsProcessed
CHECK_DEADLOCK FALSE
