SPECIFICATION RQLSpec
CONSTANTS
  Texts <- ShortTexts
  Keys <- SomeKeys
  Values <- SomeValues
  TTLs <- SomeTTLs
  Gaps <- OneBlank
  Letters = {"a"}
  Digits = {"1"}
  DigitValue <- OneDigit
  MaxInt = 10
INVARIANTS
  NeverPanics
CHECK_DEADLOCK FALSE
