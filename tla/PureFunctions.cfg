SPECIFICATION FunctionsSpec
CONSTANTS
  MaxBodyBytes = 12
  WordSize = 256
  MaxDigits = 4
  MaxInt = 15
  MaxPieces = 6
  MaxQuery = 7
  MaxConnection = 4
  MaxHost = 5
  MaxParameters = 3
  MaxOperand = 4
  \* - 0 1 5 6 a
  OperandCharacters = {45, 48, 49, 53, 54, 97}
INVARIANTS
  
  LengthIsExact
  ParametersReadAsWritten
  HeadersFollowGrammar
  FirstFailureDecides
  CalculationExact
