SPECIFICATION Spec
CONSTANTS
  ByteBits = 5
  WordBits = 8
  DWordBits = 11
  LongBits = 14
  NumberBits = 11
  None = None
  Cases <- MCCases
  Addresses = {5, 250}
INVARIANTS
  ScansAsWritten
  ParsesAsGrammar
  AskedMeansAvailable
  WritesTheNumber
