SPECIFICATION MetadataSpec
CONSTANTS
  Base = 4
  Foreign <- SomeForeign
  LinearRules <- SomeRules
  DataTypes = {"int8", "int16", "struct", "binary"}
  Fields <- SomeFields
  Units <- SomeUnits
  Rates <- SomeRates
  Stamps <- SomeStamps
  TickDenom = 10
  Epoch = 2
  Fineness = 3
  MaxCalls = 3
  MaxSamples = 3
INVARIANTS DocumentsSound DriftBounded
PROPERTIES SamplesCounted
CHECK_DEADLOCK FALSE
