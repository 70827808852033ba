SPECIFICATION Spec
CONSTANTS
  MAX_LABEL_LENGTH = 3
  DEFAULT_LABEL <- MCDefaultLabel
  StartAddresses <- MCStartAddresses
  SerialNumbers <- MCSerialNumbers
  PowerCycles <- MCPowerCycles
  SensorValues <- MCSensorValues
  Personalities <- MCPersonalities
  Labels <- MCLabels
  MaxBoots = 3
  TornWrites = TRUE
INVARIANTS
  TypeOK
  CacheCoherent
PROPERTIES
  LabelWritten
  ImplementsStore
  CoreFieldsIsolated
  StaysConfigured
