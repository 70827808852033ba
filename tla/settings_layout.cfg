SPECIFICATION Spec
CONSTANTS
  MAX_LABEL_LENGTH = 3
  DEFAULT_LABEL <- MCDefaultLabel
  StartAddresses <- MCStartAddresses
  SerialNumbers <- MCSerialNumbers
  PowerCycles <- MCPowerCycles
  SensorValues <- MCSensorValues
  Personalities <- MCPersonalities
  Labels <- MCLabels
  MaxBoots = 1
  TornWrites = FALSE
PROPERTIES
  FieldsIsolated
