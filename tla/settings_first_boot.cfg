SPECIFICATION Spec
CONSTANTS
  MAX_LABEL_LENGTH = 3
  DEFAULT_LABEL <- MCDefaultLabel
  StartAddresses = {}
  SerialNumbers = {}
  PowerCycles = {}
  SensorValues = {}
  Personalities = {}
  Labels = {}
  MaxBoots = 2
  TornWrites = TRUE
INVARIANTS
  SettingsValid
