SPECIFICATION RDMSpec
CONSTANTS
  MAX_LABEL_LENGTH = 2
  DEFAULT_LABEL <- MCDefaultLabel
  StartAddresses = {}
  SerialNumbers = {}
  PowerCycles = {}
  SensorValues = {}
  Personalities = {}
  Labels = {}
  AnalogReadings <- MCAnalogReadings
  NoRequest = NoRequest
  Controller <- MCController
  BeyondTable <- MCBeyondTable
  MAX_MESSAGE_COUNT = 3
  MaxBoots = 1
  TornWrites = FALSE
  Requests <- MCQueueRequests
INVARIANTS
  EmptyQueueAnnouncesNone
