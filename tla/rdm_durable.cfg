SPECIFICATION RDMSpec
CONSTANTS
  MAX_LABEL_LENGTH = 2
  DEFAULT_LABEL <- MCDefaultLabel
  StartAddresses = {}
  SerialNumbers = {}
  PowerCycles = {}
  SensorValues = {}
  Personalities = {}
  Labels = {}
  AnalogReadings <- MCAnalogReadings
  NoRequest = NoRequest
  Controller <- MCController
  BeyondTable <- MCBeyondTable
  MAX_MESSAGE_COUNT = 2
  MaxBoots = 2
  TornWrites = TRUE
  Requests <- MCDurableRequests
INVARIANTS
  PromisesKept
  AnswersMatchPromises
  RepliesWellFormed
