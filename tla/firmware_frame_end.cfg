SPECIFICATION FirmwareSpec
CONSTANTS
  MAX_LABEL_LENGTH = 2
  DEFAULT_LABEL <- MCDefaultLabel
  StartAddresses = {}
  SerialNumbers = {}
  PowerCycles = {}
  SensorValues = {}
  Personalities = {}
  Labels = {}
  AnalogReadings <- MCAnalogReadings
  NoRequest = NoRequest
  MAX_MESSAGE_COUNT = 1
  MaxBoots = 1
  TornWrites = FALSE
  Requests <- MCFirmwareRequests
  Controller <- MCController
  BeyondTable <- MCBeyondTable
  HostMessages <- MCHostMessages
  Leftovers <- MCLeftovers
  BUFFER_PREFIX = 8
  NoLevel = NoLevel
PROPERTIES
  LightsOnlyFromFrame
