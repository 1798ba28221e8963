SPECIFICATION EnvelopeSpec
CONSTANTS
  MaxPayload = 3
  SafePayload = 2
  Slack = 64
INVARIANTS
  ArrivesAsSent
  RelayOutputIsReadable
  SafeIsForwarded
  NothingCut
