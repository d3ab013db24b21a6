SPECIFICATION FairSpec
CONSTANTS
  NChan = 2
  Base = 2
  MaxCount = 1
INVARIANTS
  TypeOK
  Telescopes
  NeverAhead
  EstablishedSurvives
PROPERTIES
  WritesTally
  GivesUpWithoutDevice
  KeepsRecording
