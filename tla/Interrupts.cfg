CONSTANTS
  FirmwareConfigs = {{"kbdIRQ", "auxOff"}, {"kbdIRQ", "auxIRQ"}}
  Ticks = {1}
  StrayBound = 3
SPECIFICATION Spec
INVARIANTS
  TypeOK
  HandlersReadTheirOwn
  EveryInterruptIsEnded
  InitIsComplete
  StraysAreFew
PROPERTIES
BytesAreTaken
SleepEnds
