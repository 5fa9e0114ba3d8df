SPECIFICATION Spec
CONSTANTS
  WordBits = 5
  FirstPort = 40
  NumPorts = 3
  TargetPorts = {1, 3}
  SourceIps = {1, 6}
  AllowedHosts = {2, 3, 4}
  Targets = {2, 3}
  OtherHosts = {4, 5}
  RateBits = 7
  MaxSent = 1
  Configs <- AllConfigs
INVARIANTS
  AnswersAccepted ErrorsAccepted OnlySolicited ErrorRowNamesTarget RowsFollowDefinitions
  FramesHoldDatagrams  OptionsFound TemplateLossless 
CHECK_DEADLOCK FALSE
