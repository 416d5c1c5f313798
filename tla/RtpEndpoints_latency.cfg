SPECIFICATION Spec
CONSTANTS
  Fields <- TwoHeaders
  Extensions <- FiveExtensions
  Media <- NoneOrOneByte
  Foreign <- ForeignHeaders
  Memory <- TwoMemories
PROPERTY LatencyIsCarried
