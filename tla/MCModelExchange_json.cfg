SPECIFICATION Spec
CONSTANTS
  Items = 25
  MaxFailures = 1
  Networks <- MCNetworkSizes
  Represented = {"trainingscounter", "layers", "neurontype", "bias"}
  DefaultBufferSize = 16
  IntMax = 325
  Widths = {4}
  NestingLimit = 1000
INVARIANTS
  TypeOK
  PrintStaysInside
  NothingLeaks
  ArrivesAsSent
CHECK_DEADLOCK FALSE
