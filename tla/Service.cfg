CONSTANTS
  g1 = g1
  g2 = g2
  h1 = h1
  Grpc <- MCGrpc
  Http <- MCHttp
  MaxSignals = 2
  MaxCleans = 2
SPECIFICATION FairSpec
INVARIANTS ServiceInvariant 
PROPERTIES CleanEmpties SignalEnds
