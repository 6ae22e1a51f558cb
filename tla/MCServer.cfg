SPECIFICATION ServerFairSpec
CONSTANTS
  s1 = s1
  s2 = s2
  Sessions = {s1, s2}
  Kinds <- OneTcpOneHttp
  Lines <- TwoClients
  Keys = {1, 2}
  Values = {"a", "d"}
  Demo <- DemoEntry
  None = None
  Hollow = Hollow
  Missing = Missing
  Main = Main
  Free = Free
INVARIANTS
  ServerTypeOK
  WritersAlone
PROPERTIES
  
  
  CommandsAnswered
  ShutdownCompletes
  HandlersEnd
