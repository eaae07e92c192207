CONSTANTS
  c1 = c1  starter = starter  NoSnapshot = NoSnapshot  Another = Another
  Callers = {c1}
  Backends = {"kde"}
  FaultsPerCall = 0
  UnreadPerCall = 0
SPECIFICATION ProxySpec
VIEW Alive
INVARIANTS AfterMisreading
