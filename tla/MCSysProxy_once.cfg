CONSTANTS
  c1 = c1  starter = starter  NoSnapshot = NoSnapshot  Another = Another
  Callers = {c1}
  Backends = {"gnome", "kde", "wininet"}
  FaultsPerCall = 2
  UnreadPerCall = 1
SPECIFICATION ProxySpec
CONSTRAINT Followed
VIEW Alive
INVARIANTS ProxyTypeOK OffMeansOriginal WayBackIsKept NeverMixed ProxyGoesWithCore
