CONSTANTS
  c1 = c1  w1 = w1  NoConn = NoConn  NoThread = NoThread
  Callers = {c1}
  Pollers = {}
  Conns = {1, 2}
  IdCount = 2  Crashes = 0  Timeouts = 0
SPECIFICATION Spec
INVARIANTS RoutingNeverOutlivesCore
