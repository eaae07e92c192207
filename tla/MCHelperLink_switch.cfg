CONSTANTS
  c1 = c1  w1 = w1  NoConn = NoConn  NoThread = NoThread
  Callers = {c1}
  Pollers = {w1}
  Conns = {1, 2}
  IdCount = 2  Crashes = 1  Timeouts = 1
SPECIFICATION FairSpec
INVARIANTS TypeOK RoutingGoesWithCore AnswersMatch
PROPERTIES CallsReturn
