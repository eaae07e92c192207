SPECIFICATION Spec
CONSTANTS Clients = {"c1"}
          Defaults = {"d1", "d2"}
          Published = {"d3"}
          Throttling = {"d2"}
          Parallel = 2
          GlobalParallel = 1
          Transports = {"auto", "tcp"}
          MaxRuns = 2
CONSTRAINT RestartChanges
INVARIANTS TypeOK NothingLeaks PathAllowed
PROPERTY HandlersEnd
CHECK_DEADLOCK FALSE
