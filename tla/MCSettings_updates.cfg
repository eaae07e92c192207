SPECIFICATION Spec
CONSTANTS Callers = {"gui"}
          Tools = {"ctl"}
          Documents <- MCDocuments
          Urls = {"u1"}
          Modulus = 2
CONSTRAINT Claimed
INVARIANTS TypeOK NothingLost ShownIsRunning
PROPERTY RefreshKeepsServer
