SPECIFICATION Spec
CONSTANTS Servers = {s1}
          Crashes = 2
INVARIANTS TypeOK BypassBeforeCapture BlockIsAsked
PROPERTY ImplementsService
