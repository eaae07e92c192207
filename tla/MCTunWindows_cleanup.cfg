SPECIFICATION Spec
CONSTANTS Servers = {s1}
          Crashes = 1
INVARIANT BlockIsKept
