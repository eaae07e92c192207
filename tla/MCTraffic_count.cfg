SPECIFICATION Spec
CONSTANTS Meters = {"m1", "m2"}
          Bytes = 3
          Days = 2
CONSTRAINT Claimed
INVARIANTS TypeOK CountedOnce
