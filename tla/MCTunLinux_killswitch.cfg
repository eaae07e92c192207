CONSTANT Crashes = 1
SPECIFICATION Spec
INVARIANTS KillSwitchBlocks
