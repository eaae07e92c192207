CONSTANT Crashes = 2
SPECIFICATION FairSpec
INVARIANTS TypeOK NoLeakOnDeath ResolverRestored
PROPERTY ImplementsService
