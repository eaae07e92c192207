SPECIFICATION Spec
CHECK_DEADLOCK FALSE
CONSTANTS Calls = {"i1", "i2"}
          Releases <- MCReleases
          Platforms = {"unix", "windows"}
INVARIANT ReplacedAtomically
