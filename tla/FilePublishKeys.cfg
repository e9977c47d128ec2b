SPECIFICATION Spec
CONSTANTS
  NumZones = 1
  Engines = {"bind"}
  Unsafe = {}
  MaxEdits = 1
  MaxFailures = 1
INVARIANT
  KeysAreComplete
