SPECIFICATION Spec
CONSTANTS
  NumZones = 3
  Engines = {"bind", "maradns", "djbdns"}
  Unsafe = {2}
  MaxEdits = 4
  MaxFailures = 2
INVARIANT
  TypeOK
  ServedIsDelivered
PROPERTY
  Converges
