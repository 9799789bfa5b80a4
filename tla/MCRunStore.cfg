\* Any two clients against the store; leases of two ticks.
SPECIFICATION StoreSpec
CONSTANTS
  r1 = r1
  r2 = r2
  c1 = c1
  c2 = c2
  go = go
  hold = hold
  NoReport = NoReport
  None = None
  Runs = {r1, r2}
  Clients = {c1, c2}
  Reports = {go, hold}
  Held <- MCHeld
  TTL = 2
  Openers = {c1, c2}
  SchemaVersion = 3
SYMMETRY Symmetry
INVARIANTS
  TypeOK
  OneActive
  LeaseOnlyOnActive
  OpenedIsUsable
  WedgedOnlyByFault
PROPERTIES
  TerminalFinal
  StageOrder
  SchemaNeverGoesBack
  ImplementsLifecycle
ACTION_CONSTRAINT UsedByBoth
