\* Two contracts edited without end, one request, one failure: no pending
\* revision waits for ever. No symmetry: liveness.
CONSTANTS
  Contracts = {c1, c2}
  Terms = {t1, t2}
  Faces = {f1}
  Requests = {k1}
  Faults = {"crash", "stop", "db"}
  MaxFaults = 1
  MaxAttempts = 0
SPECIFICATION FairSpec
INVARIANTS ProcessingIsOwned
PROPERTIES JobSettles
