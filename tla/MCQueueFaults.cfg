\* Every kind of failure, two of them in one behaviour: what still holds.
CONSTANTS
  Contracts = {c1}
  Terms = {t1, t2}
  Faces = {f1}
  Requests = {k1, k2}
  Faults = {"crash", "stop", "db", "disk", "lock", "unlink", "rollback", "loss"}
  MaxFaults = 2
  MaxAttempts = 1
SPECIFICATION Spec
SYMMETRY Symmetry
INVARIANTS ServedWasCurrent
PROPERTIES RefinesDocuments
