\* One contract, two values of its fields and of its unit, two requests, the
\* failures that every safety property survives.
CONSTANTS
  Contracts = {c1}
  Terms = {t1, t2}
  Faces = {f1, f2}
  Requests = {k1, k2}
  Faults = {"crash", "stop", "db", "disk"}
  MaxFaults = 1
  MaxAttempts = 1
SPECIFICATION Spec
SYMMETRY Symmetry
INVARIANTS TypeOK FilesFollowRows
PROPERTIES CurrentFileKept RendersCounted
