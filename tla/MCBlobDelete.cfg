\* A reference whose deletion was answered comes back.
SPECIFICATION Spec
CONSTANTS
  None = None
  Blobs = {b1}
  Refs = {r1}
  Handlers = {h1, h2}
  MaxBlob = 1
INVARIANT DeletedStaysDeleted
