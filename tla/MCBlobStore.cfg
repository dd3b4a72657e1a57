\* Two contents, two references, two concurrent requests, three row inserts.
SPECIFICATION Spec
CONSTANTS
  None = None
  Blobs = {b1, b2}
  Refs = {r1, r2}
  Handlers = {h1, h2}
  MaxBlob = 3
SYMMETRY Symmetry
INVARIANTS TypeOK ReferencesLead ListedIsServable
PROPERTY ImplementsStore
