SPECIFICATION Spec
CONSTANTS
  None = None
  Ids = {a}
  Procs = {c, k}
  Creators = {c}
  Threads = {s, h}
  Scheduler = s
  Requests = {"open", "attach", "detach", "limits", "stats", "close"}
  MaxObject = 1
INVARIANTS TypeOK BoundProcessesDie
PROPERTIES FirstSessionKept StatsOutliveGroups
