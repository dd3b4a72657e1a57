SPECIFICATION Spec
CONSTANTS
  None = None
  Ids = {a}
  Procs = {c, k}
  Creators = {c}
  Threads = {s, h}
  Scheduler = s
  Requests = {"open", "attach", "limits"}
  MaxObject = 2
INVARIANT LimitsStick
