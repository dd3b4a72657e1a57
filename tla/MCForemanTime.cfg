\* A node whose configuration does not limit the time of tasks.
SPECIFICATION Spec
CONSTANTS
  None = None
  t1 = t1
  t2 = t2
  t3 = t3
  i1 = i1
  i2 = i2
  i3 = i3
  Consumed = {"cpus"}
  Capped = {"time"}
  Tasks = {t1, t2}
  Images = {i1, i2, i3}
  Descriptions <- MCTimes
  Nodes <- MCNoTime
  Concurency = 2
  NCpus = 3
  NGpus = 0
  ImageSize <- MCImageSize
  MaxFaults = 1
INVARIANT NothingDropped
