\* Two unfitting tasks may precede a fitting one, one fewer than the window.
SPECIFICATION FairSpec
CONSTANTS
  None = None
  t1 = t1
  t2 = t2
  t3 = t3
  t4 = t4
  i1 = i1
  i2 = i2
  gpu = gpu
  Consumed = {"cpus"}
  Capped = {"time"}
  Tasks = {t1, t2, t3, t4}
  Images = {i1, i2}
  Tags = {gpu}
  Descriptions <- MCFewDescriptions
  ServerLimits <- MCServerLimits
  Offers <- MCOneOffer
  Window = 3
  MaxReturn = 1
PROPERTY EventuallyHandedOut
