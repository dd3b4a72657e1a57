\* Three tasks of seven kinds on three nodes that run two at once; one fault.
SPECIFICATION FairSpec
CONSTANTS
  None = None
  t1 = t1
  t2 = t2
  t3 = t3
  i1 = i1
  i2 = i2
  i3 = i3
  Consumed = {"cpus"}
  Capped = {"time"}
  Tasks = {t1, t2, t3}
  Images = {i1, i2, i3}
  Descriptions <- MCDescriptions
  Nodes <- MCNodes
  Concurency = 2
  NCpus = 3
  NGpus = 2
  ImageSize <- MCImageSize
  MaxFaults = 1
INVARIANTS TypeOK RunApart BatchNotEmpty ImagesFit DropsNothingWithinMeans
PROPERTY EveryTaskEnds
