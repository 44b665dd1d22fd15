CONSTANTS
  Makers = {m1}
  Takers = {t1, t2}
  Nodes = {{m1}, {t1}, {t2}}
  Gtc = {t1}
  Sellers = {t1}
  Sizes = {2}
  Volume = 2
  MinVol = 1
  MaxCrashes = 1
  MaxOps = 1
  None = None
SPECIFICATION Spec
CHECK_DEADLOCK FALSE
INVARIANTS
  TypeOK
  SwapsWithinVolume
  OneMakerPerTaker
  TakerSwapIsCounted
  VolumeUsedOnce
