SPECIFICATION Spec
CONSTANTS
  s1 = s1
  s2 = s2
  Shutters = {s1}
  Rank <- FirstToLast
  Tasks = {t1, t2}
  DriveTime = 1
  Cooldown = 1
INVARIANTS TypeOK OnlyResyncReachesMeasured CommandsCloseTheCheck
SYMMETRY AnyTask
VIEW ButTold
