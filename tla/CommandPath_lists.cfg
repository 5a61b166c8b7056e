SPECIFICATION ListSpec
CONSTANTS
  s1 = s1
  s2 = s2
  Shutters = {s1, s2}
  Rank <- FirstToLast
  Tasks = {t1}
  DriveTime = 1
  Cooldown = 1
 
PROPERTIES EveryMeasurementEnds
