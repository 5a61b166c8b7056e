SPECIFICATION Spec
CONSTANTS
  Windows = {w1}
  Directions = {"up", "down"}
  Manual <- NothingTyped
  Totals = {1, 2, 3, 5}
  MinTotal = 2
  Retain = 3
  CurveMin <- CurveLeast
  CurveMax = 1
  MaxRuns <- UpOnly
  Balances <- Sums
INVARIANTS TypeOK RestartChangesNothing MeasuredIsRecentMedian
PROPERTIES OneRunDoesNotDrag AnswersMoveTheirWay
CONSTRAINT RunsOrAnswers
