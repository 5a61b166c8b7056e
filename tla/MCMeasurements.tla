--------------------------- MODULE MCMeasurements ---------------------------
EXTENDS Measurements
NothingTyped == {}
UpIsTyped == Windows \X {"up"}
CurveLeast == -2
\* One direction is measured, the other only answered about.
UpOnly == [d \in Directions |-> IF d = "up" THEN 4 ELSE 0]
Sums == [d \in Directions |-> IF d = "up" THEN 0..2 ELSE -3..0]
\* Many runs or many answers, and those of one direction: what they add up to does not
\* depend on each other.
RunsOrAnswers ==
  \A w \in Windows :
    LET stored == Len(runs[<<w, "up">>])
        raised == answers[<<w, "up">>]
        lowered == answers[<<w, "down">>]
    IN  \/ stored <= 1 /\ (raised = 0 \/ lowered >= -1)
        \/ stored = 2 /\ raised < 2 /\ lowered = 0
        \/ raised = 0 /\ lowered = 0
=============================================================================
