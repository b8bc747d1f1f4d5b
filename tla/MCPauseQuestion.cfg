SPECIFICATION Spec
CONSTANTS
    Tasks = {t1, t2, t3}
    NoTask = NoTask
    Kinds = {"question"}
    Lifecycle = FALSE
    MaxQuestions = 2
    MaxRequests = 3
    MaxCrashes = 0
INVARIANT QuestionDecisionNotLost
CHECK_DEADLOCK FALSE
