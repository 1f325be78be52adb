CONSTANTS
  Timeout = 1
  QuestionTimeout = 1
  Attempts = 2
  MaxTasks = 3
  MaxOffers = 1
  MaxQuestions = 2
  MaxMishaps = 2
SPECIFICATION FairSpec
INVARIANTS TypeOK OneOpenTask RepliesAtRestAreApplied OneReplyCounts DeadlineIsTheOneShown PauseKeepsTasks WaitCanEnd AnswersFit
PROPERTY Served
CHECK_DEADLOCK FALSE
