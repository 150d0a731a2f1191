SPECIFICATION ResultsSpec
CONSTANTS
    MaxWindows = 2
    MaxElements = 2
    MaxTypes = 1
    MaxPage = 2
    CommandsAsked <- MCCommandsAsked
INVARIANT
    JobAnswersReachTheCaller
CHECK_DEADLOCK FALSE
