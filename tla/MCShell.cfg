CONSTANTS
    Drivers <- OneDriver
    Commands <- TwoCommands
    Scripts <- SomeScripts
    MaxStarts = 2
    MaxFd = 2
    Numbers <- Digits
    Pieces <- TwoSizes
SPECIFICATION FairSpec
INVARIANTS LinesInOrder AnswersPaired TracksDrivers
CHECK_DEADLOCK FALSE
PROPERTY CommandsAnswered
