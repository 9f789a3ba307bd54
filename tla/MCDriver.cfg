SPECIFICATION FairSpec
CONSTANTS
    Fds = {f1, f2}
    Arity <- TwoCommands
    Scripts <- SomeScripts
INVARIANTS BuffersFit OneTaskEach AnswersInOrder CallsAsSent
PROPERTIES KeepsClients Answered
CHECK_DEADLOCK FALSE
