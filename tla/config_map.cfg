SPECIFICATION Spec
CONSTANTS
    NoText = ""
    Vars <- AllVars
    Names = {"a", "b"}
    Slots = {"s"}
    Answers <- SomeAnswers
    HandFiles <- FilesWithMap
    Environments <- SomeEnvironments
    Faults = {}
    MaxChanges = 0
INVARIANT CompleteFileLoads
