SPECIFICATION Spec
CONSTANTS
    NoText = ""
    Vars <- AllVars
    Names = {"a", "b"}
    Slots = {"s"}
    Answers <- SomeAnswers
    HandFiles <- SomeFiles
    Environments <- SomeEnvironments
    Faults = {"ssh", "control", "key", "parity", "git"}
    MaxChanges = 1
INVARIANTS TypeOK WizardFileLoads SetupReportsTruth ReadyMeansNoFault
 
