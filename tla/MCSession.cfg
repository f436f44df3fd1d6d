\* Three stacks, two models, two modes, up to three kernels in a session.
SPECIFICATION SessionSpec
CONSTANTS
    Stacks <- MCStacks
    StackName <- MCStackName
    Shipped <- MCShipped
    Runnable <- MCRunnable
    Switchable <- MCSwitchable
    Builtin = "default"
    UserStack = "mine"
    Models <- MCModels
    Modes <- MCModes
    DefaultMode = "plan"
    NextMode <- MCNextMode
    Withheld <- MCWithheld
    Unrestricted <- MCUnrestricted
    MaxKernels = 3
    Absent = Absent
INVARIANTS GoalRunsRestricted 
PROPERTIES FailedSwitchKeepsSession ResumeRestores
