\* Two workers, no failures, every configuration: who may serve, and that valid
\* deployments converge.
CONSTANTS
    w1 = w1
    w2 = w2
    Worker = {w1, w2}
    MayStop = FALSE
    MayRemove = FALSE
    Configs <- AllConfigs
SPECIFICATION FairStartupSpec
INVARIANTS
    OneGate
    OpenOnlyByChoice
    ServesOnlyAdmissible
PROPERTIES
    Converges
    FileSettles
CHECK_DEADLOCK FALSE
