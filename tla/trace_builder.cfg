SPECIFICATION Spec
CONSTANTS
    Addresses = {0, 1}
    Values = {0, 1}
    Scripts <- MCScripts
    Inputs <- MCInputs
    MaxWitnesses = 5
    MaxSteps = 2
INVARIANTS TypeOK StateCommitted WitnessesSuffice CheckpointResumable
PROPERTIES StepIsDirect RunEnds
