SPECIFICATION Spec
CONSTANTS
    MaxConns = 2
    Exiters = {"ctrlC"}
    LoopSets = {{"http"}}
INVARIANTS
    SurvivesLoss
