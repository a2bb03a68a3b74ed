\* Two instances during a deployment, and room for four gists.
SPECIFICATION Spec
CONSTANTS
    Instances = {i1, i2}
    MaxGists = 4
    MaxBlind = 1
INVARIANTS
    DuplicatesAreExplained
    OneFailureIsSurvived
PROPERTIES
    KeepsItsGist
    EveryBootEnds
