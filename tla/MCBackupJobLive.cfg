CONSTANTS
    Reconcilers = {r1}
    Clients = {"client"}
    Objects <- MCObjects
    Period = 1
    StaleAfter = 3
    MaxTakes = 3
    MaxBeats = 0
    MaxFaults = 2
SPECIFICATION FairSpec
INVARIANT ManifestMeansComplete
PROPERTIES DeadOwnerResolved DeletionFinished FailedPrefixEmptied
