SPECIFICATION FairSpec
CONSTANTS
    m1 = m1  m2 = m2  m3 = m3
    None = None
    Migrators = {m1, m2, m3}
    Commands <- MCCommands
    Steps <- MCSteps
    Versions = {1, 2, 3}
    Sums = {"a", "b", "b2", "c"}
    Up <- MCUp
    Down <- MCDown
    MaxConns = 2
INVARIANTS RecordedIsApplied NeverAppliedTwice UpMeansUpToDate
PROPERTIES NewestRevertedFirst EveryRunEnds
