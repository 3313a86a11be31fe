SPECIFICATION Spec
CONSTANTS
    App = App
    Util = Util
    Base = Base
    Near = Near
    Dirs <- MCDirs
    Contents <- MCContents
    Absent0 <- MCAbsent
    Runnable <- MCRunnable
    Names <- MCNames
    Candidates <- MCCandidates
    Clashes <- MCClashes
    Options <- MCOptions
    MaxEvents = 2
    MaxRuns = 3
INVARIANTS BuildOrderSound LinkedFromSources
PROPERTIES ReportsAsCheck InvocationEnds
CHECK_DEADLOCK FALSE
