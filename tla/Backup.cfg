\* Two polls, two annotations, an anchor run and a death of any process beside
\* nightly backups to a local directory or a remote.  Backups go on for ever.
CONSTANTS
    NONE = NONE
    x = x
    y = y
    Contents = {x}
    Destinations = {"local", "remote"}
    MaxPolls = 2
    MaxNotes = 2
    MaxAnchors = 1
    MaxDeaths = 1
SPECIFICATION Spec
INVARIANTS TypeOK CompleteCopyIsWhole OnlyAnchorsOrForksSpoilACopy
PROPERTIES KeepsACopy EveryPollIsBackedUp
