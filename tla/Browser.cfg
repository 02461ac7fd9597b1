SPECIFICATION FairSpec
CONSTANTS
    MaxAnswers = 3
    Retries = 1
    StorageStates = {"ok", "full"}
    Garbage = Garbage
    None = None
INVARIANT NoSilentFailure
PROPERTY UnmarkedIsLive
PROPERTY OutageShows
PROPERTY Recovers
