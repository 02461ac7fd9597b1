SPECIFICATION Spec
CONSTANTS
    None = None
    i1 = i1
    i2 = i2
    high = high
    low = low
    st1 = st1
    st2 = st2
    al1 = al1
    al2 = al2
    Feeds = {"hourly"}
    Answers <- MCAnswers
    WebSource <- MCWebSource
    Island <- MCIsland
    Corridors <- MCCorridors
    MaxTime = 4
    Horizon = 4
    PageLimit = 2
INVARIANT NextHourIsNext
