SPECIFICATION Spec
CONSTANTS
    None = None
    i1 = i1
    i2 = i2
    high = high
    low = low
    st1 = st1
    st2 = st2
    al1 = al1
    al2 = al2
    Feeds = {"pulsepoint", "alerts", "hourly", "observation", "water_level",
             "predicted_water_level", "tide_predictions", "wind", "demand", "radar",
             "storms", "closures", "shelters", "zones", "transit",
             "boil_water", "bulletins", "evacuation"}
    Answers <- MCAnswers
    WebSource <- MCWebSource
    Island <- MCIsland
    Corridors <- MCCorridors
    MaxTime = 4
    Horizon = 3
    PageLimit = 3
INVARIANT OnlyTheLastAnswer
INVARIANT OneRowPerFact
INVARIANT StormsAreWhole
INVARIANT RoutesReachTheBeach
INVARIANT ZonesKeepTheirArea
INVARIANT OnlyActiveSection
