SPECIFICATION FairSpec
CONSTANTS
    s1 = s1
    s2 = s2
    b1 = b1
    b2 = b2
    c1 = c1
    c2 = c2
    eno = eno
    SlotOrder <- TwoSlots
    TypeBays = {b1, b2}
    SlotOf <- TwoBaysOne
    PatternOf <- TwoPatterns
    Cards = {c1, c2}
    Foreign = {eno}
    Hand = Hand
    Device = Device
    None = None
    MaxChanges = 3
    MaxFaults = 1
INVARIANTS
    TypeOK
    DataLostOnlyWithGoneCard
    DataFollowsCard
    EachHoused
    SettledStays
PROPERTIES
    Settles
    Quiesces
