\* Four slots, indices that wrap after two rounds, two kinds of element.
SPECIFICATION Spec
CONSTANTS
    a = a
    b = b
    NoItem = NoItem
    Items <- ItemsAB
    Capacity = 4
    IndexRange = 8
INVARIANTS
    TypeOK
    ObservationsStayTrue
    PublishedAreConstructed
    NoSlotRace
PROPERTIES
    HeldElementIsStable
    ImplementsFifo
