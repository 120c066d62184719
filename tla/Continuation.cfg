SPECIFICATION Spec
CONSTANTS
    Sessions = {r, s}
    Texts = {"resume", "recover"}
    Text <- MCText
    UserTexts = {}
    Tasks = {1, 2}
    None = None
    MaxTurns = 2
    MaxActs = 4
    MaxPresses = 2
    MaxFaults = 1
INVARIANTS DeliveredOnce
PROPERTIES DeliverySpec FreshSubmit NotDowngraded
CHECK_DEADLOCK FALSE
