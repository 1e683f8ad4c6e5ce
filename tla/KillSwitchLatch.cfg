\* A switch that triggers in a tick whose transaction fails.
CONSTANTS
    Equities = {6, 8, 10}
    MaxDrawdown = 40
    MaxDailyLoss = 20
    MaxDay = 2
    Faults = {"persist"}
SPECIFICATION Spec
PROPERTIES StaysLatched
