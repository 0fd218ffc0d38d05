CONSTANTS
    loop = loop
    once = once
    Controllers = {loop, once}
    Ideals <- MCIdeals
    MinHumidity = 4
    MaxHumidity = 7
    Settings <- MCSettings
    AutoMode = "auto"
    OtherModes = {"manual"}
    Targets = {5}
    NoValue = NoValue
    MaxDisturbances = 3
SPECIFICATION Spec
INVARIANTS TypeOK RunSettles
PROPERTIES Converges Quiesces
