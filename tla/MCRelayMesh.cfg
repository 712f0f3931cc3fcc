SPECIFICATION MCSpec
CONSTANTS
    a1 = a1
    None = None
    Nodes = {1, 2}
    Addresses = {a1}
    Reach <- MCReach
    Lasting <- MCLasting
    Window = 1
    MaxLives <- MCLives
    MaxFaults = 1
PROPERTIES LosersWait MeshConverges DepartedAreForgotten
CHECK_DEADLOCK FALSE
