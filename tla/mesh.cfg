CONSTANTS
    Node = {a, b}
    None = None
    Rgb = {a}
    MaxNodes = 2
    MaxVersion = 2
    Upgradable = {a, b}
    Best = a
    MaxEffort = 2
SPECIFICATION Spec
INVARIANTS TypeOK LedAgrees
PROPERTIES SuccessIsTrue SilentGoesOffline StatusCatchesUp
