SPECIFICATION Spec
CONSTANTS
    Thread = {t1, t2, t3}
    Name = {alice, bob}
    Key = {k1, k2, k3}
    Imported = {k3}
    NoKey = NoKey
    NoFile = NoFile
    Empty = Empty
    Garbled = Garbled
    MaxRestarts = 2
SYMMETRY Symmetry
INVARIANTS
    MapMatchesDirectory
    AckedKeysSurvive
CHECK_DEADLOCK FALSE
