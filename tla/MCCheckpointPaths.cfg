SPECIFICATION Spec
CONSTANTS
    foo = foo  Foo = Foo  FOO = FOO  long = long
    shared = shared  own = own
    w1 = w1  w2 = w2
    NoFile = NoFile  Garbage = Garbage  NoUnit = NoUnit  NoThread = NoThread
    Units = {foo, Foo, FOO, long}
    Names = {shared, own}
    BareName <- Naming
    LongUnits = {long}
    Threads = {w1, w2}
    MaxSaves = 4
INVARIANTS
    RowsSurvive
    LoadFindsLatest
SYMMETRY PathSymmetry
CHECK_DEADLOCK FALSE
