CONSTANTS
    a = a
    b = b
    m = m
    n = n
    None = None
    Bad = Bad
    User = User
    Names = {a, b}
    Paths <- Tree
    Aliases = {m, n}
    Package <- PluginDir
    Worlds <- AllWorlds
SPECIFICATION Spec
INVARIANTS TypeOK TreeSound NothingForgotten NearestWins
CHECK_DEADLOCK FALSE
