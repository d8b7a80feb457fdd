SPECIFICATION RegistrarSpec
CONSTANTS
    a = a
    b = b
    u = u
    k = k
    Nil = Nil
    Registrars = {a, b}
    Keys = {k}
    KeyOf <- MCKeyOf
    Updaters = {u}
    Updates <- MCUpdates
    MaxLeases <- MCMaxLeases
    MaxFaults = 2
INVARIANTS OwnerKeepsKey
PROPERTIES RegistersAgain ClosedIsGone
CHECK_DEADLOCK FALSE
