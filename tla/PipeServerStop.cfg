SPECIFICATION PipeSpec
CONSTANTS
    c1 = c1
    c2 = c2
    Clients = {c1, c2}
    Poke = Poke
    NoOne = NoOne
    Faulty = FALSE
INVARIANT PokeWakesListener
CHECK_DEADLOCK FALSE
