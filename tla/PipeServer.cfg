SPECIFICATION FairPipeSpec
CONSTANTS
    c1 = c1
    c2 = c2
    Clients = {c1, c2}
    Poke = Poke
    NoOne = NoOne
    Faulty = TRUE
INVARIANTS PipeTypeOK NoReplyLost
PROPERTIES EveryoneGetsIn EveryRequestAnswered StopReturns
CHECK_DEADLOCK FALSE
