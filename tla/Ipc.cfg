SPECIFICATION Spec
CONSTANTS
    asker = asker
    offerer = offerer
    audio = audio
    video = video
    get = get
    set = set
    Clients = {asker, offerer}
    Mortal = {offerer}
    MaxEnds = 1
    Closers = {asker}
    MaxConns = 3
    FifoCap = 1
    Ids = {get, set}
    Offers <- MCOffers
    Callers = {audio, video}
    Asks <- MCAsks
    Home <- MCHome
    MaxCalls = 2
INVARIANTS
    TokensAreItems
    AnswersGoBack
    RunsAreRegistered
    
PROPERTIES
    ServerDestroyEnds
    ClientDestroyEnds
    CallsReturn
CHECK_DEADLOCK FALSE
