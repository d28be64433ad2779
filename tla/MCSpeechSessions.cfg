SPECIFICATION FairSpec
CONSTANTS
    Sockets = {s1}
    Streams = {h1}
    Uploads = {u1}
    Nothing = Nothing
    MaxSentences = 2
INVARIANTS
    OneEngine
    LoadsUpFront
    SpokenInOrder
    ActiveCounted
PROPERTIES
    SessionsEnd
CHECK_DEADLOCK FALSE
