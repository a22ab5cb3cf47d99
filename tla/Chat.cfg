SPECIFICATION FairSpec
CONSTANTS
    alice = alice
    bob = bob
    u1 = u1
    u2 = u2
    Clients <- MCClients
    UserOf <- MCUserOf
    MaxSends <- MCMaxSends
    MaxSessions = 3
    MaxFetches <- MCMaxFetches
    Limit = 2
    Cap = 3
INVARIANTS OnlyStoredShown LiveInOrder AnswersOwnSession 
CHECK_DEADLOCK FALSE
 
