SPECIFICATION FairSpec
CONSTANTS
    ann = ann
    ben = ben
    None = None
    Users <- MCUsers
    MaxSearches <- MCMaxSearches
    MaxSessions = 4
    MaxFaults = 1
INVARIANTS FriendshipHasChannel ListsMatchStore 
CHECK_DEADLOCK FALSE
PROPERTIES RequestKept FriendshipShown
