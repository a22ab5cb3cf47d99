SPECIFICATION FairSpec
CONSTANTS
    Users = {a, b}
    MaxRings = 1
 
PROPERTIES RingsEnd HangUpReaches
