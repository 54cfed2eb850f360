SPECIFICATION LogSpec
CONSTANTS
    Writers = {1, 2}
    Days = 2
    MaxEvents = 4
    Retention = 0
    MaxSize = 4
    Limit = 1
INVARIANT FollowedOnce
INVARIANT LogInv
PROPERTY FollowedAll
