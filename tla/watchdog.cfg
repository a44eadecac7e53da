SPECIFICATION GuardSpec
CONSTANTS
    Watchdogs = {d1, d2}
    Inodes = {i1, i2}
    NoInode = NoInode
    Empty = Empty
    Gone = Gone
    MaxKills = 1
CHECK_DEADLOCK FALSE
PROPERTIES
    ServerComesBack
