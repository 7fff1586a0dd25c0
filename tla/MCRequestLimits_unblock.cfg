CONSTANTS
 Requests = {r1,r2,r3}
 Limit = 1
 Window = 1
 PatternConfig <- OneEach
 Longest = 3
 MaxTime = 1
SPECIFICATION Spec
INVARIANT UnblockRemovesBlock
CHECK_DEADLOCK FALSE
