SPECIFICATION Spec
CONSTANTS
    Jobs = {first, second}
    Last = 2
    Workers = {w1, w2}
    Requests = {r1}
    MaxAttempts = 2
    Overwriting = FALSE
 
 
 
PROPERTY RunningEnds
