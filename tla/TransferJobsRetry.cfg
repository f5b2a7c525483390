SPECIFICATION Spec
CONSTANTS
    Jobs = {first}
    Last = 2
    Workers = {w1}
    Requests = {r1}
    MaxAttempts = 3
    Overwriting = FALSE
PROPERTY NeverAConfirmedItem
