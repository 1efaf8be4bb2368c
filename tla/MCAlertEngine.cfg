SPECIFICATION Spec
CONSTANTS
    worker = worker  caller = caller  hot = hot
    Worker = worker
    Callers <- OneCaller
    Rules <- SlowAndFast
    LongestCooldown = 3
    MaxDuration = 1
INVARIANT CooldownIsKept
PROPERTY AlertIsRaised
