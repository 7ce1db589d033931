\* Scopes nested three deep, three outermost waits after each other.
SPECIFICATION FairSpec
CONSTANTS
    Limits <- MCLimits
    MaxDepth = 3
    MaxWaits = 3
INVARIANT OutermostDeadlineKept
PROPERTIES NoStrayExit HungWaitEnds
