SPECIFICATION FairSpec
CONSTANTS
    Threads = {t1, t2, t3}
    Calls <- OrderedCalls
INVARIANT NoDeadlock
PROPERTY CallsReturn
