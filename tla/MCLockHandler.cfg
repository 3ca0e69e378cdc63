SPECIFICATION Spec
CONSTANTS
    Threads = {t1, t2}
    Calls <- HandlerCalls
INVARIANT NoDeadlock
