SPECIFICATION FairSpec
CONSTANTS
    Requests = {r1, r2, r3}
    Limits <- MCLimits
    Wrap = 8
    Nobody = Nobody
INVARIANT InFlightExact
PROPERTIES ImplementsLimit DrainsToZero
