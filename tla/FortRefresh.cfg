\* Nothing fails: is the identity in the image the one the server has?
SPECIFICATION Spec
CONSTANTS
    Workers = {w1}
    MaxStarts = 2
    Fault = {}
    MaxFaults = 0
INVARIANT PinnedIdentityServed
