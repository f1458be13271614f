\* Seven keys and room for six: a heap of six is the smallest in which the
\* element that replaces a removed one may have to rise.  The search for
\* symmetric states goes over five of the keys.
CONSTANTS
    Keys = {k1, k2, k3, k4, k5, k6, k7}
    Alike = {k1, k2, k3, k4, k5}
    Capacity = 6
    NoKey = NoKey
    MaxCount = 2
SPECIFICATION PoliciesSpec
SYMMETRY Symmetry
INVARIANTS LRUInv FIFOInv LFUInv
PROPERTIES EvictsLeastRecent ImplementsPolicy FIFOEvictsOldest FIFOImplementsPolicy LFUEvictsLeastFrequent LFUImplementsPolicy
