SPECIFICATION Spec
CONSTANTS
    Worker = {w1, w2, w3}
    Client = {c1}
    OuterItems = 3
    Nesting = {1, 2}
    NestedItems = 1
    Rank <- MCRank
    Bytes <- MCBytes
    Throughput = 2
    Capacity = 3
    Headroom = 1
    Quantum = 1
    AgingQuantum = 2
INVARIANTS
    BatchComplete
    DrainsAccounted
    NoReentry
    NeverAllAsleep
PROPERTIES
    BatchesReturn
    ExecutorEnds
