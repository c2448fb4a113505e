CONSTANTS
    W = 3
    MaskScale = 8
    None = None
    c1 = c1
    c2 = c2
    c3 = c3
    Clusters = {c1, c2, c3}
    Pools <- MCPools
    ClusterNet <- MCClusterNet
    Reserved <- MCReserved

SYMMETRY MCSymmetry

SPECIFICATION Spec

INVARIANT TypeOK
INVARIANT AllocatorNoOverlap
INVARIANT MappingDisjoint
INVARIANT MappingRegistered
INVARIANT MappingLengthPreserved
PROPERTY AbstractAllocator
INVARIANT MInv
PROPERTY SubnetGivenFree
