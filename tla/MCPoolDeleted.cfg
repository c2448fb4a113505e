CONSTANTS
    W = 3
    MaskScale = 8
    None = None
    Malformed = Malformed
    c1 = c1
    c2 = c2
    c3 = c3
    Clusters = {c1, c2, c3}
    Pools <- MCPools
    ClusterNet <- MCClusterNet
    Reserved = {}
    Configs <- MCConfigsPool

SPECIFICATION TecSpec

INVARIANT PoolsStored
