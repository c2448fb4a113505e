---------------------------- MODULE IpamRefinement ----------------------------
(***************************************************************************)
(* The IPAM engine of Ipam.tla implements the abstract allocator of        *)
(* AbstractIpam.tla under the mapping                                      *)
(*     taken    <- registered \ PoolSet                                    *)
(*     assigned <- subnetPerCluster.                                       *)
(* A reservation or an allocation that stores a new prefix is a Reserve or *)
(* an Allocate of the abstract allocator, a release is a Release or a      *)
(* Deallocate, a call that fails is a stutter, and so is the deletion of a *)
(* pool, which the abstract allocator does not see.                        *)
(*                                                                         *)
(* The mapping needs one assumption on the configuration: no cluster       *)
(* advertises exactly one of the pools.  Otherwise, once the pool has been *)
(* deleted (see the pool_deleted run), GetSubnetPerCluster may store the   *)
(* pool itself as a cluster's subnet, which the mapping does not count as  *)
(* taken.  Under the assumption a cluster's subnet is never a pool         *)
(* (MappedNotPool), which the refinement step for a free needs.            *)
(***************************************************************************)
EXTENDS IpamProofs

\* The configuration assumption of the refinement.
NoClusterIsPool == \A c \in Clusters : ClusterNet[c] \notin PoolSet

\* A cluster's subnet is never one of the pools.
MappedNotPool ==
    \A c \in Clusters : subnetPerCluster[c] # None => subnetPerCluster[c] \notin PoolSet

RInv == IInv /\ MappedNotPool

-----------------------------------------------------------------------------

\* The abstract allocator speaks of the same prefixes and the same overlap.
LEMMA SamePrefixes ==
    /\ Abstract!Cidr = Cidr
    /\ \A a, b : Abstract!Overlaps(a, b) <=> Overlaps(a, b)
BY DEF Abstract!Cidr, Cidr, Abstract!Addr, Addr, Abstract!BlockSize, BlockSize,
       Abstract!Overlaps, Overlaps, Abstract!Block, Block

\* A stored prefix is free, in the abstract sense, of all the others.
LEMMA TakenFreeOfNew ==
    ASSUME NEW n, \A r \in registered : ~Overlaps(r, n)
    PROVE  Abstract!IsFree(n)
BY SamePrefixes DEF Abstract!IsFree

\* A child acquired from a pool is free of every taken block.
LEMMA ChildIsFree ==
    ASSUME AllocInv, NEW p \in PoolSet, NEW x \in Cidr, AcquireChild(p, x)
    PROVE  Abstract!IsFree(x) /\ x \notin PoolSet
<1>1. \A b \in registered : b # p => ~Overlaps(x, b)
  BY AcquireChildFresh
<1>2. \A t \in registered \ PoolSet : ~Overlaps(t, x)
  BY <1>1, OverlapsSym
<1>. QED  BY <1>2, AcquireChildFresh, SamePrefixes DEF Abstract!IsFree

\* A reservation is a Reserve or a stutter.
LEMMA ReserveStep ==
    ASSUME AllocInv, NEW n \in Cidr, AcquireReservedSubnet(n), UNCHANGED subnetPerCluster
    PROVE  [Abstract!AbsNext]_Abstract!absVars
<1>1. CASE InPool(n) /\ AcquireChild(PoolOf(n), n)
  <2>1. PoolOf(n) \in PoolSet
    BY <1>1, PoolOfIsPool
  <2>2. Abstract!IsFree(n) /\ n \notin PoolSet
    BY <1>1, <2>1, ChildIsFree
  <2>3. Abstract!Reserve(n)
    BY <1>1, <2>2 DEF AcquireChild, Abstract!Reserve
  <2>. QED  BY <2>3, SamePrefixes DEF Abstract!AbsNext
<1>2. CASE ~InPool(n) /\ NewPrefix(n) /\ n \notin PoolSet
  <2>1. Abstract!Reserve(n)
    BY <1>2, TakenFreeOfNew DEF NewPrefix, NewPrefixOk, Abstract!Reserve
  <2>. QED  BY <1>2, <2>1, SamePrefixes DEF Abstract!AbsNext
<1>3. CASE ~InPool(n) /\ NewPrefix(n) /\ n \in PoolSet
  BY <1>3 DEF NewPrefix, Abstract!absVars
<1>4. CASE UNCHANGED allocVars
  BY <1>4 DEF allocVars, Abstract!absVars
<1>. QED  BY <1>1, <1>2, <1>3, <1>4 DEF AcquireReservedSubnet

\* Freeing a stored prefix is a Release, or a stutter for a pool.
LEMMA FreeStep ==
    ASSUME NEW n, FreeReservedSubnet(n)
    PROVE  /\ n \notin PoolSet => registered' \ PoolSet = (registered \ PoolSet) \ {n}
           /\ n \in PoolSet => registered' \ PoolSet = registered \ PoolSet
           /\ n \in registered
BY DEF FreeReservedSubnet, ReleaseChild, DeletePrefix

\* An allocation for a cluster is an Allocate.
LEMMA AllocateStep ==
    ASSUME RInv, NoClusterIsPool, NEW c \in Clusters,
           GetSubnetPerCluster(ClusterNet[c], c)
    PROVE  /\ \E x \in Cidr : Abstract!Allocate(c, x) /\ x \notin PoolSet
           /\ MappedNotPool'
<1>. DEFINE n == ClusterNet[c]
<1>0. n \in Cidr /\ n \notin PoolSet
  BY ClusterNetAssumption DEF NoClusterIsPool
<1>1. \E x \in Cidr : /\ x \notin PoolSet
                      /\ Abstract!IsFree(x)
                      /\ registered' = registered \cup {x}
                      /\ Assign(c, x)
  <2>1. CASE NewPrefix(n) /\ Assign(c, n)
    BY <1>0, <2>1, TakenFreeOfNew DEF NewPrefix, NewPrefixOk
  <2>2. CASE InPool(n) /\ AcquireChild(PoolOf(n), n) /\ Assign(c, n)
    BY <1>0, <2>2, PoolOfIsPool, ChildIsFree DEF RInv, IInv, AcquireChild
  <2>3. CASE MapNetwork(n, c)
    <3>1. PICK p \in PoolSet, x \in Cidr : AcquireChild(p, x) /\ Assign(c, x)
      BY <2>3, MapNetworkFromPool
    <3>. QED  BY <3>1, ChildIsFree DEF RInv, IInv, AcquireChild
  <2>. QED  BY <2>1, <2>2, <2>3 DEF GetSubnetPerCluster
<1>2. PICK x \in Cidr : /\ x \notin PoolSet
                        /\ Abstract!IsFree(x)
                        /\ registered' = registered \cup {x}
                        /\ Assign(c, x)
  BY <1>1
<1>3. Abstract!Allocate(c, x)
  BY <1>2 DEF GetSubnetPerCluster, Assign, Abstract!Allocate
<1>4. MappedNotPool'
  BY <1>2 DEF RInv, IInv, MappedNotPool, Assign
<1>. QED  BY <1>2, <1>3, <1>4

\* Freeing a cluster's subnet, which is not a pool, is a Deallocate.
LEMMA DeallocateStep ==
    ASSUME RInv, NEW c \in Clusters, FreeSubnetPerCluster(c)
    PROVE  Abstract!Deallocate(c)
<1>1. subnetPerCluster[c] \notin PoolSet
  BY DEF FreeSubnetPerCluster, RInv, MappedNotPool
<1>2. registered' \ PoolSet = (registered \ PoolSet) \ {subnetPerCluster[c]}
  BY <1>1, FreeStep DEF FreeSubnetPerCluster
<1>. QED  BY <1>2 DEF FreeSubnetPerCluster, Abstract!Deallocate

-----------------------------------------------------------------------------

LEMMA InitRInv == IpamInit => RInv /\ Abstract!AbsInit
BY InitIInv DEF IpamInit, RInv, MappedNotPool, Abstract!AbsInit

\* Under the configuration assumption every step keeps RInv and is a step
\* or a stutter of the abstract allocator.
LEMMA NextRefines ==
    ASSUME NoClusterIsPool, RInv, [Next]_vars
    PROVE  RInv' /\ [Abstract!AbsNext]_Abstract!absVars
<1>1. IInv'
  BY NextIInv DEF RInv
<1>2. ASSUME NEW n \in Reserved, AcquireReservedSubnet(n), UNCHANGED subnetPerCluster
      PROVE  RInv' /\ [Abstract!AbsNext]_Abstract!absVars
  <2>1. [Abstract!AbsNext]_Abstract!absVars
    BY <1>2, ReservedAssumption, ReserveStep DEF RInv, IInv
  <2>. QED  BY <1>1, <1>2, <2>1 DEF RInv, MappedNotPool
<1>3. ASSUME NEW n \in Reserved, FreeReservedSubnet(n), UNCHANGED subnetPerCluster
      PROVE  RInv' /\ [Abstract!AbsNext]_Abstract!absVars
  <2>1. [Abstract!AbsNext]_Abstract!absVars
    <3>1. CASE n \notin PoolSet
      <4>1. Abstract!Release(n)
        BY <1>3, <3>1, FreeStep DEF Abstract!Release
      <4>. QED  BY <1>3, <4>1, ReservedAssumption, SamePrefixes DEF Abstract!AbsNext
    <3>2. CASE n \in PoolSet
      BY <1>3, <3>2, FreeStep DEF Abstract!absVars
    <3>. QED  BY <3>1, <3>2
  <2>2. RInv'
    BY <1>1, <1>3 DEF RInv, MappedNotPool
  <2>. QED  BY <2>1, <2>2
<1>4. ASSUME NEW c \in Clusters, GetSubnetPerCluster(ClusterNet[c], c)
      PROVE  RInv' /\ [Abstract!AbsNext]_Abstract!absVars
  <2>1. \E x \in Cidr : Abstract!Allocate(c, x)
    BY <1>4, AllocateStep
  <2>. QED  BY <1>1, <1>4, <2>1, AllocateStep, SamePrefixes DEF RInv, Abstract!AbsNext
<1>5. ASSUME NEW c \in Clusters, FreeSubnetPerCluster(c)
      PROVE  RInv' /\ [Abstract!AbsNext]_Abstract!absVars
  <2>1. Abstract!Deallocate(c)
    BY <1>5, DeallocateStep
  <2>2. MappedNotPool'
    BY <1>5 DEF RInv, MappedNotPool, FreeSubnetPerCluster
  <2>. QED  BY <1>1, <2>1, <2>2 DEF RInv, Abstract!AbsNext
<1>6. CASE UNCHANGED vars
  BY <1>1, <1>6 DEF vars, RInv, MappedNotPool, Abstract!absVars
<1>. QED  BY <1>2, <1>3, <1>4, <1>5, <1>6 DEF Next

\* The IPAM engine implements the abstract allocator, whenever no cluster
\* advertises exactly a pool: whatever order of Init, reservations, frees
\* and cluster allocations and releases the client issues, the non-pool
\* prefixes it stores and the cluster table evolve as taken blocks and an
\* assignment that only ever grow by free blocks.
THEOREM Refinement ==
    ASSUME NoClusterIsPool
    PROVE  Spec => AbstractAllocator
<1>1. IpamInit => RInv /\ Abstract!AbsInit
  BY InitRInv
<1>2. RInv /\ [Next]_vars => RInv' /\ [Abstract!AbsNext]_Abstract!absVars
  BY NextRefines
<1>. QED  BY <1>1, <1>2, PTL DEF Spec, AbstractAllocator, Abstract!AbsSpec

\* The abstract allocator never holds two blocks that share an address.
LEMMA AbstractNextDisjoint ==
    Abstract!TakenDisjoint /\ [Abstract!AbsNext]_Abstract!absVars => Abstract!TakenDisjoint'
BY OverlapsSym, SamePrefixes
DEF Abstract!TakenDisjoint, Abstract!AbsNext, Abstract!absVars, Abstract!Reserve,
    Abstract!Release, Abstract!Allocate, Abstract!Deallocate, Abstract!IsFree

\* So, through the refinement, the reserved networks and the cluster
\* subnets the engine stores are pairwise disjoint in every reachable state:
\* two clusters are never given sharing subnets, and no cluster is given a
\* subnet that shares an address with a reserved network.
THEOREM TakenDisjointImplemented ==
    ASSUME NoClusterIsPool
    PROVE  Spec => []Abstract!TakenDisjoint
<1>1. Abstract!AbsInit => Abstract!TakenDisjoint
  BY DEF Abstract!AbsInit, Abstract!TakenDisjoint
<1>2. Abstract!AbsSpec => []Abstract!TakenDisjoint
  BY <1>1, AbstractNextDisjoint, PTL DEF Abstract!AbsSpec
<1>. QED  BY <1>2, Refinement DEF AbstractAllocator
=============================================================================
