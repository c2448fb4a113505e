--------------------------------- MODULE Ipam ---------------------------------
(***************************************************************************)
(* The IPAM engine of pkg/liqonet/ipam.go: the IPAM struct (the cluster    *)
(* subnet table and the pools) on top of the go-ipam prefix allocator.     *)
(*                                                                         *)
(* The allocator is the external library github.com/davidefalcone1/go-ipam *)
(* and is modelled from its contract: a store of prefixes, each with its   *)
(* parent prefix and the set of children carved out of it.                *)
(*                                                                         *)
(* Every engine operation is one atomic step.  Error returns that leave    *)
(* the state as it was (an existing mapping, PoolExhausted, an allocator   *)
(* error surfaced to the caller) are stuttering steps and are not written. *)
(***************************************************************************)
EXTENDS Cidr, Sequences

CONSTANTS
    Pools,       \* liqoIPAM.pools: the pools, in the order Init received them
    Clusters,    \* identifiers of the remote clusters
    ClusterNet,  \* the PodCIDR each remote cluster advertises
    Reserved,    \* the networks a client of the engine may reserve and free
    None         \* no parent prefix / no mapping

PoolSet == {Pools[i] : i \in DOMAIN Pools}

\* Init registers every pool with NewPrefix, which refuses overlapping
\* prefixes: with overlapping pools the engine never starts.
ASSUME PoolsAssumption ==
    /\ Pools \in Seq(Cidr)
    /\ \A i, j \in DOMAIN Pools : i # j => ~Overlaps(Pools[i], Pools[j])

ASSUME ClusterNetAssumption == ClusterNet \in [Clusters -> Cidr]

ASSUME ReservedAssumption == Reserved \subseteq Cidr

ASSUME NoneAssumption == None \notin Cidr

VARIABLES
    registered,       \* the prefixes stored by go-ipam
    parentOf,         \* Prefix.ParentCidr of each prefix (None: top level)
    used,             \* availableChildPrefixes entries that are false
    subnetPerCluster  \* liqoIPAM.SubnetPerCluster (None: no entry)

allocVars == <<registered, parentOf, used>>

vars == <<registered, parentOf, used, subnetPerCluster>>

-----------------------------------------------------------------------------
(***************************************************************************)
(* The go-ipam primitives the engine calls.                                *)
(***************************************************************************)

\* Mutation: only an identical stored prefix refuses the new one.
NewPrefixOkDuplicateOnly(n) == n \notin registered

\* NewPrefix: a top-level prefix, refused if it overlaps a stored prefix.
NewPrefixOk(n) == \A r \in registered : ~Overlaps(r, n)

NewPrefix(n) ==
    /\ NewPrefixOk(n)
    /\ registered' = registered \cup {n}
    /\ parentOf' = [parentOf EXCEPT ![n] = None]
    /\ used' = [used EXCEPT ![n] = {}]

\* AcquireSpecificChildPrefix(p, x) and AcquireChildPrefix(p, len) succeed
\* for a stored parent p, a longer x inside p, free among p's children.
ChildOk(p, x) ==
    /\ p \in registered
    /\ p.len < x.len
    /\ Inside(x, p)
    /\ \A u \in used[p] : ~Overlaps(u, x)

\* Mutation: the stored child's prefix length is one too long.
AcquireChildLongerMask(p, x) ==
    /\ ChildOk(p, x)
    /\ registered' = registered \cup {[x EXCEPT !.len = @ + 1]}
    /\ parentOf' = [parentOf EXCEPT ![x] = p]
    /\ used' = [used EXCEPT ![p] = @ \cup {x}, ![x] = {}]

AcquireChild(p, x) ==
    /\ ChildOk(p, x)
    /\ registered' = registered \cup {x}
    /\ parentOf' = [parentOf EXCEPT ![x] = p]
    /\ used' = [used EXCEPT ![p] = @ \cup {x}, ![x] = {}]

\* The one failure of AcquireSpecificChildPrefix whose message contains
\* "is not available": the parent exists, the length is longer, the slot
\* is not free.  Its other failures are "unable to find prefix" and
\* "given length must be greater than prefix length".
NotAvailable(p, x) ==
    /\ p \in registered
    /\ p.len < x.len
    /\ ~ChildOk(p, x)

\* ReleaseChildPrefix fails unless the prefix's parent is stored.
CanReleaseChild(x) == parentOf[x] \in registered

ReleaseChild(x) ==
    /\ registered' = registered \ {x}
    /\ used' = [used EXCEPT ![parentOf[x]] = @ \ {x}, ![x] = {}]
    /\ UNCHANGED parentOf

\* DeletePrefix removes a stored prefix; it does not look at its children.
DeletePrefix(x) ==
    /\ registered' = registered \ {x}
    /\ used' = [used EXCEPT ![x] = {}]
    /\ UNCHANGED parentOf

-----------------------------------------------------------------------------
(***************************************************************************)
(* The engine.                                                             *)
(***************************************************************************)

\* getPoolFromNetwork: poolIPset accumulates the pools scanned so far and is
\* never reset, so pool i is returned as soon as pools 1..i together
\* contain the network.
PoolIndex(n) ==
    {i \in DOMAIN Pools : Block(n) \subseteq UNION {Block(Pools[j]) : j \in 1 .. i}}

InPool(n) == PoolIndex(n) # {}

PoolOf(n) == Pools[CHOOSE i \in PoolIndex(n) : \A j \in PoolIndex(n) : i <= j]

\* Every error of the child acquisition, or of NewPrefix, is logged as
\* "already reserved" and the call returns nil.
AcquireReservedSubnet(n) ==
    IF InPool(n)
    THEN \/ AcquireChild(PoolOf(n), n)
         \/ ~ChildOk(PoolOf(n), n) /\ UNCHANGED allocVars
    ELSE \/ NewPrefix(n)
         \/ ~NewPrefixOk(n) /\ UNCHANGED allocVars

\* Succeeds for a stored prefix: released as a child when its parent is
\* stored, deleted otherwise.  For a prefix that is not stored it returns
\* an error and changes nothing.
FreeReservedSubnet(n) ==
    /\ n \in registered
    /\ IF CanReleaseChild(n) THEN ReleaseChild(n) ELSE DeletePrefix(n)

Assign(c, x) == subnetPerCluster' = [subnetPerCluster EXCEPT ![c] = x]

\* mapNetwork: the first pool, in order, with a free child of length
\* getMask(n) yields one; which free child is the allocator's choice.
MapNetwork(n, c) ==
    LET len  == GetMask(n)
        open == {i \in DOMAIN Pools : \E x \in Cidr : x.len = len /\ ChildOk(Pools[i], x)}
        pool == Pools[CHOOSE i \in open : \A j \in open : i <= j]
    IN  /\ open # {}
        /\ \E x \in Cidr : x.len = len /\ AcquireChild(pool, x) /\ Assign(c, x)

\* Mutation: "is not available" is taken to mean the cluster already has
\* the network, as AcquireReservedSubnet takes it.
GetSubnetPerClusterNotAvailableOk(n, c) ==
    /\ subnetPerCluster[c] = None
    /\ \/ NewPrefix(n) /\ Assign(c, n)
       \/ /\ ~NewPrefixOk(n)
          /\ \/ InPool(n) /\ AcquireChild(PoolOf(n), n) /\ Assign(c, n)
             \/ InPool(n) /\ NotAvailable(PoolOf(n), n) /\ Assign(c, n)
                /\ UNCHANGED allocVars
             \/ ~InPool(n) /\ MapNetwork(n, c)

\* Mutation: the existing mapping is not looked up, so a cluster that
\* already has a subnet is given another one.
GetSubnetPerClusterNoLookup(n, c) ==
    \/ NewPrefix(n) /\ Assign(c, n)
    \/ /\ ~NewPrefixOk(n)
       /\ \/ InPool(n) /\ AcquireChild(PoolOf(n), n) /\ Assign(c, n)
          \/ /\ InPool(n) => NotAvailable(PoolOf(n), n)
             /\ MapNetwork(n, c)

GetSubnetPerCluster(n, c) ==
    /\ subnetPerCluster[c] = None
    /\ \/ NewPrefix(n) /\ Assign(c, n)
       \/ /\ ~NewPrefixOk(n)
          /\ \/ InPool(n) /\ AcquireChild(PoolOf(n), n) /\ Assign(c, n)
             \/ /\ InPool(n) => NotAvailable(PoolOf(n), n)
                /\ MapNetwork(n, c)

\* Mutation: the subnet is freed but the table entry is not deleted.
FreeSubnetPerClusterKeepsEntry(c) ==
    /\ subnetPerCluster[c] # None
    /\ FreeReservedSubnet(subnetPerCluster[c])
    /\ UNCHANGED subnetPerCluster

\* When FreeReservedSubnet fails the error is returned and the entry kept.
FreeSubnetPerCluster(c) ==
    /\ subnetPerCluster[c] # None
    /\ FreeReservedSubnet(subnetPerCluster[c])
    /\ subnetPerCluster' = [subnetPerCluster EXCEPT ![c] = None]

\* NewIPAM.
IpamNew ==
    /\ registered = {}
    /\ parentOf = [x \in Cidr |-> None]
    /\ used = [x \in Cidr |-> {}]
    /\ subnetPerCluster = [c \in Clusters |-> None]

\* Init's loop over the pools: each becomes a top-level prefix (they are
\* disjoint, so no NewPrefix fails on a fresh engine).
InitPools ==
    /\ registered = {}
    /\ registered' = PoolSet
    /\ UNCHANGED <<parentOf, used, subnetPerCluster>>

-----------------------------------------------------------------------------
(***************************************************************************)
(* The engine on its own: a client that has called Init and then calls     *)
(* every operation in any order, reserving and freeing networks of         *)
(* Reserved and asking for and freeing each cluster's subnet.              *)
(***************************************************************************)
IpamInit ==
    /\ registered = PoolSet
    /\ parentOf = [x \in Cidr |-> None]
    /\ used = [x \in Cidr |-> {}]
    /\ subnetPerCluster = [c \in Clusters |-> None]

Next ==
    \/ \E n \in Reserved :
          /\ AcquireReservedSubnet(n) \/ FreeReservedSubnet(n)
          /\ UNCHANGED subnetPerCluster
    \/ \E c \in Clusters :
          GetSubnetPerCluster(ClusterNet[c], c) \/ FreeSubnetPerCluster(c)

Spec == IpamInit /\ [][Next]_vars

\* The engine seen through its promise: the stored prefixes other than the
\* pools are the taken blocks, the cluster table is the assignment.
Abstract == INSTANCE AbstractIpam WITH taken <- registered \ PoolSet,
                                       assigned <- subnetPerCluster

-----------------------------------------------------------------------------
TypeOK ==
    /\ registered \subseteq Cidr
    /\ parentOf \in [Cidr -> Cidr \cup {None}]
    /\ used \in [Cidr -> SUBSET Cidr]
    /\ subnetPerCluster \in [Clusters -> Cidr \cup {None}]

\* Spec section 3: two stored prefixes share an address only when one was
\* carved out of the other, whatever order of reservations, releases,
\* allocations and remappings led there.
AllocatorNoOverlap ==
    \A a, b \in registered :
        a # b /\ Overlaps(a, b) => parentOf[a] = b \/ parentOf[b] = a

\* No two remote clusters are given subnets that share an address, so the
\* traffic of one cluster is never routed to another.
MappingDisjoint ==
    \A c, d \in Clusters :
        /\ c # d
        /\ subnetPerCluster[c] # None
        /\ subnetPerCluster[d] # None
        => ~Overlaps(subnetPerCluster[c], subnetPerCluster[d])

\* Spec section 3: the subnet of a cluster is a stored prefix for as long as
\* the mapping exists, so nobody else can be given it.
MappingRegistered ==
    \A c \in Clusters :
        subnetPerCluster[c] # None => subnetPerCluster[c] \in registered

\* The engine implements the abstract allocator: every reservation and
\* every cluster allocation takes a block that shares no address with a
\* reserved network or another cluster's subnet, and every release gives
\* back exactly the block released.
AbstractAllocator == Abstract!AbsSpec

\* Spec section 4.1: a remapped subnet has the prefix length of the network
\* the cluster advertised (a /24 stays a /24), through getMask's parsing.
MappingLengthPreserved ==
    \A c \in Clusters :
        subnetPerCluster[c] # None => subnetPerCluster[c].len = ClusterNet[c].len

\* Spec section 4.1, steps 2-4: whichever branch gives a cluster its subnet
\* (the advertised network as a new prefix, its exact carve out of a pool,
\* or a remap), the subnet was stored by nobody before the step and shares
\* no address with any reservation or other cluster's subnet stored then.
GivenSubnetFree ==
    \A c \in Clusters :
        subnetPerCluster[c] = None /\ subnetPerCluster'[c] # None =>
            /\ subnetPerCluster'[c] \notin registered
            /\ \A b \in registered \ PoolSet : ~Overlaps(subnetPerCluster'[c], b)

SubnetGivenFree == [][GivenSubnetFree]_vars

=============================================================================
