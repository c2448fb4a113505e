-------------------------- MODULE IpamMappingProofs --------------------------
(***************************************************************************)
(* The cluster table of the IPAM engine (subnetPerCluster in ipam.go):     *)
(* every cluster's subnet stays a stored prefix, keeps the prefix length   *)
(* the cluster advertised, and shares no address with another cluster's   *)
(* subnet, whatever order of reservations, frees and cluster allocations   *)
(* and releases the client issues.                                         *)
(*                                                                         *)
(* One assumption on the configuration is needed: no reserved network has  *)
(* the prefix length of a cluster's network.  FreeReservedSubnet frees any *)
(* stored prefix it is given; were a reserved network of a cluster's       *)
(* length also some cluster's subnet, freeing the reservation would free   *)
(* the cluster's subnet while the table still maps the cluster to it, and  *)
(* TLC finds that state in four steps.                                     *)
(*                                                                         *)
(* The invariants are not inductive as they stand.  Freeing a cluster's    *)
(* subnet must not remove a pool (MappedNotPool), and a pool may only have *)
(* left the store through a reservation's free (PoolsKept): together with  *)
(* the assumption, that is what keeps the engine from handing out a pool   *)
(* as a cluster's subnet.  Unlike the refinement, no assumption that       *)
(* clusters do not advertise pools is needed.                              *)
(***************************************************************************)
EXTENDS IpamRefinement

\* The configuration assumption: reservations and clusters' networks have
\* different prefix lengths.
ReservedApart == \A n \in Reserved, c \in Clusters : n.len # ClusterNet[c].len

\* A pool leaves the store only when a reservation equal to it is freed.
PoolsKept == \A p \in PoolSet \ Reserved : p \in registered

MInv ==
    /\ IInv
    /\ PoolsKept
    /\ MappedNotPool
    /\ MappingRegistered
    /\ MappingLengthPreserved
    /\ MappingDisjoint

-----------------------------------------------------------------------------
(***************************************************************************)
(* What each operation does to the store.                                  *)
(***************************************************************************)

\* A reservation only adds to the store.
LEMMA ReserveGrows ==
    ASSUME NEW n, AcquireReservedSubnet(n)
    PROVE  registered \subseteq registered'
BY DEF AcquireReservedSubnet, AcquireChild, NewPrefix, allocVars

\* A free removes exactly the prefix freed, which was stored.
LEMMA FreeRemoves ==
    ASSUME NEW n, FreeReservedSubnet(n)
    PROVE  n \in registered /\ registered' = registered \ {n}
BY DEF FreeReservedSubnet, ReleaseChild, DeletePrefix

\* mapNetwork gives a child of the advertised length: getMask reads 0 for a
\* one-digit length, and no pool has a child of length 0.
LEMMA MapNetworkLen ==
    ASSUME NEW n \in Cidr, NEW c, MapNetwork(n, c)
    PROVE  \E p \in PoolSet, x \in Cidr :
               x.len = n.len /\ AcquireChild(p, x) /\ Assign(c, x)
<1>. DEFINE len  == GetMask(n)
            open == {i \in DOMAIN Pools : \E x \in Cidr : x.len = len /\ ChildOk(Pools[i], x)}
            pool == Pools[CHOOSE i \in open : \A j \in open : i <= j]
<1>1. open # {} /\ \E x \in Cidr : x.len = len /\ AcquireChild(pool, x) /\ Assign(c, x)
  BY DEF MapNetwork
<1>2. pool \in PoolSet
  BY <1>1, LeastPool
<1>3. len = n.len
  <2>1. PICK i \in open : TRUE
    BY <1>1
  <2>2. PICK x \in Cidr : x.len = len /\ Pools[i].len < x.len
    BY <2>1 DEF ChildOk
  <2>3. Pools[i].len \in Nat
    BY PoolsFacts, CidrLen DEF PoolSet
  <2>4. len # 0
    BY <2>2, <2>3
  <2>. QED  BY <2>4, CidrLen DEF GetMask
<1>. QED  BY <1>1, <1>2, <1>3

\* getSubnetPerCluster stores one new prefix, of the advertised length,
\* that shares no address with any stored prefix but the pools.
LEMMA GetSubnetFresh ==
    ASSUME AllocInv, NEW c \in Clusters, GetSubnetPerCluster(ClusterNet[c], c)
    PROVE  \E x \in Cidr : /\ x.len = ClusterNet[c].len
                          /\ x \notin registered
                          /\ registered' = registered \cup {x}
                          /\ Assign(c, x)
                          /\ \A b \in registered \ PoolSet : ~Overlaps(x, b)
<1>. DEFINE n == ClusterNet[c]
<1>0. n \in Cidr
  BY ClusterNetAssumption
<1>1. CASE NewPrefix(n) /\ Assign(c, n)
  <2>1. n \notin registered
    BY <1>0, <1>1, BaseInBlock DEF NewPrefix, NewPrefixOk, Overlaps
  <2>. QED  BY <1>0, <1>1, <2>1, OverlapsSym DEF NewPrefix, NewPrefixOk
<1>2. CASE InPool(n) /\ AcquireChild(PoolOf(n), n) /\ Assign(c, n)
  <2>1. PoolOf(n) \in PoolSet
    BY <1>2, PoolOfIsPool
  <2>. QED  BY <1>0, <1>2, <2>1, AcquireChildFresh DEF AcquireChild
<1>3. CASE MapNetwork(n, c)
  <2>1. PICK p \in PoolSet, x \in Cidr : x.len = n.len /\ AcquireChild(p, x) /\ Assign(c, x)
    BY <1>0, <1>3, MapNetworkLen
  <2>. QED  BY <2>1, AcquireChildFresh DEF AcquireChild
<1>. QED  BY <1>1, <1>2, <1>3 DEF GetSubnetPerCluster

\* A CIDR shares its addresses with itself.
LEMMA OverlapsSelf ==
    ASSUME NEW a \in Cidr
    PROVE  Overlaps(a, a)
BY BaseInBlock DEF Overlaps

-----------------------------------------------------------------------------
(***************************************************************************)
(* The prefix length of a cluster's subnet, with no assumption at all.     *)
(***************************************************************************)

LInv == IInv /\ MappingLengthPreserved

LEMMA NextLInv == LInv /\ [Next]_vars => LInv'
<1>. SUFFICES ASSUME LInv, [Next]_vars PROVE LInv'
  OBVIOUS
<1>1. IInv'
  BY NextIInv DEF LInv
<1>2. ASSUME NEW c \in Clusters, GetSubnetPerCluster(ClusterNet[c], c)
      PROVE  MappingLengthPreserved'
  <2>1. PICK x \in Cidr : x.len = ClusterNet[c].len /\ Assign(c, x)
    BY <1>2, GetSubnetFresh DEF LInv, IInv
  <2>. QED  BY <2>1 DEF LInv, IInv, Assign, MappingLengthPreserved
<1>3. ASSUME NEW c \in Clusters, FreeSubnetPerCluster(c)
      PROVE  MappingLengthPreserved'
  BY <1>3 DEF LInv, IInv, FreeSubnetPerCluster, MappingLengthPreserved
<1>4. ASSUME UNCHANGED subnetPerCluster PROVE MappingLengthPreserved'
  BY <1>4 DEF LInv, MappingLengthPreserved
<1>5. MappingLengthPreserved'
  BY <1>2, <1>3, <1>4 DEF Next, vars
<1>. QED  BY <1>1, <1>5 DEF LInv

\* Whatever the client calls, a cluster's subnet has the prefix length of
\* the network the cluster advertised: getSubnetPerCluster stores either
\* that network or a child mapNetwork carved to getMask's length, and
\* getMask never reads a length mapNetwork can then use wrongly.
THEOREM LengthPreserved == Spec => []MappingLengthPreserved
<1>1. IpamInit => LInv
  BY InitIInv DEF IpamInit, LInv, MappingLengthPreserved
<1>2. LInv => MappingLengthPreserved
  BY DEF LInv
<1>. QED  BY <1>1, <1>2, NextLInv, PTL DEF Spec

-----------------------------------------------------------------------------
(***************************************************************************)
(* MInv is kept by every operation, under ReservedApart.                   *)
(***************************************************************************)

\* What MInv says of a cluster that has a subnet.
LEMMA MappedFacts ==
    ASSUME MInv, NEW c \in Clusters, subnetPerCluster[c] # None
    PROVE  /\ subnetPerCluster[c] \in Cidr
           /\ subnetPerCluster[c] \in registered \ PoolSet
           /\ subnetPerCluster[c].len = ClusterNet[c].len
BY DEF MInv, IInv, MappedNotPool, MappingRegistered, MappingLengthPreserved

\* A reservation stores at most one prefix and leaves the table alone.
LEMMA ReserveMInv ==
    ASSUME MInv, NEW n \in Reserved, AcquireReservedSubnet(n),
           UNCHANGED subnetPerCluster, IInv'
    PROVE  MInv'
<1>1. registered \subseteq registered'
  BY ReserveGrows
<1>. QED  BY <1>1 DEF MInv, PoolsKept, MappedNotPool, MappingRegistered,
                      MappingLengthPreserved, MappingDisjoint

\* Freeing a reservation never frees a cluster's subnet: their lengths
\* differ.
LEMMA FreeReservedMInv ==
    ASSUME ReservedApart, MInv, NEW n \in Reserved, FreeReservedSubnet(n),
           UNCHANGED subnetPerCluster, IInv'
    PROVE  MInv'
<1>1. registered' = registered \ {n}
  BY FreeRemoves
<1>2. PoolsKept'
  BY <1>1 DEF MInv, PoolsKept
<1>3. MappingRegistered'
  <2>. SUFFICES ASSUME NEW c \in Clusters, subnetPerCluster[c] # None
                PROVE  subnetPerCluster[c] \in registered'
    BY DEF MappingRegistered
  <2>1. subnetPerCluster[c] \in registered /\ subnetPerCluster[c].len = ClusterNet[c].len
    BY MappedFacts
  <2>2. n.len # ClusterNet[c].len
    BY DEF ReservedApart
  <2>. QED  BY <1>1, <2>1, <2>2
<1>. QED  BY <1>2, <1>3 DEF MInv, MappedNotPool, MappingLengthPreserved, MappingDisjoint

\* A cluster's new subnet is not stored before, so it is not a pool: a pool
\* out of the store was a reservation, which has another length.  It shares
\* no address with the stored non-pools, among them the other subnets.
LEMMA GetSubnetMInv ==
    ASSUME ReservedApart, MInv, NEW c \in Clusters,
           GetSubnetPerCluster(ClusterNet[c], c), IInv'
    PROVE  MInv'
<1>1. PICK x \in Cidr : /\ x.len = ClusterNet[c].len
                       /\ x \notin registered
                       /\ registered' = registered \cup {x}
                       /\ Assign(c, x)
                       /\ \A b \in registered \ PoolSet : ~Overlaps(x, b)
  BY GetSubnetFresh DEF MInv, IInv
<1>2. subnetPerCluster[c] = None
  BY DEF GetSubnetPerCluster
<1>3. x \notin PoolSet
  <2>. SUFFICES ASSUME x \in PoolSet PROVE FALSE
    OBVIOUS
  <2>1. x \in Reserved
    BY <1>1 DEF MInv, PoolsKept
  <2>. QED  BY <1>1, <2>1 DEF ReservedApart
<1>4. \A d \in Clusters \ {c} : subnetPerCluster[d] # None =>
          /\ subnetPerCluster'[d] = subnetPerCluster[d]
          /\ subnetPerCluster[d] \in registered \ PoolSet
          /\ ~Overlaps(x, subnetPerCluster[d])
          /\ ~Overlaps(subnetPerCluster[d], x)
  BY <1>1, MappedFacts, OverlapsSym DEF MInv, IInv, Assign
<1>5. PoolsKept'
  BY <1>1 DEF MInv, PoolsKept
<1>6. MappedNotPool' /\ MappingRegistered' /\ MappingLengthPreserved'
  BY <1>1, <1>3 DEF MInv, IInv, Assign, MappedNotPool, MappingRegistered,
                    MappingLengthPreserved
<1>7. MappingDisjoint'
  <2>. SUFFICES ASSUME NEW d \in Clusters, NEW e \in Clusters, d # e,
                       subnetPerCluster'[d] # None, subnetPerCluster'[e] # None
                PROVE  ~Overlaps(subnetPerCluster'[d], subnetPerCluster'[e])
    BY DEF MappingDisjoint
  <2>1. CASE d = c
    BY <1>1, <1>4, <2>1 DEF MInv, IInv, Assign
  <2>2. CASE e = c
    BY <1>1, <1>4, <2>2 DEF MInv, IInv, Assign
  <2>3. CASE d # c /\ e # c
    BY <1>1, <2>3 DEF MInv, IInv, Assign, MappingDisjoint
  <2>. QED  BY <2>1, <2>2, <2>3
<1>. QED  BY <1>5, <1>6, <1>7 DEF MInv

\* Freeing a cluster's subnet removes a non-pool that no other cluster
\* has: their subnets are disjoint from it, so differ from it.
LEMMA FreeClusterMInv ==
    ASSUME MInv, NEW c \in Clusters, FreeSubnetPerCluster(c), IInv'
    PROVE  MInv'
<1>. DEFINE s == subnetPerCluster[c]
<1>1. s # None /\ s \in Cidr /\ s \notin PoolSet
  BY MappedFacts DEF FreeSubnetPerCluster
<1>2. registered' = registered \ {s}
  BY FreeRemoves DEF FreeSubnetPerCluster
<1>3. subnetPerCluster' = [subnetPerCluster EXCEPT ![c] = None]
  BY DEF FreeSubnetPerCluster
<1>4. \A d \in Clusters \ {c} : subnetPerCluster[d] # None => subnetPerCluster[d] # s
  BY <1>1, OverlapsSelf DEF MInv, MappingDisjoint
<1>5. PoolsKept'
  BY <1>1, <1>2 DEF MInv, PoolsKept
<1>6. MappingRegistered'
  BY <1>2, <1>3, <1>4 DEF MInv, IInv, MappingRegistered
<1>7. MappedNotPool' /\ MappingLengthPreserved' /\ MappingDisjoint'
  BY <1>3 DEF MInv, IInv, MappedNotPool, MappingLengthPreserved, MappingDisjoint
<1>. QED  BY <1>5, <1>6, <1>7 DEF MInv

LEMMA InitMInv == IpamInit => MInv
BY InitIInv DEF IpamInit, MInv, PoolsKept, MappedNotPool, MappingRegistered,
                MappingLengthPreserved, MappingDisjoint

LEMMA NextMInv ==
    ASSUME ReservedApart, MInv, [Next]_vars
    PROVE  MInv'
<1>1. IInv'
  BY NextIInv DEF MInv
<1>2. ASSUME NEW n \in Reserved, AcquireReservedSubnet(n), UNCHANGED subnetPerCluster
      PROVE  MInv'
  BY <1>1, <1>2, ReserveMInv
<1>3. ASSUME NEW n \in Reserved, FreeReservedSubnet(n), UNCHANGED subnetPerCluster
      PROVE  MInv'
  BY <1>1, <1>3, FreeReservedMInv
<1>4. ASSUME NEW c \in Clusters, GetSubnetPerCluster(ClusterNet[c], c)
      PROVE  MInv'
  BY <1>1, <1>4, GetSubnetMInv
<1>5. ASSUME NEW c \in Clusters, FreeSubnetPerCluster(c)
      PROVE  MInv'
  BY <1>1, <1>5, FreeClusterMInv
<1>6. CASE UNCHANGED vars
  BY <1>1, <1>6 DEF vars, MInv, PoolsKept, MappedNotPool, MappingRegistered,
                    MappingLengthPreserved, MappingDisjoint
<1>. QED  BY <1>2, <1>3, <1>4, <1>5, <1>6 DEF Next

\* When no reservation has the prefix length of a cluster's network, a
\* cluster's subnet stays a stored prefix for as long as the table maps
\* the cluster to it, whatever the order of reservations, frees and cluster
\* allocations and releases: nobody else can be given it, and
\* freeSubnetPerCluster always finds it to free.
THEOREM MappedStaysRegistered ==
    ASSUME ReservedApart
    PROVE  Spec => []MappingRegistered
<1>1. MInv /\ [Next]_vars => MInv'
  BY NextMInv
<1>2. MInv => MappingRegistered
  BY DEF MInv
<1>. QED  BY InitMInv, <1>1, <1>2, PTL DEF Spec

\* Under the same assumption, and with no assumption that clusters do not
\* advertise pools, two remote clusters are never given subnets that share
\* an address: getSubnetPerCluster only stores a prefix free of every
\* stored non-pool, and never hands out a pool.
THEOREM ClusterSubnetsDisjoint ==
    ASSUME ReservedApart
    PROVE  Spec => []MappingDisjoint
<1>1. MInv /\ [Next]_vars => MInv'
  BY NextMInv
<1>2. MInv => MappingDisjoint
  BY DEF MInv
<1>. QED  BY InitMInv, <1>1, <1>2, PTL DEF Spec

\* MInv itself, the strengthened invariant the run ipam_engine checks,
\* holds in every reachable state when reservations and clusters' networks
\* have different prefix lengths.
THEOREM MappingInvariant ==
    ASSUME ReservedApart
    PROVE  Spec => []MInv
<1>1. MInv /\ [Next]_vars => MInv'
  BY NextMInv
<1>. QED  BY InitMInv, <1>1, PTL DEF Spec

-----------------------------------------------------------------------------
(***************************************************************************)
(* The action property: a cluster is only ever given a free subnet.        *)
(***************************************************************************)

\* Only getSubnetPerCluster for c gives c a subnet: the others leave c's
\* entry alone or clear it.
LEMMA GivenOnlyByGet ==
    ASSUME IInv, [Next]_vars, NEW c \in Clusters,
           subnetPerCluster[c] = None, subnetPerCluster'[c] # None
    PROVE  GetSubnetPerCluster(ClusterNet[c], c)
<1>1. ASSUME NEW d \in Clusters, d # c, GetSubnetPerCluster(ClusterNet[d], d)
      PROVE  FALSE
  BY <1>1 DEF GetSubnetPerCluster, Assign, MapNetwork, IInv
<1>2. ASSUME NEW d \in Clusters, FreeSubnetPerCluster(d)
      PROVE  FALSE
  BY <1>2 DEF FreeSubnetPerCluster, IInv
<1>3. ASSUME UNCHANGED subnetPerCluster PROVE FALSE
  BY <1>3
<1>. QED  BY <1>1, <1>2, <1>3 DEF Next, vars

LEMMA NextGivenFree ==
    ASSUME IInv, [Next]_vars
    PROVE  GivenSubnetFree
<1>. SUFFICES ASSUME NEW c \in Clusters,
                     subnetPerCluster[c] = None, subnetPerCluster'[c] # None
              PROVE  /\ subnetPerCluster'[c] \notin registered
                     /\ \A b \in registered \ PoolSet : ~Overlaps(subnetPerCluster'[c], b)
  BY DEF GivenSubnetFree
<1>1. GetSubnetPerCluster(ClusterNet[c], c)
  BY GivenOnlyByGet
<1>2. PICK x \in Cidr : /\ x \notin registered
                       /\ Assign(c, x)
                       /\ \A b \in registered \ PoolSet : ~Overlaps(x, b)
  BY <1>1, GetSubnetFresh DEF IInv
<1>. QED  BY <1>2 DEF Assign, IInv

\* Whatever order of calls led there, and with no assumption on the
\* configuration, every subnet getSubnetPerCluster gives a cluster was
\* stored by nobody and overlapped no reservation and no other cluster's
\* subnet at the moment it was given.
THEOREM GivenSubnetsFree == Spec => SubnetGivenFree
<1>1. IInv /\ [Next]_vars => [GivenSubnetFree]_vars
  BY NextGivenFree
<1>. QED  BY InitIInv, NextIInv, <1>1, PTL DEF Spec, SubnetGivenFree
=============================================================================
