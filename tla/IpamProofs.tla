------------------------------ MODULE IpamProofs ------------------------------
(***************************************************************************)
(* Proofs about the IPAM engine of Ipam.tla, for every address width, every *)
(* list of disjoint pools, every set of clusters and of reservable         *)
(* networks.                                                               *)
(*                                                                         *)
(* AllocatorNoOverlap is not inductive on its own: a step of AcquireChild  *)
(* that carves x out of pool p keeps it only if (1) the children of p      *)
(* already stored are the ones p's used set records, (2) p is itself a     *)
(* top-level prefix, and (3) x is not stored yet; and a NewPrefix of a pool *)
(* that was deleted while its children stayed stored must be refused,     *)
(* which needs (4) every child to lie inside its parent.  AllocInv adds    *)
(* these four facts.                                                       *)
(***************************************************************************)
EXTENDS Ipam, TLAPS, WellFoundedInduction

AllocTypeOK ==
    /\ registered \subseteq Cidr
    /\ parentOf \in [Cidr -> Cidr \cup {None}]
    /\ used \in [Cidr -> SUBSET Cidr]

\* A stored child lies inside its parent.
ChildInsideParent ==
    \A a \in registered : parentOf[a] # None => Inside(a, parentOf[a])

\* The engine only carves children out of pools, and never stores a pool as
\* a child.
ChildOfPool ==
    \A a \in registered :
        parentOf[a] # None => parentOf[a] \in PoolSet /\ a \notin PoolSet

\* A stored child of a stored parent is marked used in that parent.
UsedCoversChildren ==
    \A a \in registered : parentOf[a] \in registered => a \in used[parentOf[a]]

AllocInv ==
    /\ AllocTypeOK
    /\ AllocatorNoOverlap
    /\ ChildInsideParent
    /\ ChildOfPool
    /\ UsedCoversChildren

IInv ==
    /\ AllocInv
    /\ subnetPerCluster \in [Clusters -> Cidr \cup {None}]

-----------------------------------------------------------------------------
(***************************************************************************)
(* Facts about prefixes, pools and the least pool index.                   *)
(***************************************************************************)

\* The base address of a canonical CIDR belongs to its block.
LEMMA BaseInBlock ==
    ASSUME NEW c \in Cidr
    PROVE  c.base \in Block(c)
BY DEF Cidr, Block

\* The prefix length of a CIDR is a natural.
LEMMA CidrLen ==
    ASSUME NEW c \in Cidr
    PROVE  c.len \in Nat
BY DEF Cidr

\* A CIDR inside another shares its base address with it.
LEMMA InsideOverlaps ==
    ASSUME NEW a \in Cidr, NEW b, Inside(a, b)
    PROVE  Overlaps(a, b) /\ Overlaps(b, a)
BY BaseInBlock DEF Inside, Overlaps

\* Overlap is symmetric.
LEMMA OverlapsSym ==
    ASSUME NEW a, NEW b
    PROVE  Overlaps(a, b) <=> Overlaps(b, a)
BY DEF Overlaps

\* A prefix overlapping a part of p overlaps p.
LEMMA OverlapsInside ==
    ASSUME NEW x, NEW p, NEW b, Inside(x, p), Overlaps(x, b)
    PROVE  Overlaps(p, b)
BY DEF Inside, Overlaps

\* A non-empty set of naturals has a least element.
LEMMA NatHasMin ==
    ASSUME NEW T \in SUBSET Nat, T # {}
    PROVE  \E i \in T : \A j \in T : i <= j
<1>. DEFINE R == OpToRel(<, Nat)
<1>1. \E i \in T : \A j \in T : ~(<<j, i>> \in R)
  BY NatLessThanWellFounded, WFMin
<1>2. \A i, j \in Nat : j < i => <<j, i>> \in R
  BY Zenon DEF R, OpToRel
<1>3. \E i \in T : \A j \in T : ~(j < i)
  BY Zenon, <1>1, <1>2
<1>. QED  BY <1>3

LEMMA PoolsFacts ==
    /\ DOMAIN Pools \subseteq Nat
    /\ PoolSet \subseteq Cidr
BY PoolsAssumption DEF PoolSet

\* The least index of a non-empty set of pool indices names a pool.
LEMMA LeastPool ==
    ASSUME NEW S \in SUBSET DOMAIN Pools, S # {}
    PROVE  Pools[CHOOSE i \in S : \A j \in S : i <= j] \in PoolSet
<1>1. \E i \in S : \A j \in S : i <= j
  BY NatHasMin, PoolsFacts
<1>. QED  BY <1>1 DEF PoolSet

\* getPoolFromNetwork returns a pool.
LEMMA PoolOfIsPool ==
    ASSUME NEW n, InPool(n)
    PROVE  PoolOf(n) \in PoolSet
BY LeastPool DEF InPool, PoolOf, PoolIndex

\* mapNetwork carves a child out of a pool.
LEMMA MapNetworkFromPool ==
    ASSUME NEW n, NEW c, MapNetwork(n, c)
    PROVE  \E p \in PoolSet, x \in Cidr : AcquireChild(p, x) /\ Assign(c, x)
<1>. DEFINE len  == GetMask(n)
            open == {i \in DOMAIN Pools : \E x \in Cidr : x.len = len /\ ChildOk(Pools[i], x)}
            pool == Pools[CHOOSE i \in open : \A j \in open : i <= j]
<1>1. open # {} /\ \E x \in Cidr : AcquireChild(pool, x) /\ Assign(c, x)
  BY DEF MapNetwork
<1>2. pool \in PoolSet
  BY <1>1, LeastPool
<1>. QED  BY <1>1, <1>2

-----------------------------------------------------------------------------
(***************************************************************************)
(* Each allocator primitive, called as the engine calls it, keeps AllocInv. *)
(***************************************************************************)

\* NewPrefix of a prefix that overlaps nothing stored.
LEMMA NewPrefixInv ==
    ASSUME AllocInv, NEW n \in Cidr, NewPrefix(n)
    PROVE  AllocInv'
<1>. USE NoneAssumption
<1>1. n \notin registered
  BY BaseInBlock DEF NewPrefix, NewPrefixOk, Overlaps
<1>2. \A a \in registered : parentOf[a] # n
  BY InsideOverlaps, OverlapsSym DEF NewPrefix, NewPrefixOk, AllocInv, AllocTypeOK, ChildInsideParent
<1>3. AllocTypeOK'
  BY DEF NewPrefix, AllocInv, AllocTypeOK
<1>4. AllocatorNoOverlap'
  BY <1>1, OverlapsSym DEF NewPrefix, NewPrefixOk, AllocInv, AllocTypeOK, AllocatorNoOverlap
<1>5. ChildInsideParent'
  BY <1>1 DEF NewPrefix, AllocInv, AllocTypeOK, ChildInsideParent
<1>6. ChildOfPool'
  BY <1>1 DEF NewPrefix, AllocInv, AllocTypeOK, ChildOfPool
<1>7. UsedCoversChildren'
  BY <1>1, <1>2 DEF NewPrefix, AllocInv, AllocTypeOK, UsedCoversChildren
<1>. QED  BY <1>3, <1>4, <1>5, <1>6, <1>7 DEF AllocInv

\* What AcquireChild of x out of a pool p finds: p is a stored top-level
\* prefix strictly containing x, and x is neither stored, nor a pool, nor
\* anyone's parent, and shares no address with any stored prefix but p.
LEMMA AcquireChildFresh ==
    ASSUME AllocInv, NEW p \in PoolSet, NEW x \in Cidr, AcquireChild(p, x)
    PROVE  /\ p \in registered
           /\ p \in Cidr
           /\ p # x
           /\ Inside(x, p)
           /\ \A u \in used[p] : ~Overlaps(u, x)
           /\ parentOf[p] = None
           /\ x \notin registered
           /\ x \notin PoolSet
           /\ \A a \in registered : parentOf[a] # x
           /\ \A b \in registered : b # p => ~Overlaps(x, b)
<1>. USE NoneAssumption
<1>0. /\ p \in registered
      /\ p \in Cidr
      /\ p # x
      /\ Inside(x, p)
      /\ \A u \in used[p] : ~Overlaps(u, x)
  <2>1. ChildOk(p, x)
    BY DEF AcquireChild
  <2>2. p \in Cidr
    BY PoolsFacts
  <2>3. p.len < x.len
    BY <2>1 DEF ChildOk
  <2>4. p # x
    BY <2>2, <2>3, CidrLen
  <2>. QED  BY <2>1, <2>2, <2>4 DEF ChildOk
<1>1. parentOf[p] = None
  BY <1>0 DEF AllocInv, AllocTypeOK, ChildOfPool
<1>2. x \notin registered
  <2>. SUFFICES ASSUME x \in registered PROVE FALSE
    OBVIOUS
  <2>1. Overlaps(x, p)
    BY <1>0, InsideOverlaps
  <2>2. parentOf[x] = p \/ parentOf[p] = x
    BY <1>0, <2>1 DEF AllocInv, AllocatorNoOverlap
  <2>3. parentOf[x] # p
    BY <1>0, BaseInBlock DEF AllocInv, UsedCoversChildren, Overlaps
  <2>. QED  BY <1>1, <2>2, <2>3
<1>3. x \notin PoolSet
  BY <1>0, InsideOverlaps, PoolsAssumption DEF PoolSet
<1>4. \A a \in registered : parentOf[a] # x
  BY <1>3 DEF AllocInv, ChildOfPool
<1>5. \A b \in registered : b # p => ~Overlaps(x, b)
  <2>. SUFFICES ASSUME NEW b \in registered, b # p, Overlaps(x, b) PROVE FALSE
    OBVIOUS
  <2>1. CASE parentOf[b] = p
    BY <1>0, <2>1, OverlapsSym DEF AllocInv, UsedCoversChildren
  <2>2. CASE parentOf[b] # p
    <3>1. Overlaps(p, b)
      BY <1>0, OverlapsInside
    <3>2. parentOf[p] = b
      BY <1>0, <3>1, <2>2 DEF AllocInv, AllocatorNoOverlap
    <3>. QED  BY <1>1, <3>2 DEF AllocInv, AllocTypeOK
  <2>. QED  BY <2>1, <2>2
<1>. QED  BY <1>0, <1>1, <1>2, <1>3, <1>4, <1>5

\* AcquireChild of x out of a pool p.
LEMMA AcquireChildInv ==
    ASSUME AllocInv, NEW p \in PoolSet, NEW x \in Cidr, AcquireChild(p, x)
    PROVE  AllocInv'
<1>. USE NoneAssumption
<1>0. /\ p \in registered
      /\ p \in Cidr
      /\ Inside(x, p)
  BY AcquireChildFresh
<1>1. parentOf[p] = None
  BY AcquireChildFresh
<1>2. x \notin registered
  BY AcquireChildFresh
<1>3. x \notin PoolSet
  BY AcquireChildFresh
<1>4. \A a \in registered : parentOf[a] # x
  BY AcquireChildFresh
<1>5. \A b \in registered : b # p => ~Overlaps(x, b)
  BY AcquireChildFresh
<1>6. AllocTypeOK'
  BY <1>0 DEF AcquireChild, AllocInv, AllocTypeOK
<1>7. AllocatorNoOverlap'
  BY <1>0, <1>2, <1>4, <1>5, OverlapsSym
  DEF AcquireChild, AllocInv, AllocTypeOK, AllocatorNoOverlap
<1>8. ChildInsideParent'
  BY <1>0, <1>2 DEF AcquireChild, AllocInv, AllocTypeOK, ChildInsideParent
<1>9. ChildOfPool'
  BY <1>2, <1>3 DEF AcquireChild, AllocInv, AllocTypeOK, ChildOfPool
<1>10. UsedCoversChildren'
  BY <1>0, <1>2, <1>4 DEF AcquireChild, AllocInv, AllocTypeOK, UsedCoversChildren
<1>. QED  BY <1>6, <1>7, <1>8, <1>9, <1>10 DEF AllocInv

\* ReleaseChildPrefix of a stored child whose parent is stored.
LEMMA ReleaseChildInv ==
    ASSUME AllocInv, NEW x \in registered, CanReleaseChild(x), ReleaseChild(x)
    PROVE  AllocInv'
<1>. USE NoneAssumption
<1>1. AllocTypeOK'
  BY DEF ReleaseChild, CanReleaseChild, AllocInv, AllocTypeOK
<1>2. AllocatorNoOverlap' /\ ChildInsideParent' /\ ChildOfPool'
  BY DEF ReleaseChild, AllocInv, AllocatorNoOverlap, ChildInsideParent, ChildOfPool
<1>3. UsedCoversChildren'
  BY DEF ReleaseChild, CanReleaseChild, AllocInv, AllocTypeOK, UsedCoversChildren
<1>. QED  BY <1>1, <1>2, <1>3 DEF AllocInv

\* DeletePrefix of a stored prefix.
LEMMA DeletePrefixInv ==
    ASSUME AllocInv, NEW x \in registered, DeletePrefix(x)
    PROVE  AllocInv'
<1>1. AllocTypeOK'
  BY DEF DeletePrefix, AllocInv, AllocTypeOK
<1>2. AllocatorNoOverlap' /\ ChildInsideParent' /\ ChildOfPool'
  BY DEF DeletePrefix, AllocInv, AllocatorNoOverlap, ChildInsideParent, ChildOfPool
<1>3. UsedCoversChildren'
  BY DEF DeletePrefix, AllocInv, AllocTypeOK, UsedCoversChildren
<1>. QED  BY <1>1, <1>2, <1>3 DEF AllocInv

\* A step that leaves the allocator alone keeps AllocInv.
LEMMA AllocUnchangedInv ==
    ASSUME AllocInv, UNCHANGED allocVars
    PROVE  AllocInv'
BY DEF allocVars, AllocInv, AllocTypeOK, AllocatorNoOverlap, ChildInsideParent,
       ChildOfPool, UsedCoversChildren, PoolSet

-----------------------------------------------------------------------------
(***************************************************************************)
(* Each engine operation keeps AllocInv.                                   *)
(***************************************************************************)

LEMMA AcquireReservedSubnetInv ==
    ASSUME AllocInv, NEW n \in Cidr, AcquireReservedSubnet(n)
    PROVE  AllocInv'
<1>1. CASE InPool(n)
  <2>1. PoolOf(n) \in PoolSet
    BY <1>1, PoolOfIsPool
  <2>. QED  BY <1>1, <2>1, AcquireChildInv, AllocUnchangedInv DEF AcquireReservedSubnet
<1>2. CASE ~InPool(n)
  BY <1>2, NewPrefixInv, AllocUnchangedInv DEF AcquireReservedSubnet
<1>. QED  BY <1>1, <1>2

LEMMA FreeReservedSubnetInv ==
    ASSUME AllocInv, NEW n, FreeReservedSubnet(n)
    PROVE  AllocInv'
BY ReleaseChildInv, DeletePrefixInv DEF FreeReservedSubnet

LEMMA GetSubnetPerClusterInv ==
    ASSUME IInv, NEW c \in Clusters, GetSubnetPerCluster(ClusterNet[c], c)
    PROVE  IInv'
<1>. DEFINE n == ClusterNet[c]
<1>1. n \in Cidr
  BY ClusterNetAssumption
<1>2. CASE NewPrefix(n) /\ Assign(c, n)
  BY <1>1, <1>2, NewPrefixInv DEF IInv, Assign
<1>3. CASE InPool(n) /\ AcquireChild(PoolOf(n), n) /\ Assign(c, n)
  BY <1>1, <1>3, PoolOfIsPool, AcquireChildInv DEF IInv, Assign
<1>4. CASE MapNetwork(n, c)
  <2>1. PICK p \in PoolSet, x \in Cidr : AcquireChild(p, x) /\ Assign(c, x)
    BY <1>4, MapNetworkFromPool
  <2>. QED  BY <2>1, AcquireChildInv DEF IInv, Assign
<1>. QED  BY <1>2, <1>3, <1>4 DEF GetSubnetPerCluster

LEMMA FreeSubnetPerClusterInv ==
    ASSUME IInv, NEW c \in Clusters, FreeSubnetPerCluster(c)
    PROVE  IInv'
BY NoneAssumption, FreeReservedSubnetInv DEF FreeSubnetPerCluster, IInv

-----------------------------------------------------------------------------
(***************************************************************************)
(* The theorems.                                                           *)
(***************************************************************************)

\* IInv holds in the initial state, after Init registered the pools.
LEMMA InitIInv == IpamInit => IInv
<1>. SUFFICES ASSUME IpamInit PROVE IInv
  OBVIOUS
<1>1. AllocTypeOK
  BY PoolsFacts DEF IpamInit, AllocTypeOK
<1>2. AllocatorNoOverlap
  BY PoolsAssumption DEF IpamInit, AllocatorNoOverlap, PoolSet
<1>3. ChildInsideParent /\ ChildOfPool /\ UsedCoversChildren
  BY NoneAssumption, PoolsFacts
  DEF IpamInit, ChildInsideParent, ChildOfPool, UsedCoversChildren
<1>4. subnetPerCluster \in [Clusters -> Cidr \cup {None}]
  BY DEF IpamInit
<1>. QED  BY <1>1, <1>2, <1>3, <1>4 DEF IInv, AllocInv

\* Every step of the engine, in any order of the calls, keeps IInv.
LEMMA NextIInv == IInv /\ [Next]_vars => IInv'
<1>. SUFFICES ASSUME IInv, [Next]_vars PROVE IInv'
  OBVIOUS
<1>1. ASSUME NEW n \in Reserved, AcquireReservedSubnet(n), UNCHANGED subnetPerCluster
      PROVE  IInv'
  BY <1>1, ReservedAssumption, AcquireReservedSubnetInv DEF IInv
<1>2. ASSUME NEW n \in Reserved, FreeReservedSubnet(n), UNCHANGED subnetPerCluster
      PROVE  IInv'
  BY <1>2, FreeReservedSubnetInv DEF IInv
<1>3. ASSUME NEW c \in Clusters, GetSubnetPerCluster(ClusterNet[c], c)
      PROVE  IInv'
  BY <1>3, GetSubnetPerClusterInv
<1>4. ASSUME NEW c \in Clusters, FreeSubnetPerCluster(c)
      PROVE  IInv'
  BY <1>4, FreeSubnetPerClusterInv
<1>5. CASE UNCHANGED vars
  BY <1>5, AllocUnchangedInv DEF vars, allocVars, IInv
<1>. QED  BY <1>1, <1>2, <1>3, <1>4, <1>5 DEF Next

\* The engine's state is well typed in every reachable state: the stored
\* prefixes are CIDRs, and parents and cluster subnets are CIDRs or absent.
THEOREM TypeCorrect == Spec => []TypeOK
<1>1. IInv => TypeOK
  BY DEF IInv, AllocInv, AllocTypeOK, TypeOK
<1>. QED  BY InitIInv, NextIInv, <1>1, PTL DEF Spec

\* Whatever sequence of reservations, releases, cluster allocations and
\* remappings the engine performs, two stored prefixes share an address only
\* when one was carved out of the other.
THEOREM NoOverlap == Spec => []AllocatorNoOverlap
<1>1. IInv => AllocatorNoOverlap
  BY DEF IInv, AllocInv
<1>. QED  BY InitIInv, NextIInv, <1>1, PTL DEF Spec
=============================================================================
