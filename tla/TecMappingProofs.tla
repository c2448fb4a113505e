-------------------------- MODULE TecMappingProofs --------------------------
(***************************************************************************)
(* The cluster table of the engine the synchronizer drives: across any     *)
(* number of operator restarts, and any interleaving of configuration      *)
(* events, their loops and the reconcilers, every cluster's subnet stays a *)
(* stored prefix and no two clusters' subnets share an address, provided  *)
(* no configured network has the prefix length of a cluster's network.     *)
(*                                                                         *)
(* Without that assumption the run stale_reserved shows both properties    *)
(* broken: UpdateConfiguration never updates tec.ReservedSubnets, so a     *)
(* network dropped from the configuration is freed again by every later    *)
(* event, and if it has become a cluster's subnet meanwhile, the engine    *)
(* frees the cluster's subnet under its mapping.  The assumption says when *)
(* that finding cannot bite.                                               *)
(*                                                                         *)
(* The remove loop only ever frees configured networks (reservedSubnets is *)
(* a configured set, ConfiguredFrees), and the recovered subnets Init      *)
(* reserves are never freed by it.  A pool leaves the store only as a      *)
(* configured network (ConfiguredPoolsKept), which is what keeps a pool    *)
(* from being handed out as a cluster's subnet.                            *)
(***************************************************************************)
EXTENDS TecProofs, IpamMappingProofs

\* Every well-formed network some ClusterConfig can carry.
ConfiguredNets == UNION {cfg \cap Cidr : cfg \in Configs}

\* The configuration assumption: configured networks and clusters'
\* networks have different prefix lengths.
ConfigsApart == \A n \in ConfiguredNets, c \in Clusters : n.len # ClusterNet[c].len

\* Once Init has registered the pools, a pool leaves the store only when a
\* configured network equal to it is freed.
ConfiguredPoolsKept ==
    ipamConfigured \/ step # "idle" =>
        \A p \in PoolSet \ ConfiguredNets : p \in registered

\* What the remove loop frees are configured networks: the event a loop
\* applies came from a ClusterConfig, and InitDone stores it.
ConfiguredFrees ==
    /\ step # "idle" => event \in Configs
    /\ reservedSubnets \subseteq ConfiguredNets
    /\ step = "remove" => pending \subseteq ConfiguredNets

\* The four properties of the cluster table.
MapInv ==
    /\ MappedNotPool
    /\ MappingRegistered
    /\ MappingLengthPreserved
    /\ MappingDisjoint

TMInv ==
    /\ TInv
    /\ ConfiguredPoolsKept
    /\ ConfiguredFrees
    /\ MapInv

-----------------------------------------------------------------------------
(***************************************************************************)
(* The cluster table under the engine's operations, whoever calls them.    *)
(***************************************************************************)

\* What MapInv says of a cluster that has a subnet.
LEMMA MapFacts ==
    ASSUME IInv, MapInv, NEW c \in Clusters, subnetPerCluster[c] # None
    PROVE  /\ subnetPerCluster[c] \in Cidr
           /\ subnetPerCluster[c] \in registered \ PoolSet
           /\ subnetPerCluster[c].len = ClusterNet[c].len
BY DEF IInv, MapInv, MappedNotPool, MappingRegistered, MappingLengthPreserved

\* getSubnetPerCluster keeps the table's properties when no pool of the
\* cluster's length is out of the store: its new subnet is then no pool.
LEMMA GetSubnetMapInv ==
    ASSUME IInv, MapInv, NEW c \in Clusters,
           GetSubnetPerCluster(ClusterNet[c], c), IInv',
           \A p \in PoolSet \ registered : p.len # ClusterNet[c].len
    PROVE  registered \subseteq registered' /\ MapInv'
<1>1. PICK x \in Cidr : /\ x.len = ClusterNet[c].len
                       /\ x \notin registered
                       /\ registered' = registered \cup {x}
                       /\ Assign(c, x)
                       /\ \A b \in registered \ PoolSet : ~Overlaps(x, b)
  BY GetSubnetFresh DEF IInv
<1>2. x \notin PoolSet
  BY <1>1
<1>3. \A d \in Clusters \ {c} : subnetPerCluster[d] # None =>
          /\ subnetPerCluster'[d] = subnetPerCluster[d]
          /\ subnetPerCluster[d] \in registered \ PoolSet
          /\ ~Overlaps(x, subnetPerCluster[d])
          /\ ~Overlaps(subnetPerCluster[d], x)
  BY <1>1, MapFacts, OverlapsSym DEF IInv, Assign
<1>4. MappedNotPool' /\ MappingRegistered' /\ MappingLengthPreserved'
  BY <1>1, <1>2 DEF MapInv, IInv, Assign, MappedNotPool, MappingRegistered,
                    MappingLengthPreserved
<1>5. MappingDisjoint'
  <2>. SUFFICES ASSUME NEW d \in Clusters, NEW e \in Clusters, d # e,
                       subnetPerCluster'[d] # None, subnetPerCluster'[e] # None
                PROVE  ~Overlaps(subnetPerCluster'[d], subnetPerCluster'[e])
    BY DEF MappingDisjoint
  <2>1. CASE d = c
    BY <1>1, <1>3, <2>1 DEF IInv, Assign
  <2>2. CASE e = c
    BY <1>1, <1>3, <2>2 DEF IInv, Assign
  <2>3. CASE d # c /\ e # c
    BY <1>1, <2>3 DEF MapInv, IInv, Assign, MappingDisjoint
  <2>. QED  BY <2>1, <2>2, <2>3
<1>. QED  BY <1>1, <1>4, <1>5 DEF MapInv

\* freeSubnetPerCluster removes a non-pool that no other cluster has.
LEMMA FreeClusterMapInv ==
    ASSUME IInv, MapInv, NEW c \in Clusters, FreeSubnetPerCluster(c), IInv'
    PROVE  /\ subnetPerCluster[c] \notin PoolSet
           /\ registered' = registered \ {subnetPerCluster[c]}
           /\ MapInv'
<1>. DEFINE s == subnetPerCluster[c]
<1>1. s # None /\ s \in Cidr /\ s \notin PoolSet
  BY MapFacts DEF FreeSubnetPerCluster
<1>2. registered' = registered \ {s}
  BY FreeRemoves DEF FreeSubnetPerCluster
<1>3. subnetPerCluster' = [subnetPerCluster EXCEPT ![c] = None]
  BY DEF FreeSubnetPerCluster
<1>4. \A d \in Clusters \ {c} : subnetPerCluster[d] # None => subnetPerCluster[d] # s
  BY <1>1, OverlapsSelf DEF MapInv, MappingDisjoint
<1>5. MappingRegistered'
  BY <1>2, <1>3, <1>4 DEF MapInv, IInv, MappingRegistered
<1>6. MappedNotPool' /\ MappingLengthPreserved' /\ MappingDisjoint'
  BY <1>3 DEF MapInv, IInv, MappedNotPool, MappingLengthPreserved, MappingDisjoint
<1>. QED  BY <1>1, <1>2, <1>5, <1>6 DEF MapInv

\* Freeing a configured network never frees a cluster's subnet: their
\* lengths differ.
LEMMA FreeConfiguredMapInv ==
    ASSUME ConfigsApart, IInv, MapInv, NEW n \in ConfiguredNets,
           FreeReservedSubnet(n), UNCHANGED subnetPerCluster
    PROVE  registered' = registered \ {n} /\ MapInv'
<1>1. registered' = registered \ {n}
  BY FreeRemoves
<1>2. MappingRegistered'
  <2>. SUFFICES ASSUME NEW c \in Clusters, subnetPerCluster[c] # None
                PROVE  subnetPerCluster[c] \in registered'
    BY DEF MappingRegistered
  <2>1. subnetPerCluster[c] \in registered /\ subnetPerCluster[c].len = ClusterNet[c].len
    BY MapFacts
  <2>2. n.len # ClusterNet[c].len
    BY DEF ConfigsApart
  <2>. QED  BY <1>1, <2>1, <2>2
<1>. QED  BY <1>1, <1>2 DEF MapInv, MappedNotPool, MappingLengthPreserved, MappingDisjoint

-----------------------------------------------------------------------------
(***************************************************************************)
(* The synchronizer's steps keep TMInv.                                    *)
(***************************************************************************)

\* The table's properties hold of an empty table.
LEMMA EmptyMapInv ==
    ASSUME subnetPerCluster' = [c \in Clusters |-> None]
    PROVE  MapInv'
BY NoneAssumption DEF MapInv, MappedNotPool, MappingRegistered, MappingLengthPreserved,
                      MappingDisjoint

\* A step that leaves the store and the table alone keeps MapInv.
LEMMA SameMapInv ==
    ASSUME MapInv, UNCHANGED <<registered, subnetPerCluster>>
    PROVE  MapInv'
BY DEF MapInv, MappedNotPool, MappingRegistered, MappingLengthPreserved, MappingDisjoint

LEMMA InitTMInv == TecInit => TMInv
<1>. SUFFICES ASSUME TecInit PROVE TMInv
  OBVIOUS
<1>1. TInv
  BY InitTInv
<1>2. MapInv
  BY NoneAssumption DEF TecInit, Fresh, IpamNew, MapInv, MappedNotPool, MappingRegistered,
                        MappingLengthPreserved, MappingDisjoint
<1>. QED  BY <1>1, <1>2 DEF TecInit, Fresh, TMInv, ConfiguredPoolsKept, ConfiguredFrees

\* The first event: Init stores the pools over the fresh engine, whose
\* table is empty.
LEMMA InitConfigurationTMInv ==
    ASSUME TMInv, NEW cfg \in Configs, InitConfiguration(cfg)
    PROVE  TMInv'
<1>1. TInv'
  BY InitConfigurationTInv DEF TMInv
<1>2. subnetPerCluster' = [c \in Clusters |-> None]
  BY DEF InitConfiguration, InitPools, TMInv, TInv, FreshUntilConfigured
<1>3. MapInv'
  BY <1>2, EmptyMapInv
<1>. QED  BY <1>1, <1>3 DEF InitConfiguration, InitPools, TMInv, ConfiguredPoolsKept,
                            ConfiguredFrees

\* A later event that parsed, or one rejected: the engine is untouched.
LEMMA EventTMInv ==
    ASSUME TMInv, NEW cfg \in Configs,
           UpdateConfiguration(cfg) \/ RejectConfiguration(cfg)
    PROVE  TMInv'
<1>1. TInv'
  BY UpdateConfigurationTInv, RejectConfigurationTInv DEF TMInv
<1>2. MapInv'
  BY SameMapInv DEF TMInv, UpdateConfiguration, RejectConfiguration
<1>. QED  BY <1>1, <1>2 DEF TMInv, ConfiguredPoolsKept, ConfiguredFrees,
                            UpdateConfiguration, RejectConfiguration

\* A reservation of Init's loop or of the add loop only adds to the store.
LEMMA ReserveLoopTMInv ==
    ASSUME TMInv, InitReserve \/ UpdateAdd
    PROVE  TMInv'
<1>1. TInv'
  BY ReserveLoopTInv DEF TMInv
<1>2. registered \subseteq registered'
  BY ReserveGrows DEF InitReserve, UpdateAdd
<1>3. UNCHANGED <<subnetPerCluster, ipamConfigured, reservedSubnets, step, event>>
  BY DEF InitReserve, UpdateAdd
<1>4. step \in {"init", "add"}
  BY DEF InitReserve, UpdateAdd
<1>5. MapInv'
  BY <1>2, <1>3 DEF TMInv, MapInv, MappedNotPool, MappingRegistered,
                    MappingLengthPreserved, MappingDisjoint
<1>. QED  BY <1>1, <1>2, <1>3, <1>4, <1>5 DEF TMInv, ConfiguredPoolsKept, ConfiguredFrees

\* A free of the remove loop frees a configured network, which is neither
\* a cluster's subnet nor a pool that is not configured.
LEMMA UpdateRemoveTMInv ==
    ASSUME ConfigsApart, TMInv, UpdateRemove
    PROVE  TMInv'
<1>1. TInv'
  BY UpdateRemoveTInv DEF TMInv
<1>2. PICK n \in pending :
          /\ \/ FreeReservedSubnet(n)
             \/ n \notin registered /\ UNCHANGED allocVars
          /\ pending' = pending \ {n}
  BY DEF UpdateRemove, allocVars
<1>3. UNCHANGED <<subnetPerCluster, ipamConfigured, reservedSubnets, step, event>>
  BY DEF UpdateRemove
<1>4. step = "remove" /\ n \in ConfiguredNets
  BY DEF UpdateRemove, TMInv, ConfiguredFrees
<1>5. registered' \in {registered, registered \ {n}} /\ MapInv'
  <2>1. CASE FreeReservedSubnet(n)
    BY <1>3, <1>4, <2>1, FreeConfiguredMapInv DEF TMInv, TInv
  <2>2. CASE UNCHANGED allocVars
    BY <1>3, <2>2, SameMapInv DEF TMInv, allocVars
  <2>. QED  BY <1>2, <2>1, <2>2
<1>. QED  BY <1>1, <1>2, <1>3, <1>4, <1>5 DEF TMInv, ConfiguredPoolsKept, ConfiguredFrees

\* InitDone stores the parsed event as tec.ReservedSubnets, the remove loop
\* starts over reserved networks, UpdateConfiguration returns.
LEMMA LoopControlTMInv ==
    ASSUME TMInv, InitDone \/ UpdateRemoveStart \/ UpdateDone
    PROVE  TMInv'
<1>1. TInv'
  BY LoopControlTInv DEF TMInv
<1>2. UNCHANGED <<registered, subnetPerCluster, event>>
  BY DEF InitDone, UpdateRemoveStart, UpdateDone
<1>3. MapInv'
  BY <1>2, SameMapInv DEF TMInv
<1>4. CASE InitDone
  <2>1. event \subseteq ConfiguredNets
    BY <1>4 DEF InitDone, TMInv, TInv, EventParsed, ConfiguredFrees, ConfiguredNets
  <2>. QED  BY <1>1, <1>2, <1>3, <1>4, <2>1
            DEF InitDone, TMInv, ConfiguredPoolsKept, ConfiguredFrees
<1>5. CASE UpdateRemoveStart
  BY <1>1, <1>2, <1>3, <1>5 DEF UpdateRemoveStart, TMInv, ConfiguredPoolsKept, ConfiguredFrees
<1>6. CASE UpdateDone
  BY <1>1, <1>2, <1>3, <1>6 DEF UpdateDone, TMInv, ConfiguredPoolsKept, ConfiguredFrees
<1>. QED  BY <1>4, <1>5, <1>6

\* A reconciler's allocation on the configured engine: every pool out of
\* the store is a configured network, so none has the cluster's length and
\* the new subnet is no pool.  Its free removes a non-pool.
LEMMA ReconcileTMInv ==
    ASSUME ConfigsApart, TMInv, NEW c \in Clusters, Reconcile(c)
    PROVE  TMInv'
<1>1. TInv'
  BY ReconcileTInv DEF TMInv
<1>2. IInv' /\ ipamConfigured /\ UNCHANGED tecVars
  BY <1>1 DEF TInv, Reconcile
<1>3. PoolSet \ registered \subseteq ConfiguredNets
  BY <1>2 DEF TMInv, ConfiguredPoolsKept
<1>4. CASE GetSubnetPerCluster(ClusterNet[c], c)
  <2>1. \A p \in PoolSet \ registered : p.len # ClusterNet[c].len
    BY <1>3 DEF ConfigsApart
  <2>2. registered \subseteq registered' /\ MapInv'
    BY <1>2, <1>4, <2>1, GetSubnetMapInv DEF TMInv, TInv
  <2>. QED  BY <1>1, <1>2, <2>2 DEF TMInv, tecVars, ConfiguredPoolsKept, ConfiguredFrees
<1>5. CASE FreeSubnetPerCluster(c)
  <2>1. /\ subnetPerCluster[c] \notin PoolSet
        /\ registered' = registered \ {subnetPerCluster[c]}
        /\ MapInv'
    BY <1>2, <1>5, FreeClusterMapInv DEF TMInv, TInv
  <2>. QED  BY <1>1, <1>2, <2>1 DEF TMInv, tecVars, ConfiguredPoolsKept, ConfiguredFrees
<1>. QED  BY <1>4, <1>5 DEF Reconcile

\* A crash empties the engine and the reserved set.
LEMMA RestartTMInv ==
    ASSUME TMInv, Restart
    PROVE  TMInv'
<1>1. TInv'
  BY RestartTInv DEF TMInv
<1>2. MapInv'
  BY EmptyMapInv DEF Restart
<1>. QED  BY <1>1, <1>2 DEF Restart, TMInv, ConfiguredPoolsKept, ConfiguredFrees

LEMMA NextTMInv ==
    ASSUME ConfigsApart, TMInv, [TecNext]_allVars
    PROVE  TMInv'
<1>1. ASSUME NEW cfg \in Configs, InitConfiguration(cfg) PROVE TMInv'
  BY <1>1, InitConfigurationTMInv
<1>2. ASSUME NEW cfg \in Configs, UpdateConfiguration(cfg) \/ RejectConfiguration(cfg)
      PROVE  TMInv'
  BY <1>2, EventTMInv
<1>3. CASE SyncStep
  BY <1>3, ReserveLoopTMInv, UpdateRemoveTMInv, LoopControlTMInv DEF SyncStep
<1>4. ASSUME NEW c \in Clusters, Reconcile(c) PROVE TMInv'
  BY <1>4, ReconcileTMInv
<1>5. CASE Restart
  BY <1>5, RestartTMInv
<1>6. CASE UNCHANGED allVars
  <2>1. TInv'
    BY <1>6, NextTInv DEF TMInv
  <2>2. MapInv'
    BY <1>6, SameMapInv DEF TMInv, allVars
  <2>. QED  BY <1>6, <2>1, <2>2 DEF allVars, TMInv, ConfiguredPoolsKept, ConfiguredFrees
<1>. QED  BY <1>1, <1>2, <1>3, <1>4, <1>5, <1>6 DEF TecNext

-----------------------------------------------------------------------------
(***************************************************************************)
(* The theorems.                                                           *)
(***************************************************************************)

\* When no network a ClusterConfig carries has the prefix length of a
\* cluster's network, the subnets the engine has given remote clusters
\* never share an address, across any number of operator restarts and any
\* interleaving of configuration events, their reserve and free loops
\* (tec.ReservedSubnets going stale included) and the reconcilers' calls.
THEOREM SyncClusterSubnetsDisjoint ==
    ASSUME ConfigsApart
    PROVE  TecSpec => []MappingDisjoint
<1>1. TMInv /\ [TecNext]_allVars => TMInv'
  BY NextTMInv
<1>2. TMInv => MappingDisjoint
  BY DEF TMInv, MapInv
<1>. QED  BY InitTMInv, <1>1, <1>2, PTL DEF TecSpec

\* Under the same assumption, a cluster's subnet stays a stored prefix for
\* as long as the engine maps the cluster to it: no free of the remove
\* loop takes it away, so freeSubnetPerCluster always finds it.
THEOREM SyncMappedStaysRegistered ==
    ASSUME ConfigsApart
    PROVE  TecSpec => []MappingRegistered
<1>1. TMInv /\ [TecNext]_allVars => TMInv'
  BY NextTMInv
<1>2. TMInv => MappingRegistered
  BY DEF TMInv, MapInv
<1>. QED  BY InitTMInv, <1>1, <1>2, PTL DEF TecSpec

\* The inductive invariant itself, which the run sync_interleaved checks:
\* under the same assumption, across restarts and every interleaving, the
\* remove loop frees only configured networks, a pool leaves the store only
\* as one, and the engine's cluster table keeps its four properties.
THEOREM SyncMappingInvariant ==
    ASSUME ConfigsApart
    PROVE  TecSpec => []TMInv
<1>1. TMInv /\ [TecNext]_allVars => TMInv'
  BY NextTMInv
<1>. QED  BY InitTMInv, <1>1, PTL DEF TecSpec
=============================================================================
