------------------------------ MODULE TecProofs ------------------------------
(***************************************************************************)
(* The configuration synchronizer of TunnelEndpointCreator.tla keeps the   *)
(* engine's invariant AllocInv across any interleaving of configuration    *)
(* events, their loops, the reconcilers' allocations and frees, and        *)
(* crashes of the operator.                                                *)
(*                                                                         *)
(* TecTypeOK and AllocatorNoOverlap are not inductive for the synchronizer *)
(* as they stand, for two reasons.  InitConfiguration calls Init, whose    *)
(* loop registers the pools over whatever the engine holds: the engine     *)
(* must still be the fresh one of NewIPAM, which holds because nothing     *)
(* touches it before the first event is handled (the reconcilers wait for  *)
(* IpamConfigured) and a restart makes it fresh again                      *)
(* (FreshUntilConfigured).                                                 *)
(* And InitDone stores the event's set as tec.ReservedSubnets: the entries *)
(* of an event being handled have all parsed (EventParsed), while the last *)
(* event seen, once rejected, may hold one that does not.                  *)
(***************************************************************************)
EXTENDS TunnelEndpointCreator, IpamProofs

\* Until the first event is handled the engine is the one NewIPAM built.
FreshUntilConfigured ==
    step = "idle" /\ ~ipamConfigured =>
        /\ registered = {}
        /\ parentOf = [x \in Cidr |-> None]
        /\ used = [x \in Cidr |-> {}]
        /\ subnetPerCluster = [c \in Clusters |-> None]

\* The event a loop is applying parsed whole.
EventParsed == step # "idle" => event \subseteq Cidr

\* UpdateConfiguration's loops run only on a configured engine.
LoopsConfigured == step \in {"add", "remove"} => ipamConfigured

TInv ==
    /\ IInv
    /\ TecTypeOK
    /\ FreshUntilConfigured
    /\ EventParsed
    /\ LoopsConfigured

-----------------------------------------------------------------------------
(***************************************************************************)
(* The two engines the synchronizer starts from.                          *)
(***************************************************************************)

\* The engine Init leaves: the pools, stored as top-level prefixes.
LEMMA PoolsOnlyIInv ==
    ASSUME registered' = PoolSet,
           parentOf' = [x \in Cidr |-> None],
           used' = [x \in Cidr |-> {}],
           subnetPerCluster' = [c \in Clusters |-> None]
    PROVE  IInv'
<1>1. AllocTypeOK'
  BY PoolsFacts DEF AllocTypeOK
<1>2. AllocatorNoOverlap'
  BY PoolsAssumption DEF AllocatorNoOverlap, PoolSet
<1>3. ChildInsideParent' /\ ChildOfPool' /\ UsedCoversChildren'
  BY NoneAssumption, PoolsFacts DEF ChildInsideParent, ChildOfPool, UsedCoversChildren
<1>. QED  BY <1>1, <1>2, <1>3 DEF IInv, AllocInv

\* The engine NewIPAM builds after a restart.
LEMMA FreshIInv ==
    ASSUME registered' = {},
           parentOf' = [x \in Cidr |-> None],
           used' = [x \in Cidr |-> {}],
           subnetPerCluster' = [c \in Clusters |-> None]
    PROVE  IInv'
BY DEF IInv, AllocInv, AllocTypeOK, AllocatorNoOverlap, ChildInsideParent,
       ChildOfPool, UsedCoversChildren

LEMMA InitTInv == TecInit => TInv
BY DEF TecInit, Fresh, IpamNew, TInv, IInv, AllocInv, AllocTypeOK,
   AllocatorNoOverlap, ChildInsideParent, ChildOfPool, UsedCoversChildren,
   TecTypeOK, TypeOK, FreshUntilConfigured, EventParsed, LoopsConfigured

\* The subnets recovered from the tunnel records are CIDRs.
LEMMA ClustersSubnetsCidr ==
    ASSUME TecTypeOK
    PROVE  ClustersSubnets \subseteq Cidr
BY NoneAssumption DEF TecTypeOK, ClustersSubnets

-----------------------------------------------------------------------------
(***************************************************************************)
(* The callback's steps keep TInv.                                         *)
(***************************************************************************)

\* The first event: Init runs on the fresh engine and its loop starts over
\* entries that all parsed, with the recovered subnets.
LEMMA InitConfigurationTInv ==
    ASSUME TInv, NEW cfg \in Configs, InitConfiguration(cfg)
    PROVE  TInv'
<1>1. cfg \subseteq Cidr
  BY ConfigsAssumption DEF InitConfiguration, GetConfiguration
<1>2. IInv'
  BY PoolsOnlyIInv DEF InitConfiguration, InitPools, TInv, FreshUntilConfigured
<1>3. ClustersSubnets \subseteq Cidr
  BY ClustersSubnetsCidr DEF TInv
<1>. QED  BY <1>1, <1>2, <1>3
          DEF InitConfiguration, TInv, IInv, AllocInv, AllocTypeOK, TecTypeOK, TypeOK,
              FreshUntilConfigured, EventParsed, LoopsConfigured

\* A later event that parsed starts the add loop over its new entries.
LEMMA UpdateConfigurationTInv ==
    ASSUME TInv, NEW cfg \in Configs, UpdateConfiguration(cfg)
    PROVE  TInv'
<1>1. cfg \subseteq Cidr
  BY ConfigsAssumption DEF UpdateConfiguration, GetConfiguration
<1>. QED  BY <1>1
          DEF UpdateConfiguration, TInv, IInv, AllocInv, AllocTypeOK, AllocatorNoOverlap,
              ChildInsideParent, ChildOfPool, UsedCoversChildren, TecTypeOK, TypeOK,
              FreshUntilConfigured, EventParsed, LoopsConfigured

\* A rejected event is only remembered as the last one seen.
LEMMA RejectConfigurationTInv ==
    ASSUME TInv, NEW cfg \in Configs, RejectConfiguration(cfg)
    PROVE  TInv'
<1>1. cfg \subseteq Cidr \cup {Malformed}
  BY ConfigsAssumption
<1>. QED  BY <1>1
          DEF RejectConfiguration, TInv, IInv, AllocInv, AllocTypeOK, AllocatorNoOverlap,
              ChildInsideParent, ChildOfPool, UsedCoversChildren, TecTypeOK, TypeOK,
              FreshUntilConfigured, EventParsed, LoopsConfigured

\* A reservation of Init's or of the add loop, of a network that parsed.
LEMMA ReserveLoopTInv ==
    ASSUME TInv, InitReserve \/ UpdateAdd
    PROVE  TInv'
<1>1. PICK n \in pending : AcquireReservedSubnet(n) /\ pending' = pending \ {n}
  BY DEF InitReserve, UpdateAdd
<1>2. n \in Cidr
  BY DEF TInv, TecTypeOK
<1>3. AllocInv'
  BY <1>1, <1>2, AcquireReservedSubnetInv DEF TInv, IInv
<1>4. UNCHANGED <<subnetPerCluster, ipamConfigured, reservedSubnets, step, event, tunnelStatus>>
  BY DEF InitReserve, UpdateAdd
<1>5. step # "idle"
  BY DEF InitReserve, UpdateAdd
<1>. QED  BY <1>1, <1>3, <1>4, <1>5
          DEF TInv, IInv, AllocInv, AllocTypeOK, TecTypeOK, TypeOK,
              FreshUntilConfigured, EventParsed, LoopsConfigured

\* A free of the remove loop, done or failed and skipped.
LEMMA UpdateRemoveTInv ==
    ASSUME TInv, UpdateRemove
    PROVE  TInv'
<1>1. PICK n \in pending :
          /\ \/ FreeReservedSubnet(n)
             \/ n \notin registered /\ UNCHANGED allocVars
          /\ pending' = pending \ {n}
  BY DEF UpdateRemove, allocVars
<1>2. AllocInv'
  <2>1. CASE FreeReservedSubnet(n)
    BY <2>1, FreeReservedSubnetInv DEF TInv, IInv
  <2>2. CASE UNCHANGED allocVars
    BY <2>2, AllocUnchangedInv DEF TInv, IInv
  <2>. QED  BY <1>1, <2>1, <2>2
<1>3. UNCHANGED <<subnetPerCluster, ipamConfigured, reservedSubnets, step, event, tunnelStatus>>
  BY DEF UpdateRemove
<1>4. step = "remove"
  BY DEF UpdateRemove
<1>. QED  BY <1>1, <1>2, <1>3, <1>4
          DEF TInv, IInv, AllocInv, AllocTypeOK, TecTypeOK, TypeOK,
              FreshUntilConfigured, EventParsed, LoopsConfigured

\* The loops' other steps leave the engine alone: InitDone stores the
\* parsed event as tec.ReservedSubnets and marks the engine configured,
\* the remove loop starts over reserved networks, UpdateConfiguration
\* returns on a configured engine.
LEMMA LoopControlTInv ==
    ASSUME TInv, InitDone \/ UpdateRemoveStart \/ UpdateDone
    PROVE  TInv'
<1>1. UNCHANGED <<registered, parentOf, used, subnetPerCluster, tunnelStatus>>
  BY DEF InitDone, UpdateRemoveStart, UpdateDone
<1>2. IInv'
  BY <1>1 DEF TInv, IInv, AllocInv, AllocTypeOK, AllocatorNoOverlap,
              ChildInsideParent, ChildOfPool, UsedCoversChildren
<1>3. CASE InitDone
  BY <1>1, <1>2, <1>3
  DEF InitDone, TInv, IInv, AllocInv, AllocTypeOK, TecTypeOK, TypeOK,
      FreshUntilConfigured, EventParsed, LoopsConfigured
<1>4. CASE UpdateRemoveStart
  BY <1>1, <1>2, <1>4
  DEF UpdateRemoveStart, TInv, IInv, AllocInv, AllocTypeOK, TecTypeOK, TypeOK,
      FreshUntilConfigured, EventParsed, LoopsConfigured
<1>5. CASE UpdateDone
  BY <1>1, <1>2, <1>5
  DEF UpdateDone, TInv, IInv, AllocInv, AllocTypeOK, TecTypeOK, TypeOK,
      FreshUntilConfigured, EventParsed, LoopsConfigured
<1>. QED  BY <1>3, <1>4, <1>5

-----------------------------------------------------------------------------
(***************************************************************************)
(* The reconcilers and crashes keep TInv.                                  *)
(***************************************************************************)

\* A reconciler allocates or frees its cluster's subnet on the configured
\* engine and records the outcome in the tunnel's status.
LEMMA ReconcileTInv ==
    ASSUME TInv, NEW c \in Clusters, Reconcile(c)
    PROVE  TInv'
<1>1. IInv'
  <2>1. CASE GetSubnetPerCluster(ClusterNet[c], c)
    BY <2>1, GetSubnetPerClusterInv DEF TInv
  <2>2. CASE FreeSubnetPerCluster(c)
    BY <2>2, FreeSubnetPerClusterInv DEF TInv
  <2>. QED  BY <2>1, <2>2 DEF Reconcile
<1>2. tunnelStatus' \in [Clusters -> Cidr \cup {None}]
  BY <1>1 DEF Reconcile, TInv, TecTypeOK, IInv
<1>3. ipamConfigured /\ UNCHANGED tecVars
  BY DEF Reconcile
<1>. QED  BY <1>1, <1>2, <1>3
          DEF tecVars, TInv, IInv, AllocInv, AllocTypeOK, TecTypeOK, TypeOK,
              FreshUntilConfigured, EventParsed, LoopsConfigured

\* A crash leaves the fresh engine of a started process and the tunnel
\* records.
LEMMA RestartTInv ==
    ASSUME TInv, Restart
    PROVE  TInv'
<1>1. IInv'
  BY FreshIInv DEF Restart
<1>. QED  BY <1>1
          DEF Restart, TInv, IInv, AllocInv, AllocTypeOK, TecTypeOK, TypeOK,
              FreshUntilConfigured, EventParsed, LoopsConfigured

LEMMA NextTInv == TInv /\ [TecNext]_allVars => TInv'
<1>. SUFFICES ASSUME TInv, [TecNext]_allVars PROVE TInv'
  OBVIOUS
<1>1. ASSUME NEW cfg \in Configs,
             InitConfiguration(cfg) \/ UpdateConfiguration(cfg) \/ RejectConfiguration(cfg)
      PROVE  TInv'
  BY <1>1, InitConfigurationTInv, UpdateConfigurationTInv, RejectConfigurationTInv
<1>2. CASE SyncStep
  BY <1>2, ReserveLoopTInv, UpdateRemoveTInv, LoopControlTInv DEF SyncStep
<1>3. ASSUME NEW c \in Clusters, Reconcile(c)
      PROVE  TInv'
  BY <1>3, ReconcileTInv
<1>4. CASE Restart
  BY <1>4, RestartTInv
<1>5. CASE UNCHANGED allVars
  BY <1>5 DEF allVars, TInv, IInv, AllocInv, AllocTypeOK, AllocatorNoOverlap,
              ChildInsideParent, ChildOfPool, UsedCoversChildren, TecTypeOK, TypeOK,
              FreshUntilConfigured, EventParsed, LoopsConfigured
<1>. QED  BY <1>1, <1>2, <1>3, <1>4, <1>5 DEF TecNext

-----------------------------------------------------------------------------
(***************************************************************************)
(* The theorems.                                                           *)
(***************************************************************************)

\* Across any number of operator restarts, any order of the callback's
\* loop steps and the reconcilers' calls, and any configuration events,
\* rejected ones included, the synchronizer's state is well typed: the
\* reserved set, the loop's pending networks and the tunnel records hold
\* CIDRs only.
THEOREM TecTypeCorrect == TecSpec => []TecTypeOK
<1>1. TInv => TecTypeOK
  BY DEF TInv
<1>. QED  BY InitTInv, NextTInv, <1>1, PTL DEF TecSpec

\* Under the same interleavings and crashes, the engine the synchronizer
\* drives never stores two prefixes that share an address unless one was
\* carved out of the other: Init only ever runs on a fresh engine.
THEOREM TecNoOverlap == TecSpec => []AllocatorNoOverlap
<1>1. TInv => AllocatorNoOverlap
  BY DEF TInv, IInv, AllocInv
<1>. QED  BY InitTInv, NextTInv, <1>1, PTL DEF TecSpec

\* TInv itself, the strengthened invariant the run sync_interleaved checks:
\* the engine is fresh until the first event is handled, a running loop's
\* event parsed whole, and the update loops run on a configured engine, in
\* every reachable state across restarts.
THEOREM SyncInvariant == TecSpec => []TInv
BY InitTInv, NextTInv, PTL DEF TecSpec
=============================================================================
