------------------------- MODULE TunnelEndpointCreator -------------------------
(***************************************************************************)
(* The configuration synchronizer of                                      *)
(* internal/liqonet/tunnelEndpointCreator/tunnelEndpointCreator-config.go  *)
(* composed with the IPAM engine and the per-cluster reconcilers.          *)
(*                                                                         *)
(* The ClusterConfig watcher calls one callback at a time.  The first     *)
(* event that parses initialises the engine (InitConfiguration, Init);     *)
(* later events diff the reserved set against tec.ReservedSubnets          *)
(* (UpdateConfiguration).  Each loop iteration is a step of its own: the   *)
(* reconcilers, which start once the engine is configured (WaitConfig),    *)
(* do not take tec.Mutex and interleave with the loops.  An event with an *)
(* entry that does not parse is rejected whole (GetConfiguration); events  *)
(* equal to tec.ReservedSubnets return without a change and are not        *)
(* written.                                                                *)
(*                                                                         *)
(* Fault model: the operator process may crash and restart at any moment.  *)
(* Everything in memory (the engine, tec's fields, the callback's loop) is *)
(* lost; what survives is each TunnelEndpoint's status, where the          *)
(* reconciler wrote the subnet the cluster was given.  On restart the      *)
(* first event recovers those subnets (GetClustersSubnets).                *)
(***************************************************************************)
EXTENDS Ipam

CONSTANTS
    Configs,    \* reserved sets a ClusterConfig can carry (podCIDR,
                \* serviceCIDR and the extra reserved subnets)
    Malformed   \* an entry of a ClusterConfig that net.ParseCIDR rejects

ASSUME ConfigsAssumption ==
    /\ Malformed \notin Cidr
    /\ Configs \subseteq SUBSET (Cidr \cup {Malformed})

VARIABLES
    ipamConfigured,   \* tec.IpamConfigured
    reservedSubnets,  \* tec.ReservedSubnets
    step,             \* where the callback is: idle, Init's loop, or a loop of UpdateConfiguration
    pending,          \* the networks the current loop has still to visit
    event,            \* the entries of the event being (or last) handled
    tunnelStatus      \* per cluster, Status.LocalRemappedPodCIDR of its
                      \* TunnelEndpoint (None: no tunnel), persisted

tecVars == <<ipamConfigured, reservedSubnets, step, pending, event>>

allVars == <<registered, parentOf, used, subnetPerCluster,
             ipamConfigured, reservedSubnets, step, pending, event, tunnelStatus>>

\* The operator's in-memory state when the process starts.
Fresh ==
    /\ IpamNew
    /\ ipamConfigured = FALSE
    /\ reservedSubnets = {}
    /\ step = "idle"
    /\ pending = {}
    /\ event = {}

TecInit ==
    /\ Fresh
    /\ tunnelStatus = [c \in Clusters |-> None]

\* GetClustersSubnets: the subnet of every TunnelEndpoint whose status has
\* one, the remapped value or, for DefaultPodCIDRValue, the cluster's own
\* PodCIDR; either way, the subnet the cluster was given.
ClustersSubnets ==
    {tunnelStatus[c] : c \in {d \in Clusters : tunnelStatus[d] # None}}

\* Mutation: the parse error is ignored and the event goes on.
GetConfigurationIgnored(cfg) == TRUE

\* GetConfiguration: the Pod CIDR, the Service CIDR and every extra reserved
\* subnet are parsed; one entry that does not parse fails the whole event.
GetConfiguration(cfg) == Malformed \notin cfg

-----------------------------------------------------------------------------
\* Mutation: the recovered cluster subnets are not added to the reserved
\* networks.
InitConfigurationNoRecovery(cfg) ==
    /\ step = "idle"
    /\ ~ipamConfigured
    /\ GetConfiguration(cfg)
    /\ InitPools
    /\ step' = "init"
    /\ pending' = cfg
    /\ event' = cfg
    /\ UNCHANGED <<ipamConfigured, reservedSubnets, tunnelStatus>>

\* First event: InitConfiguration appends the subnets recovered from the
\* tunnel records to the reserved networks and calls Init, which registers
\* the pools and starts its loop over them (Go map order: any order).  The
\* cluster table Init stores stays empty.
InitConfiguration(cfg) ==
    /\ step = "idle"
    /\ ~ipamConfigured
    /\ GetConfiguration(cfg)
    /\ InitPools
    /\ step' = "init"
    /\ pending' = cfg \cup ClustersSubnets
    /\ event' = cfg
    /\ UNCHANGED <<ipamConfigured, reservedSubnets, tunnelStatus>>

InitReserve ==
    /\ step = "init"
    /\ \E n \in pending :
          /\ AcquireReservedSubnet(n)
          /\ pending' = pending \ {n}
    /\ UNCHANGED <<subnetPerCluster, ipamConfigured, reservedSubnets, step, event, tunnelStatus>>

\* Init stores its (empty) cluster table, InitConfiguration stores the
\* reserved set and the callback sets IpamConfigured.
InitDone ==
    /\ step = "init"
    /\ pending = {}
    /\ reservedSubnets' = event
    /\ ipamConfigured' = TRUE
    /\ step' = "idle"
    /\ UNCHANGED <<registered, parentOf, used, subnetPerCluster, pending, event, tunnelStatus>>

\* Later events: the networks of the event missing from
\* tec.ReservedSubnets are acquired first.
UpdateConfiguration(cfg) ==
    /\ step = "idle"
    /\ ipamConfigured
    /\ GetConfiguration(cfg)
    /\ cfg # reservedSubnets
    /\ step' = "add"
    /\ pending' = cfg \ reservedSubnets
    /\ event' = cfg
    /\ UNCHANGED <<registered, parentOf, used, subnetPerCluster,
                   ipamConfigured, reservedSubnets, tunnelStatus>>

UpdateAdd ==
    /\ step = "add"
    /\ \E n \in pending :
          /\ AcquireReservedSubnet(n)
          /\ pending' = pending \ {n}
    /\ UNCHANGED <<subnetPerCluster, ipamConfigured, reservedSubnets, step, event, tunnelStatus>>

\* Then the networks of tec.ReservedSubnets missing from the event are freed.
UpdateRemoveStart ==
    /\ step = "add"
    /\ pending = {}
    /\ step' = "remove"
    /\ pending' = reservedSubnets \ event
    /\ UNCHANGED <<registered, parentOf, used, subnetPerCluster,
                   ipamConfigured, reservedSubnets, event, tunnelStatus>>

\* A failed FreeReservedSubnet is logged and the loop goes on.
UpdateRemove ==
    /\ step = "remove"
    /\ \E n \in pending :
          /\ \/ FreeReservedSubnet(n)
             \/ n \notin registered /\ UNCHANGED <<registered, parentOf, used>>
          /\ pending' = pending \ {n}
    /\ UNCHANGED <<subnetPerCluster, ipamConfigured, reservedSubnets, step, event, tunnelStatus>>

\* UpdateConfiguration returns without storing the event's set in
\* tec.ReservedSubnets.
UpdateDone ==
    /\ step = "remove"
    /\ pending = {}
    /\ step' = "idle"
    /\ UNCHANGED <<registered, parentOf, used, subnetPerCluster,
                   ipamConfigured, reservedSubnets, pending, event, tunnelStatus>>

\* Either branch of the callback: GetConfiguration fails, the error is
\* logged and the callback returns; nothing is reserved or freed.
RejectConfiguration(cfg) ==
    /\ step = "idle"
    /\ ~GetConfiguration(cfg)
    /\ event' = cfg
    /\ UNCHANGED <<registered, parentOf, used, subnetPerCluster,
                   ipamConfigured, reservedSubnets, step, pending, tunnelStatus>>

\* The tunnel-endpoint reconciler of cluster c asks for the cluster's
\* subnet when its tunnel is set up (or, after a restart, resynced) and
\* writes it to the tunnel's status; it frees the subnet when the tunnel is
\* torn down, and the record goes with the tunnel.
Reconcile(c) ==
    /\ ipamConfigured
    /\ \/ /\ GetSubnetPerCluster(ClusterNet[c], c)
          /\ tunnelStatus' = [tunnelStatus EXCEPT ![c] = subnetPerCluster'[c]]
       \/ /\ FreeSubnetPerCluster(c)
          /\ tunnelStatus' = [tunnelStatus EXCEPT ![c] = None]
    /\ UNCHANGED tecVars

\* The operator process crashes and is started again: its memory is fresh,
\* the tunnel records are kept.
Restart ==
    /\ registered' = {}
    /\ parentOf' = [x \in Cidr |-> None]
    /\ used' = [x \in Cidr |-> {}]
    /\ subnetPerCluster' = [c \in Clusters |-> None]
    /\ ipamConfigured' = FALSE
    /\ reservedSubnets' = {}
    /\ step' = "idle"
    /\ pending' = {}
    /\ event' = {}
    /\ UNCHANGED tunnelStatus

SyncStep ==
    \/ InitReserve
    \/ InitDone
    \/ UpdateAdd
    \/ UpdateRemoveStart
    \/ UpdateRemove
    \/ UpdateDone

TecNext ==
    \/ \E cfg \in Configs :
          \/ InitConfiguration(cfg)
          \/ UpdateConfiguration(cfg)
          \/ RejectConfiguration(cfg)
    \/ SyncStep
    \/ \E c \in Clusters : Reconcile(c)
    \/ Restart

\* The synchronizer's properties are all safety properties, so the
\* specification asserts no fairness.
TecSpec == TecInit /\ [][TecNext]_allVars

-----------------------------------------------------------------------------
TecTypeOK ==
    /\ TypeOK
    /\ ipamConfigured \in BOOLEAN
    /\ reservedSubnets \in SUBSET Cidr
    /\ step \in {"idle", "init", "add", "remove"}
    /\ pending \in SUBSET Cidr
    /\ event \in SUBSET (Cidr \cup {Malformed})
    /\ tunnelStatus \in [Clusters -> Cidr \cup {None}]

\* Spec sections 3 and 6: once an event is handled, every address of every
\* well-formed network it reserves lies in a stored prefix other than a
\* pool, so no cluster can be given it (a malformed entry of a later event
\* is to reject that entry's add only).
ReservedInForce ==
    step = "idle" /\ ipamConfigured =>
        \A n \in event \cap Cidr : \A a \in Block(n) :
            \E r \in registered \ PoolSet : a \in Block(r)

\* The pools stay registered as top-level prefixes for the engine's
\* lifetime (spec section 3: pools are read-only after Init).
PoolsStored ==
    ipamConfigured => \A p \in PoolSet : p \in registered /\ parentOf[p] = None

\* The point of GetClustersSubnets (spec section 4.2): the subnets of the
\* tunnels that exist never share an address, across any number of
\* restarts of the operator, whatever order the reconcilers resync in.
LiveSubnetsDisjoint ==
    \A c, d \in Clusters :
        /\ c # d
        /\ tunnelStatus[c] # None
        /\ tunnelStatus[d] # None
        => ~Overlaps(tunnelStatus[c], tunnelStatus[d])

\* Spec section 4.2: the recovered subnets are handed to Init as the
\* cluster mapping, so a cluster whose tunnel survives a restart keeps the
\* subnet its record holds (the remote side's NAT is set up for it).
RecordedSubnetKept ==
    [][\A c \in Clusters :
          tunnelStatus[c] # None /\ tunnelStatus'[c] # None
          => tunnelStatus'[c] = tunnelStatus[c]]_allVars
=============================================================================
