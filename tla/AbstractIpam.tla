------------------------------ MODULE AbstractIpam ------------------------------
(***************************************************************************)
(* What the IPAM engine promises its callers (spec sections 3 and 4.1),    *)
(* with pools, parents and the allocator's bookkeeping left out: a set of  *)
(* taken address blocks that never share an address, and a table giving    *)
(* each cluster at most one block.  A block is taken by a reservation or   *)
(* by an allocation for a cluster, and only when it is free; it is given   *)
(* back by a release or by freeing the cluster.                            *)
(***************************************************************************)
EXTENDS Cidr

CONSTANTS Clusters, None

VARIABLES taken, assigned

absVars == <<taken, assigned>>

\* No taken block shares an address with n.
IsFree(n) == \A t \in taken : ~Overlaps(t, n)

AbsInit ==
    /\ taken = {}
    /\ assigned = [c \in Clusters |-> None]

Reserve(n) ==
    /\ IsFree(n)
    /\ taken' = taken \cup {n}
    /\ UNCHANGED assigned

Release(n) ==
    /\ n \in taken
    /\ taken' = taken \ {n}
    /\ UNCHANGED assigned

Allocate(c, x) ==
    /\ assigned[c] = None
    /\ IsFree(x)
    /\ taken' = taken \cup {x}
    /\ assigned' = [assigned EXCEPT ![c] = x]

Deallocate(c) ==
    /\ assigned[c] # None
    /\ taken' = taken \ {assigned[c]}
    /\ assigned' = [assigned EXCEPT ![c] = None]

AbsNext ==
    \/ \E n \in Cidr : Reserve(n) \/ Release(n)
    \/ \E c \in Clusters :
          \/ \E x \in Cidr : Allocate(c, x)
          \/ Deallocate(c)

AbsSpec == AbsInit /\ [][AbsNext]_absVars

\* The taken blocks are pairwise disjoint.
TakenDisjoint == \A s, t \in taken : s # t => ~Overlaps(s, t)
=============================================================================
