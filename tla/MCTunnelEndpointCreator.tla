------------------------ MODULE MCTunnelEndpointCreator ------------------------
(***************************************************************************)
(* The synchronizer on the address space of MCIpam (pool 1 = 0..3 as a     *)
(* /8, pool 2 = 4..5 as a /16, 6..7 in no pool), with the same three       *)
(* clusters, and one set of ClusterConfig contents per question.           *)
(***************************************************************************)
EXTENDS TecMappingProofs, TLC

CONSTANTS c1, c2, c3

MCPools == << [base |-> 0, len |-> 1], [base |-> 4, len |-> 2] >>

MCClusterNet ==
    (c1 :> [base |-> 0, len |-> 2]) @@
    (c2 :> [base |-> 0, len |-> 2]) @@
    (c3 :> [base |-> 6, len |-> 2])

\* Disjoint reservations, inside pool 1, inside pool 2 and in no pool, that
\* the configuration adds and drops.
MCConfigs ==
    { { [base |-> 2, len |-> 3], [base |-> 6, len |-> 3] },
      { [base |-> 6, len |-> 3] },
      { [base |-> 2, len |-> 3], [base |-> 4, len |-> 3] } }

\* The network c1 and c2 advertise is reserved, then dropped.
MCConfigsDropped ==
    { { [base |-> 0, len |-> 2] }, {} }

\* A reserved /16 and a /24 inside it (say the pod CIDR and an extra range).
MCConfigsNested ==
    { { [base |-> 0, len |-> 2], [base |-> 0, len |-> 3] } }

\* A reservation equal to pool 1, then dropped.
MCConfigsPool ==
    { { [base |-> 0, len |-> 1] }, {} }

\* Reservations that a cluster subnet can contain only as c3's own network
\* (6..7 lies in no pool, and only c3 advertises it), added and dropped
\* across restarts, and a ClusterConfig with an entry that does not parse.
MCConfigsRestart ==
    { { [base |-> 6, len |-> 3] },
      { [base |-> 4, len |-> 3], [base |-> 6, len |-> 3] },
      {},
      { [base |-> 4, len |-> 3], Malformed } }

\* A reservation in no pool, then an extra reservation in pool 2 delivered
\* together with an entry that does not parse.
MCConfigsMalformed ==
    { { [base |-> 6, len |-> 3] },
      { [base |-> 6, len |-> 3], [base |-> 4, len |-> 3], Malformed } }

MCSymmetry == Permutations({c1, c2})
=============================================================================
