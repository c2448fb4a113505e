-------------------------------- MODULE MCIpam --------------------------------
(***************************************************************************)
(* A small instance of the engine.  W = 3 gives 8 addresses; with          *)
(* MaskScale = 8 the lengths 1, 2 and 3 are /8, /16 and /24.               *)
(*   pool 1 = 0..3 (/8), pool 2 = 4..5 (/16), addresses 6..7 in no pool.  *)
(* c1 and c2 advertise the same /16 inside pool 1, so the second of them   *)
(* is remapped; c3 advertises a /16 outside the pools that a reservation   *)
(* overlaps.  The reservations are a /24 inside pool 1 and one outside.    *)
(***************************************************************************)
EXTENDS IpamMappingProofs, TLC

CONSTANTS c1, c2, c3

MCPools == << [base |-> 0, len |-> 1], [base |-> 4, len |-> 2] >>

MCClusterNet ==
    (c1 :> [base |-> 0, len |-> 2]) @@
    (c2 :> [base |-> 0, len |-> 2]) @@
    (c3 :> [base |-> 6, len |-> 2])

MCReserved ==
    { [base |-> 2, len |-> 3], [base |-> 4, len |-> 3], [base |-> 6, len |-> 3] }

\* c1 and c2 advertise the same network, so exchanging them is a symmetry.
MCSymmetry == Permutations({c1, c2})
=============================================================================
