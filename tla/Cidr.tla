-------------------------------- MODULE Cidr --------------------------------
(***************************************************************************)
(* The address space the IPAM engine of pkg/liqonet/ipam.go carves up.     *)
(* A CIDR string "a.b.c.d/m" is abstracted to a record [base, len] over a  *)
(* W-bit address space: each model prefix bit stands for MaskScale real    *)
(* prefix bits, so len l is the real prefix length l * MaskScale.  Blocks  *)
(* are aligned, so containment and overlap behave as for real prefixes.    *)
(***************************************************************************)
EXTENDS Naturals

CONSTANTS
    W,          \* number of address bits in the model
    MaskScale   \* real prefix bits per model prefix bit (8: len 1 is a /8)

ASSUME WAssumption == W \in Nat \ {0}
ASSUME MaskScaleAssumption == MaskScale \in Nat \ {0}

Addr == 0 .. (2^W - 1)

BlockSize(len) == 2^(W - len)

\* The parseable, canonical CIDRs: the base is aligned on the block size.
Cidr == {c \in [base : Addr, len : 0 .. W] : c.base % BlockSize(c.len) = 0}

\* The address set of a CIDR (netaddr.IPPrefix.Range): the addresses that
\* agree with the base on the first len bits.
Block(c) == {a \in Addr : a \div BlockSize(c.len) = c.base \div BlockSize(c.len)}

\* IPSet.ContainsPrefix: every address of a is an address of b.
Inside(a, b) == Block(a) \subseteq Block(b)

\* go-ipam's PrefixesOverlapping test for two prefixes.
Overlaps(a, b) == Block(a) \cap Block(b) # {}

(***************************************************************************)
(* getMask (ipam.go:172-176) takes the last two characters of the CIDR     *)
(* string and parses them as an integer; for a one-digit prefix length the *)
(* two characters are "/d", strconv.ParseInt fails and the result is 0.    *)
(***************************************************************************)
\* Mutation: a prefix length read one too long.
GetMaskOffByOne(c) == IF c.len * MaskScale < 10 THEN 0 ELSE c.len + 1

GetMask(c) == IF c.len * MaskScale < 10 THEN 0 ELSE c.len
=============================================================================
