------------------------------- MODULE NetUtils -------------------------------
(***************************************************************************)
(* VerifyNoOverlap of pkg/liqonet/utils.go: whether a new network shares   *)
(* an address with one of a map of subnets.  For each subnet it takes the  *)
(* wider of the two networks (the smaller mask, by bytes.Compare) and asks *)
(* whether it contains the first or the last address of the narrower one  *)
(* (cidr.AddressRange).  Despite its name it returns TRUE on an overlap.   *)
(*                                                                         *)
(* ContainsString and RemoveString of the same file, the helpers for lists *)
(* of names such as an object's finalizers, where a name may appear more  *)
(* than once.  Both are loops over the slice with no side effect,          *)
(* modelled as left folds and checked against SequencesExt.               *)
(***************************************************************************)
EXTENDS Cidr, FiniteSets, Sequences

SeqExt == INSTANCE SequencesExt

\* cidr.AddressRange: the first and the last address of a network.
FirstAddr(c) == c.base
LastAddr(c)  == c.base + BlockSize(c.len) - 1

\* net.IPNet.Contains.
Contains(c, a) == a \in Block(c)

\* Mutation: the narrower network is asked about the wider one's ends.
VerifyNoOverlapSwapped(subnets, newNet) ==
    \E v \in subnets :
        IF v.len <= newNet.len
        THEN Contains(newNet, FirstAddr(v)) \/ Contains(newNet, LastAddr(v))
        ELSE Contains(v, FirstAddr(newNet)) \/ Contains(v, LastAddr(newNet))

VerifyNoOverlap(subnets, newNet) ==
    \E v \in subnets :
        IF v.len <= newNet.len
        THEN Contains(v, FirstAddr(newNet)) \/ Contains(v, LastAddr(newNet))
        ELSE Contains(newNet, FirstAddr(v)) \/ Contains(newNet, LastAddr(v))

\* Lines 80-87: true as soon as an item equals s (the early return only
\* skips the rest of the loop).
ContainsString(slice, s) ==
    SeqExt!FoldLeft(LAMBDA found, item : found \/ item = s, FALSE, slice)

\* Mutation: the loop stops at the first match and keeps the rest as it is.
RemoveStringFirstOnly(slice, s) == SeqExt!RemoveFirst(slice, s)

\* Lines 90-98: every item other than s is appended to result, in order.
RemoveString(slice, s) ==
    SeqExt!FoldLeft(LAMBDA result, item : IF item = s THEN result
                                       ELSE Append(result, item),
                 <<>>, slice)

-----------------------------------------------------------------------------
(***************************************************************************)
(* The inputs: a map of subnets that its owner grows and shrinks, and the  *)
(* network asked about; a slice of names that its owner appends to and    *)
(* removes names from with RemoveString, and the name asked about.         *)
(***************************************************************************)
CONSTANTS
    MaxSubnets,   \* bound on the size of the subnet map
    Names,        \* the strings a slice can hold
    MaxLen        \* bound on the slice's length

ASSUME MaxSubnetsAssumption == MaxSubnets \in Nat /\ MaxLen \in Nat

VARIABLES subnets, newNet, slice, s

utilVars == <<subnets, newNet, slice, s>>

UtilInit ==
    /\ subnets = {}
    /\ newNet \in Cidr
    /\ slice = <<>>
    /\ s \in Names

AddSubnet ==
    /\ Cardinality(subnets) < MaxSubnets
    /\ \E v \in Cidr \ subnets : subnets' = subnets \cup {v}
    /\ UNCHANGED <<newNet, slice, s>>

RemoveSubnet ==
    /\ \E v \in subnets : subnets' = subnets \ {v}
    /\ UNCHANGED <<newNet, slice, s>>

AskAbout ==
    /\ \E n \in Cidr : newNet' = n
    /\ UNCHANGED <<subnets, slice, s>>

AppendName(n) ==
    /\ Len(slice) < MaxLen
    /\ slice' = Append(slice, n)
    /\ UNCHANGED <<subnets, newNet, s>>

RemoveName(n) ==
    /\ slice' = RemoveString(slice, n)
    /\ UNCHANGED <<subnets, newNet, s>>

AskName(n) ==
    /\ s' = n
    /\ UNCHANGED <<subnets, newNet, slice>>

UtilNext ==
    \/ AddSubnet
    \/ RemoveSubnet
    \/ AskAbout
    \/ \E n \in Names : AppendName(n) \/ RemoveName(n) \/ AskName(n)

UtilSpec == UtilInit /\ [][UtilNext]_utilVars

-----------------------------------------------------------------------------
\* The two-endpoint test of VerifyNoOverlap answers exactly whether the new
\* network shares an address with some subnet of the map, for every pair of
\* prefix lengths (equal masks included).
VerifyNoOverlapExact ==
    VerifyNoOverlap(subnets, newNet) <=> \E v \in subnets : Overlaps(v, newNet)

\* ContainsString tells whether s is in the slice, and RemoveString drops
\* every occurrence of s (duplicates included) and keeps the other names
\* in their order, for every slice of up to MaxLen names.
SliceHelpersExact ==
    /\ ContainsString(slice, s) <=> SeqExt!Contains(slice, s)
    /\ RemoveString(slice, s) = SeqExt!Remove(slice, s)
=============================================================================
