----------------------------- MODULE DefaultIface -----------------------------
(***************************************************************************)
(* GetDefaultIfaceName and DeleteIFaceByIndex of pkg/liqonet/utils.go      *)
(* against the kernel's IPv4 routing table, which other agents change      *)
(* meanwhile: routes are added and removed, and links (the gateway's       *)
(* tunnel interfaces) are created and deleted, taking their routes along.  *)
(*                                                                         *)
(* GetDefaultIfaceName reads the table (RouteList) and then looks the link *)
(* up (LinkByIndex): two kernel calls, between which the table may change. *)
(* A route is abstracted to its destination (a model value, or NilDst for  *)
(* a default route, whose Dst is nil) and its link index.                  *)
(***************************************************************************)
EXTENDS Naturals, Sequences, SequencesExt

CONSTANTS
    Links,      \* link indices the kernel may have (positive naturals: never 0)
    Dsts,       \* destinations of non-default routes
    NilDst,     \* the nil Dst of a default route (not in Dsts)
    MaxRoutes   \* bound on the table's length

Route == [dst : Dsts \cup {NilDst}, link : Links]

\* The zero value of netlink.Route: Dst nil, LinkIndex 0.
ZeroRoute == [dst |-> NilDst, link |-> 0]

\* A result of GetDefaultIfaceName: an error, or the name of link l.
Err == [status |-> "err", link |-> 0]
Iface(l) == [status |-> "ok", link |-> l]

VARIABLES
    links,     \* the kernel's links
    routes,    \* the kernel's IPv4 routes, in the order RouteList returns them
    pc,        \* GetDefaultIfaceName: idle, or listed (between its two calls)
    snapshot,  \* the routes RouteList returned
    answer     \* the last result (status none before the first call)

vars == <<links, routes, pc, snapshot, answer>>

Init ==
    /\ links = Links
    /\ routes = <<>>
    /\ pc = "idle"
    /\ snapshot = <<>>
    /\ answer = [status |-> "none", link |-> 0]

-----------------------------------------------------------------------------
\* The loop at lines 146-151: route keeps the value of the last iteration,
\* which is the first route with a nil Dst if there is one, else the last
\* route, else (no routes) the zero route.
DefaultRoute(rs) ==
    LET i == SelectInSeq(rs, LAMBDA r : r.dst = NilDst)
    IN  IF i # 0 THEN rs[i] ELSE IF rs = <<>> THEN ZeroRoute ELSE rs[Len(rs)]

\* Lines 142-145: RouteList; its error is returned.
RouteList ==
    /\ pc = "idle"
    /\ \/ pc' = "listed" /\ snapshot' = routes /\ UNCHANGED answer
       \/ answer' = Err /\ UNCHANGED <<pc, snapshot>>
    /\ UNCHANGED <<links, routes>>

\* Lines 152-157: LinkByIndex of the route the loop ended on fails for an
\* index with no link (0, or a link deleted since RouteList).
LinkByIndex ==
    /\ pc = "listed"
    /\ LET l == DefaultRoute(snapshot).link
       IN  answer' = IF l \in links THEN Iface(l) ELSE Err
    /\ pc' = "idle"
    /\ UNCHANGED <<links, routes, snapshot>>

\* DeleteIFaceByIndex: LinkByIndex, then LinkDel; the kernel drops the
\* link's routes with it.  For a missing link the error is returned.
DeleteIFaceByIndex(l) ==
    /\ l \in links
    /\ links' = links \ {l}
    /\ routes' = SelectSeq(routes, LAMBDA r : r.link # l)
    /\ UNCHANGED <<pc, snapshot, answer>>

\* Other agents: a link is created, a route through an existing link is
\* added, a route is removed.
LinkAdd(l) ==
    /\ l \notin links
    /\ links' = links \cup {l}
    /\ UNCHANGED <<routes, pc, snapshot, answer>>

RouteAdd(r) ==
    /\ Len(routes) < MaxRoutes
    /\ r.link \in links
    /\ routes' = Append(routes, r)
    /\ UNCHANGED <<links, pc, snapshot, answer>>

RouteDel(i) ==
    /\ routes' = RemoveAt(routes, i)
    /\ UNCHANGED <<links, pc, snapshot, answer>>

Next ==
    \/ RouteList
    \/ LinkByIndex
    \/ \E l \in Links : DeleteIFaceByIndex(l) \/ LinkAdd(l)
    \/ \E r \in Route : RouteAdd(r)
    \/ \E i \in 1 .. Len(routes) : RouteDel(i)

Spec == Init /\ [][Next]_vars

-----------------------------------------------------------------------------
\* Route i of a table is a default route.
IsDefault(rs, i) == rs[i].dst = NilDst

HasDefault(rs) == \E i \in 1 .. Len(rs) : IsDefault(rs, i)

IfaceIsDefault ==
    pc = "idle" /\ answer.status = "ok" =>
        \E i \in 1 .. Len(snapshot) :
            IsDefault(snapshot, i) /\ answer.link = snapshot[i].link
=============================================================================
