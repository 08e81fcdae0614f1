---------------------------- MODULE PacketFilter ----------------------------
(***************************************************************************)
(* The packet filter that the translation workers apply                    *)
(* (packet_filter.go), as operators on a record of its fields, and the     *)
(* verdict of a worker on a packet (translator_worker.go).                 *)
(*                                                                         *)
(* Networks are kept in a B-tree ordered by ipLessThan, which takes        *)
(* prefixes that overlap for equal: looking an address up and replacing an *)
(* equal item are the same search.  The tree is the sequence of its items; *)
(* up to three of them, that is one node of degree 2, the search below is  *)
(* the library's step by step (MaxItems bounds the instances).             *)
(***************************************************************************)
EXTENDS Integers, Sequences

CONSTANTS Width,     \* bits of an address (32 and 128 in the code)
          Families,  \* address families, 4 and 6
          MaxPort    \* largest port (65535 in the code)

ASSUME FilterAssumption == Width \in Nat /\ Families \subseteq {4, 6} /\ MaxPort \in Nat

\* netip: how many addresses a prefix of some length has.
Size[len \in 0..Width] == IF len = Width THEN 1 ELSE 2 * Size[len + 1]

Addrs == [fam : Families, n : 0..Size[0] - 1]
Networks == [fam : Families, n : 0..Size[0] - 1, len : 0..Width]
MaxItems == 3

\* The first len bits of an address; prefixes keep their host bits.
Masked(n, len) == n \div Size[len]
ContainsAddr(p, a) == p.fam = a.fam /\ Masked(p.n, p.len) = Masked(a.n, p.len)
Overlaps(p, q) ==
  LET len == IF p.len < q.len THEN p.len ELSE q.len
  IN p.fam = q.fam /\ Masked(p.n, len) = Masked(q.n, len)
Disjoint(ps) == \A p, q \in ps : p # q => ~Overlaps(p, q)
Host(a) == [fam |-> a.fam, n |-> a.n, len |-> Width]

-----------------------------------------------------------------------------
\* The tree of networks

IpLessThan_Address(p, q) == p.n < q.n
IpLessThan(p, q) == ~Overlaps(p, q) /\ p.n < q.n

\* The binary search of a node: the number of items before the first one that
\* is greater, as far as the items are in order.
Position(items, p) ==
  LET search[r \in (0..Len(items)) \X (0..Len(items))] ==
        LET mid == (r[1] + r[2]) \div 2
        IN IF r[1] >= r[2] THEN r[1]
           ELSE IF IpLessThan(p, items[mid + 1]) THEN search[<<r[1], mid>>]
           ELSE search[<<mid + 1, r[2]>>]
  IN search[<<0, Len(items)>>]

\* The item found is the one before that position, unless it is smaller.
Found(items, p) ==
  LET i == Position(items, p) IN i > 0 /\ ~IpLessThan(items[i], p)

\* addNetwork: an equal item is replaced, whatever its length.
AddNetwork_Inserts(items, p) ==
  LET i == Position(items, p)
  IN SubSeq(items, 1, i) \o <<p>> \o SubSeq(items, i + 1, Len(items))
AddNetwork(items, p) ==
  LET i == Position(items, p)
  IN IF Found(items, p) THEN [items EXCEPT ![i] = p]
     ELSE SubSeq(items, 1, i) \o <<p>> \o SubSeq(items, i + 1, Len(items))

-----------------------------------------------------------------------------
\* The filter and its queries

\* NewPcapFilters
NewPcapFilters ==
  [nets |-> [f \in Families |-> <<>>], l3 |-> {}, l4 |-> {}, ports |-> {},
   noPorts |-> {}, flags |-> {}, noSockets |-> {}]

\* hashUint64s: the sum of the hashes of both ends, so that the direction does
\* not matter; an address hashes to HashOf, its port is added.
HashOf(a) == (a.n + 1) * 8 * (MaxPort + 1) + a.fam
SocketHash(a, p, b, q) == (HashOf(a) + p) + (HashOf(b) + q)

\* DenySocket and AllowSocket, from the two ends of a connection.
DenySocket(f, c) == [f EXCEPT !.noSockets = @ \cup {SocketHash(c.src, c.sport, c.dst, c.dport)}]
AllowSocket(f, c) == [f EXCEPT !.noSockets = @ \ {SocketHash(c.src, c.sport, c.dst, c.dport)}]

AllowsIP(f, a) == Found(f.nets[a.fam], Host(a))
AllowsAnyL4Addr_Second(f, src, dst) == f.ports = {} \/ dst \in f.ports
AllowsAnyL4Addr(f, src, dst) ==
  {src, dst} \cap f.noPorts = {} /\ (f.ports = {} \/ {src, dst} \cap f.ports # {})
AllowsSocket(f, a, p, b, q) == SocketHash(a, p, b, q) \notin f.noSockets

-----------------------------------------------------------------------------
\* The worker's verdict.  A packet has l3 ("ip" or "none"), and with it src and
\* dst; l4 ("tcp", "udp" or "none"), and with it sport, dport and flags.

IPProto(fam) == IF fam = 4 THEN "ip4" ELSE "ip6"

\* isIPv4Allowed, isIPv6Allowed: both ends must be allowed.
AddrsAllowed(f, k) ==
  f.nets[k.src.fam] # <<>> => AllowsIP(f, k.src) /\ AllowsIP(f, k.dst)

IsL3Allowed(f, k) ==
  k.l3 = "ip" => (f.l3 # {} => IPProto(k.src.fam) \in f.l3) /\ AddrsAllowed(f, k)

\* Flags are asked of TCP only; without TCP and UDP everything is allowed.
IsL4Allowed(f, k) ==
  k.l4 # "none" =>
    /\ f.l4 # {} => k.l4 \in f.l4
    /\ k.l4 = "tcp" /\ f.flags # {} => k.flags \cap f.flags # {}
    /\ f.ports # {} \/ f.noPorts # {} => AllowsAnyL4Addr(f, k.sport, k.dport)

IsSocketAllowed(f, k) ==
  k.l3 = "ip" /\ k.l4 # "none" => AllowsSocket(f, k.src, k.sport, k.dst, k.dport)

ShouldTranslate(f, k) == IsL3Allowed(f, k) /\ IsL4Allowed(f, k) /\ IsSocketAllowed(f, k)
=============================================================================
