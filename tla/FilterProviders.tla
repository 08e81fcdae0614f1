-------------------------- MODULE FilterProviders --------------------------
(***************************************************************************)
(* The simple filters of tcpdumpw (tcpdumpw/pkg/filter and main.go): every *)
(* provider turns its setting into a clause of the kernel's BPF filter and *)
(* adds it to the packet filter of the workers.                            *)
(*                                                                         *)
(* main asks the providers for their filters when it starts, and so does   *)
(* every engine when it starts (providePcapFilter), while the workers of   *)
(* engines that run already read the packet filter: what Get adds to it is *)
(* therefore a sequence of steps.                                          *)
(*                                                                         *)
(* A setting is a record: l3, l4, ports and flags are sets of tokens, empty*)
(* when the setting is "" or ALL; nets and ips are the prefixes, in their  *)
(* order, and the addresses of ipv4 and ipv6, where ALL stands for one     *)
(* prefix of each family, marked all; hosts is what the resolver answers.  *)
(***************************************************************************)
EXTENDS PacketFilter, FiniteSets, Functions

CONSTANTS MaxRounds  \* bound: Gets of the providers (main is the first, then
                     \* every engine, one at a time)

NetTokens == [fam : Families, n : 0..Size[0] - 1, len : 0..Width, all : BOOLEAN]
Settings == [l3 : SUBSET STRING, l4 : SUBSET STRING, ports : SUBSET Int, flags : SUBSET STRING,
             nets : Seq(NetTokens), ips : SUBSET Addrs, hosts : Seq(Addrs)]

\* Sequences one after the other, and the sequences of the elements of a set.
Chained(seqs) ==
  LET upto[i \in 0..Len(seqs)] == IF i = 0 THEN <<>> ELSE upto[i - 1] \o seqs[i]
  IN upto[Len(seqs)]
Orderings(S) == Bijection(1..Cardinality(S), S)

\* Tokens that the providers do not know.
Unknown == {"other"}

\* l3: arp has a BPF clause but nothing in the packet filter.
L3Filters(setting) == setting.l3 \cap {"ip4", "ip6"}
L4Filters_NoUDP(setting) == setting.l4 \ (Unknown \cup {"udp"})
L4Filters(setting) == setting.l4 \ Unknown

\* ports: what does not parse (a negative token) is 0, what is too large the largest port, since
\* the condition that should reject them accepts an error.
PortOf(token) ==
  IF token < 0 THEN 0 ELSE IF token > MaxPort THEN MaxPort ELSE token
PortFilters(setting) == {PortOf(t) : t \in setting.ports}

\* flags: unknown ones are not added.
FlagFilters(setting) == setting.flags \ Unknown

\* getIPsAndNETs: ALL matches everything but is not added to the packet filter.
Net(prefix) == [fam |-> prefix.fam, n |-> prefix.n, len |-> prefix.len]
Ranges(setting) ==
  Chained([j \in DOMAIN setting.nets |->
             IF setting.nets[j].all THEN <<>> ELSE <<Net(setting.nets[j])>>])
IPs(setting) == setting.ips \cup Range(setting.hosts)

\* An address is dropped by the first network that contains it; until then
\* every network of the loop adds it to the packet filter, in whatever order
\* the set that holds the addresses has that time.
Left(setting, j) == {a \in IPs(setting) : \A i \in 1..j : ~ContainsAddr(setting.nets[i], a)}
Orders(setting) ==
  LET J == DOMAIN setting.nets
      any == UNION {Orderings(Left(setting, j)) : j \in J}
  IN {orders \in [J -> any] : \A j \in J : orders[j] \in Orderings(Left(setting, j))}

AsHosts(addrs) == [i \in DOMAIN addrs |-> Host(addrs[i])]

\* What one Get of the IP provider adds, in order: the networks, what the
\* resolver answered, and, once per network, the addresses that are left.
Additions(setting, orders) ==
  Ranges(setting) \o AsHosts(setting.hosts)
    \o Chained([j \in DOMAIN orders |-> AsHosts(orders[j])])

\* The other providers only add to sets: adding again changes nothing.
WithSets(f, setting) ==
  [f EXCEPT !.l3 = @ \cup L3Filters(setting), !.l4 = @ \cup L4Filters(setting),
            !.ports = @ \cup PortFilters(setting), !.flags = @ \cup FlagFilters(setting)]

-----------------------------------------------------------------------------
\* The BPF filter: the conjunction of the providers' clauses.  A packet without
\* IP may be ARP, one without ports ICMP, and the byte that the clause for flags
\* reads in other IPv6 packets may have any value: all of these are accepted.

\* A clause with a token that libpcap rejects fails the engine's start (names
\* of services, which it would look up, are left out).
Compiles(setting) ==
  /\ setting.ports \subseteq 0..MaxPort
  /\ FlagFilters(setting) # {} => setting.flags \cap Unknown = {}

L3Clause(setting, k) ==
  LET known == setting.l3 \ Unknown
  IN known # {} => IF k.l3 = "ip" THEN IPProto(k.src.fam) \in known ELSE "arp" \in known
L4Clause(setting, k) ==
  LET known == setting.l4 \ Unknown
  IN known # {} => IF k.l4 # "none" THEN k.l4 \in known
                   ELSE k.l3 = "ip" /\ known \cap {"icmp", "icmp6"} # {}
PortsClause(setting, k) ==
  setting.ports # {} => k.l4 # "none" /\ {k.sport, k.dport} \cap setting.ports # {}
FlagsClause(setting, k) ==
  FlagFilters(setting) # {} =>
    \/ k.l4 = "tcp" /\ k.flags \cap setting.flags # {}
    \/ k.l4 # "tcp" /\ k.l3 = "ip" /\ k.src.fam = 6
\* host and net match either end.
IPClause(setting, k) ==
  (setting.nets # <<>> \/ IPs(setting) # {}) /\ k.l3 = "ip" =>
    \E a \in {k.src, k.dst} :
      a \in IPs(setting) \/ \E i \in DOMAIN setting.nets : ContainsAddr(setting.nets[i], a)

BPFAccepts(setting, k) ==
  /\ Compiles(setting)
  /\ L3Clause(setting, k) /\ L4Clause(setting, k) /\ PortsClause(setting, k)
  /\ FlagsClause(setting, k) /\ IPClause(setting, k)

-----------------------------------------------------------------------------
VARIABLES setting,  \* the simple filters, fixed
          filter,   \* the packet filter
          todo,     \* what the running Get still has to add
          rounds,   \* Gets that were started
          added     \* history: networks that were added

providerVars == <<setting, filter, todo, rounds, added>>

\* main has asked the providers, and so has the first engine.
Serving == rounds > 2 \/ (rounds = 2 /\ todo = <<>>)

InitProviders(settings) ==
  /\ setting \in settings
  /\ filter = NewPcapFilters /\ todo = <<>> /\ rounds = 0 /\ added = {}

\* appendFilter, Apply: all providers are asked; the IP provider's set of
\* addresses has any order.
StartGet ==
  /\ todo = <<>> /\ rounds < MaxRounds
  /\ rounds' = rounds + 1
  /\ filter' = WithSets(filter, setting)
  /\ \E orders \in Orders(setting) : todo' = Additions(setting, orders)
  /\ UNCHANGED <<setting, added>>

\* AddIPv4Ranges, AddIPv4s and their IPv6 counterparts.
AddNext ==
  /\ todo # <<>>
  /\ LET p == Head(todo)
     IN /\ filter' = [filter EXCEPT !.nets[p.fam] = AddNetwork(@, p)]
        /\ added' = added \cup {p}
  /\ todo' = Tail(todo)
  /\ UNCHANGED <<setting, rounds>>

\* AllowSocket, DenySocket: an update of the process filter.
SocketUpdate(c) ==
  /\ rounds > 1
  /\ filter' \in {DenySocket(filter, c), AllowSocket(filter, c)}
  /\ UNCHANGED <<setting, todo, rounds, added>>

-----------------------------------------------------------------------------
\* Properties

\* The tree answers as the set of the networks it was given would: an allowed
\* address is in one of them, and, when they are disjoint, every address of
\* every one is allowed, in whatever order and however often they were added,
\* also while a further engine adds them again.
AllowedIsAdded ==
  \A a \in Addrs :
    /\ AllowsIP(filter, a) => \E p \in added : ContainsAddr(p, a)
    /\ Disjoint({p \in added : p.fam = a.fam}) =>
         \A p \in added : ContainsAddr(p, a) => AllowsIP(filter, a)
=============================================================================
