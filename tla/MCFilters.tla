----------------------------- MODULE MCFilters -----------------------------
(* Instances of TranslatorWorker for TLC: addresses of two bits, one node of
   the tree, four layers of every kind. *)
EXTENDS TranslatorWorker

A4(n) == [fam |-> 4, n |-> n]
A6(n) == [fam |-> 6, n |-> n]
N4(n, len) == [fam |-> 4, n |-> n, len |-> len, all |-> FALSE]
N6(n, len) == [fam |-> 6, n |-> n, len |-> len, all |-> FALSE]

Both == {4, 6}

Open == [l3 |-> {}, l4 |-> {}, ports |-> {}, flags |-> {}, nets |-> <<>>, ips |-> {}, hosts |-> <<>>]
IsNet(token) == "len" \in DOMAIN token
WithTokens(s, h) ==
  [Open EXCEPT !.nets = SelectSeq(s, IsNet), !.ips = {t \in Range(s) : ~IsNet(t)}, !.hosts = h]

All(fam) == [fam |-> fam, n |-> 0, len |-> 0, all |-> TRUE]

\* Settings about addresses: up to three tokens, disjoint or not.
Tokens == {N4(0, 1), N4(3, 1), N4(2, 2), A4(1), A4(2), N6(1, 0)}
IPSettings ==
  {WithTokens(s, h) :
     s \in UNION {[1..n -> Tokens] : n \in 0..2}, h \in {<<>>, <<A4(0)>>}}
  \cup {WithTokens(s, <<>>) : s \in {<<N4(0, 1), N4(3, 1), A4(2)>>, <<A4(0), A4(3), N4(2, 2)>>,
                                   <<N4(2, 2), All(4), All(6)>>}}

\* Settings about everything else.
OtherSettings ==
  {[Open EXCEPT !.l3 = a, !.l4 = b, !.ports = c, !.flags = d] :
     a \in {{}, {"ip4"}, {"arp", "other"}}, b \in {{}, {"tcp", "other"}, {"udp", "icmp"}},
     c \in {{}, {1, 2}, {3, -1, 4}}, d \in {{}, {"syn"}, {"syn", "other"}}}

Pkt(src, dst, l4, sport, dport, flags, layers) ==
  [l3 |-> "ip", src |-> src, dst |-> dst, l4 |-> l4, sport |-> sport, dport |-> dport,
   flags |-> flags, layers |-> layers]

TCP == <<"known", "known", "unknown", "skipped">>
Plain == <<"known">>
NoIP == [l3 |-> "none", src |-> A4(0), dst |-> A4(0), l4 |-> "none", sport |-> 0,
         dport |-> 0, flags |-> {}, layers |-> <<"skipped", "unknown">>]

Scenes ==
  {[setting |-> s, packet |-> Pkt(A4(0), A4(d), "tcp", 1, 3, {"syn"}, Plain)] : s \in IPSettings, d \in {1, 3}}
  \cup {[setting |-> s, packet |-> k] : s \in OtherSettings,
          k \in {Pkt(A4(0), A4(1), "tcp", 1, 3, {"ack"}, Plain), Pkt(A4(0), A4(1), "tcp", 3, 0, {"syn", "ack"}, Plain),
                 Pkt(A6(0), A6(1), "udp", 2, 0, {}, Plain), NoIP}}
  \cup {[setting |-> Open, packet |-> Pkt(A4(0), A4(1), "tcp", 1, 3, {"syn"}, TCP)]}

MayPanic == {"next", "finalize"}

Conn(src, sport, dst, dport) == [src |-> src, sport |-> sport, dst |-> dst, dport |-> dport]
OneConn == {Conn(A4(1), 3, A4(0), 1)}
=============================================================================
