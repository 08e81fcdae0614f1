---------------------------- MODULE MCFlowMutex ----------------------------
(***************************************************************************)
(* Instances of FlowMutex for TLC.                                         *)
(***************************************************************************)
EXTENDS FlowMutex, TLC

CONSTANTS p1, p2, p3, s1, s2, t1, t2

Nothing == [s \in Streams |-> None]
Plain(k, r) == [kind |-> k, h2 |-> FALSE, ref |-> r, frames |-> {},
                req |-> Nothing, res |-> Nothing]
Request(s, t, r) == [kind |-> "http", h2 |-> FALSE, ref |-> r, frames |-> {s},
                     req |-> [Nothing EXCEPT ![s] = t], res |-> Nothing]
Response(s, t, r) == [kind |-> "http", h2 |-> FALSE, ref |-> r, frames |-> {s},
                      req |-> Nothing, res |-> [Nothing EXCEPT ![s] = t]]

ThreePackets == {p1, p2, p3}
OneStream == {s1}
TwoStreams == {s1, s2}
TwoTraces == {t1, t2}
SmallRefs == 1..3

\* Any packet of the flow is an HTTP/1.1 request, with or without a trace, its
\* response, an HTTP/2
\* segment with a response on that stream and a request on another one, data
\* that is not HTTP, or a termination.
Frames(s, t, u, r) == [kind |-> "http", h2 |-> TRUE, ref |-> r, frames |-> {s, u},
                       req |-> [Nothing EXCEPT ![s] = t],
                       res |-> [Nothing EXCEPT ![u] = NoHeader]]
AnyOrder ==
  [p \in Packets |->
     {Plain("fin", 3), Plain("opaque", 3), Request(s1, t1, 1), Request(s2, None, 1),
      Response(s1, NoHeader, 2), Frames(s2, t2, s1, 2)}]

\* A request, its response, and one packet more.
RequestResponse(last) ==
  [p \in Packets |-> CASE p = p1 -> {Request(s1, t1, 1)}
                       [] p = p2 -> {Response(s1, NoHeader, 2)}
                       [] p = p3 -> last]
ThenTermination == RequestResponse({Plain("fin", 3)})
ThenRequest == RequestResponse({Request(s1, t2, 3)})

PacketSymmetry == Permutations(Packets)
=============================================================================
