----------------------------- MODULE MCSidecar -----------------------------
(* Instances of Sidecar for TLC. *)
EXTENDS Sidecar

CONSTANTS pcap, json

TcpdumpOnly == {pcap}
NoWriter == {}
JsonKeys == {json}

Once == [cron |-> FALSE, late |-> FALSE]
OnceLate == [cron |-> FALSE, late |-> TRUE]
Scheduled == [cron |-> TRUE, late |-> FALSE]

AnyExporter == {Once} \X Exporters
Library == {<<Once, "library">>}
LateOrScheduled == {<<OnceLate, "fuse">>, <<Scheduled, "nil">>}
=============================================================================
