----------------------------- MODULE PacketLog -----------------------------
(***************************************************************************)
(* What a transformer promises about the outputs of an interface: a log per*)
(* writer, which grows by one captured packet at a time, never twice by the*)
(* same, never by one that is filtered out, not after the cancellation,    *)
(* and, if order is preserved, by the packets one after the other.         *)
(***************************************************************************)
EXTENDS Integers, Sequences

CONSTANT Writers

VARIABLES ordered,    \* order is preserved
          rejected,   \* packets that are filtered out
          captured,   \* serial of the last packet captured
          cancelled,  \* the context is done
          log         \* [Writers -> what the writer was given]

vars == <<ordered, rejected, captured, cancelled, log>>

Logged(w) == {log[w][i] : i \in DOMAIN log[w]}

Init == captured = 0 /\ cancelled = FALSE /\ log = [w \in Writers |-> <<>>]

Capture == captured' = captured + 1 /\ UNCHANGED <<ordered, rejected, cancelled, log>>

Cancel == ~cancelled /\ cancelled' = TRUE /\ UNCHANGED <<ordered, rejected, captured, log>>

Write(w, p) ==
  /\ ~cancelled
  /\ p \notin Logged(w) \cup rejected
  /\ ordered => p = Len(log[w]) + 1
  /\ log' = [log EXCEPT ![w] = Append(@, p)]
  /\ UNCHANGED <<ordered, rejected, captured, cancelled>>

Next == Capture \/ Cancel \/ \E w \in Writers, p \in 1..captured : Write(w, p)

Spec == Init /\ [][Next]_vars
=============================================================================
