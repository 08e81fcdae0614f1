------------------------- MODULE PacketTranslation -------------------------
(***************************************************************************)
(* What a translation worker promises its transformer: Run answers once,   *)
(* with nothing or with a whole translation.  A whole translation has one  *)
(* entry per layer of the packet, a translation or an error, and none for  *)
(* the layers that are skipped; it is finalized unless the context is done.*)
(***************************************************************************)
VARIABLES kinds,      \* the layers of the packet: known, unknown or skipped
          cancelled,  \* the context is done
          outcome     \* the answers of Run: none yet, or one

vars == <<kinds, cancelled, outcome>>

Whole(content) ==
  /\ DOMAIN content = DOMAIN kinds
  /\ \A i \in DOMAIN kinds :
       CASE kinds[i] = "skipped" -> content[i] = "none"
         [] kinds[i] = "unknown" -> content[i] = "error"
         [] kinds[i] = "known"   -> content[i] \in {"ok", "error"}

Init == cancelled = FALSE /\ outcome = {}

Cancel == ~cancelled /\ cancelled' = TRUE /\ UNCHANGED <<kinds, outcome>>

Nothing == outcome = {} /\ outcome' = {<<>>} /\ UNCHANGED <<kinds, cancelled>>

Answer ==
  /\ outcome = {}
  /\ \E content \in [DOMAIN kinds -> {"none", "ok", "error"}] :
       Whole(content) /\ outcome' = {<<content, ~cancelled>>}
  /\ UNCHANGED <<kinds, cancelled>>

Next == Cancel \/ Nothing \/ Answer

Spec == Init /\ [][Next]_vars
=============================================================================
