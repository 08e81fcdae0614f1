-------------------------- MODULE MCProcessFilter --------------------------
(* Instances of ProcessFilter for TLC. *)
EXTENDS ProcessFilter

CONSTANTS gcsfuse, gcsdir, c1, slot1, slot2

TwoProcs == {gcsfuse, gcsdir}
OneConn == {c1}
None == {}
TwoSlots == {slot1, slot2}
=============================================================================
