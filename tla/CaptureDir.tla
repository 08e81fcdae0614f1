----------------------------- MODULE CaptureDir -----------------------------
(***************************************************************************)
(* What tcpdumpw and pcapfsn share: the directory where captures are       *)
(* written, the events of its watcher, the file TCPDUMPW_EXITED, and the   *)
(* lock file /var/lock/pcap.lock.                                          *)
(*                                                                         *)
(* A file is <<k, n>>: the n-th capture of the interface and extension k.  *)
(***************************************************************************)
EXTENDS Integers, Sequences, FiniteSets

CONSTANTS Keys,      \* interface and extension of a series of captures
          MaxFiles   \* captures of a series

ASSUME DirAssumption ==
  IsFiniteSet(Keys) /\ Cardinality(Keys) \in Nat /\ MaxFiles \in Nat \ {0}

Files == Keys \X (1..MaxFiles)

VARIABLES
  src,       \* [Files -> state of the capture in the directory]
  events,    \* events the watcher holds for pcapfsn's event loop
  exitFile,  \* TCPDUMPW_EXITED is in the directory
  lock       \* who holds the lock file

shared == <<src, events, exitFile, lock>>

Exit == <<"TCPDUMPW_EXITED">>

\* The type of what both processes share.
DirTypeOK ==
  /\ src \in [Files -> {"absent", "open", "complete", "deleted"}]
  /\ events \in Seq(Files \cup {Exit})
  /\ exitFile \in BOOLEAN
  /\ lock \in {"free", "tcpdumpw", "pcapfsn"}

DirInit ==
  /\ src = [f \in Files |-> "absent"]
  /\ events = <<>>
  /\ exitFile = FALSE
  /\ lock = "free"

Present(f) == src[f] \in {"open", "complete"}
=============================================================================
