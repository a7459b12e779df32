------------------------------- MODULE MNParams -------------------------------
(* The parameters of the deterministic masternode list. *)
EXTENDS Integers

CONSTANTS
  Activation,              \* the height of UPGRADE_V6_0, the first with a list
  DISK_SNAPSHOT_PERIOD     \* blocks between two snapshots of the list

ASSUME ParamsAssumption ==
  /\ Activation \in Nat \ {0}
  /\ DISK_SNAPSHOT_PERIOD \in Nat \ {0}

\* ProcessBlock writes a snapshot of the list at height h, made from a list of height oldHeight.
WritesSnapshot(h, oldHeight) == h % DISK_SNAPSHOT_PERIOD = 0 \/ oldHeight = -1
==============================================================================
