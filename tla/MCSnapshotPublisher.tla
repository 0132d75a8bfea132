------------------------ MODULE MCSnapshotPublisher ------------------------
(* Small instances of SnapshotPublisher. *)
EXTENDS SnapshotPublisher

CONSTANTS p1, a1
=============================================================================
