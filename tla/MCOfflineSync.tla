--------------------------- MODULE MCOfflineSync ---------------------------
(* Small instances of OfflineSync. *)
EXTENDS OfflineSync

\* read_sync_device gives every device the same client_id.
SameClient == [d \in Devices |-> "device"]
=============================================================================
