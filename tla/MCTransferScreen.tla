-------------------------- MODULE MCTransferScreen --------------------------
(* A folder, with a file or a symlink, and a server of one or two directories. *)
EXTENDS TransferScreen
=============================================================================
