-------------------------- MODULE MCTransferWorker --------------------------
(* One name here and on the server, whose filesystem makes hard links while *)
(* the local one does not.                                                  *)
EXTENDS TransferWorker

ServerPaths == [dir : RemoteDirs, name : Names]
=============================================================================
