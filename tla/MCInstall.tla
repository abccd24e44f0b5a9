----------------------------- MODULE MCInstall -----------------------------
(* Two downloads and two uploads, one of each to a place that takes links.  *)
EXTENDS Install
=============================================================================
