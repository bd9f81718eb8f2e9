----------------------------- MODULE MCServicePool -----------------------------
(* ServicePool for TLC: three dimensions, one the manifest does not list,     *)
(* three threads.                                                             *)
EXTENDS ServicePool

=============================================================================
