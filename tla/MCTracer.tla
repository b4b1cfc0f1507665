------------------------------ MODULE MCTracer ------------------------------
(* Instances of Tracer for TLC.                                            *)
EXTENDS Tracer

Files == {"src", "lib", "store"}
NotStore == {"src", "lib"}
=============================================================================
