---------------------------- MODULE MCSigVirtual ----------------------------
(* Instances of SigVirtual: two threads, a JVM's handler and a crash reporter. *)
EXTENDS SigVirtual, TLC

CONSTANTS t1, t2, jvm, reporter
=============================================================================
