---------------------------- MODULE Connections ----------------------------
(* The TCP connections of the Agent.  One stands for its writer, the key   *)
(* under which the code files what belongs to a connection (id(writer)),   *)
(* for the task that serves it, and for the DeviceSession that task makes. *)
CONSTANT Conn
=============================================================================
