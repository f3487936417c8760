---------------------------- MODULE MCDockerLogs ----------------------------
(* Small instances of DockerLogs. *)
EXTENDS DockerLogs
=============================================================================
