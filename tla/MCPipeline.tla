----------------------------- MODULE MCPipeline -----------------------------
(* An instance of Pipeline: every check of the catalogue, and a source for    *)
(* each way an evaluation may go.                                            *)
EXTENDS Pipeline

SafeUses ==
  [core_count |-> 1, physical_size |-> 1, permissions |-> 1,
   load_average |-> 1, environment |-> 3, shell_output |-> 3,
   amount_free |-> 3, percent_free |-> 3]

SomeNames ==
  {"sysconf", "sysctl", "sysinfo", "stat", "getloadavg", "environment",
   "getfsstat", "getmntent", "shell_command", "remote_shell_command", "mpirun",
   "ps", "pciaccess", "nvml"}

\* Linux has no sysctl.
NoSysctl == {"sysctl"}
=============================================================================
