------------------------------- MODULE Sources -------------------------------
(***************************************************************************)
(* The catalogue of data sources: for each of them, the choices its        *)
(* impl::evaluate makes inside the protocol that DataSource.tla models.    *)
(*                                                                         *)
(*   guarded     evaluate holds the object's rw_mutex                      *)
(*   eager       the class mutex is taken before the cached check          *)
(*   mode        how the class mutex is taken                              *)
(*   scoped      an exception gives the class mutex back                   *)
(*   exclusive   the object's own "exclusive" flag                         *)
(*   configured  the command (and the hosts) evaluate insists on are set   *)
(*   absent      "no", or where a build without the capability throws:     *)
(*               "before" or "within" the class mutex                      *)
(*   store       collecting overwrites ("assign") or extends ("append")    *)
(*   skips       what the system does not report this time is left alone   *)
(*   marks       when the object is marked collected: with the "last"      *)
(*               part, with the "first" (if its query succeeds, and not    *)
(*               again), or "around" the collection, ahead and after       *)
(*   fails       what else can happen to a collection:                     *)
(*               "quiet"   nothing collected, evaluate returns normally    *)
(*               "stopped" cut short, and the object is marked collected   *)
(*               "throws"  an exception before anything is collected       *)
(*               "breaks"  an exception with part of it collected          *)
(***************************************************************************)

SourceKind ==
  [guarded : BOOLEAN, eager : BOOLEAN, mode : {"shared", "exclusive"},
   scoped : BOOLEAN, exclusive : BOOLEAN, configured : BOOLEAN,
   absent : {"no", "before", "within"},
   store : {"assign", "append"}, skips : BOOLEAN,
   marks : {"last", "first", "around"},
   fails : SUBSET {"quiet", "stopped", "throws", "breaks"}]

\* What the sources have in common.
Plain ==
  [guarded |-> TRUE, eager |-> FALSE, mode |-> "shared", scoped |-> TRUE,
   exclusive |-> FALSE, configured |-> TRUE, absent |-> "no",
   store |-> "assign", skips |-> FALSE, marks |-> "last", fails |-> {}]

-----------------------------------------------------------------------------
(* One system call that fills a struct, or logs an error and leaves it.      *)

stat       == [Plain EXCEPT !.fails = {"quiet"}]
getloadavg == [Plain EXCEPT !.fails = {"quiet"}]
uname      == [Plain EXCEPT !.fails = {"quiet"}]
sysinfo    == [Plain EXCEPT !.fails = {"quiet"}]
sysconf    == Plain

\* Field by field: a field whose query fails keeps its old value.
getcpuid  == [Plain EXCEPT !.skips = TRUE]
sysctl    == [Plain EXCEPT !.skips = TRUE]
getrlimit == [Plain EXCEPT !.skips = TRUE, !.marks = "first"]

\* A map that only ever gains or replaces keys.
environment == [Plain EXCEPT !.skips = TRUE, !.fails = {"quiet"}]
udev        == [Plain EXCEPT !.skips = TRUE, !.fails = {"quiet", "throws"}]

\* A list that evaluate only pushes to.
\* The test for a failed count compares the size of the buffer, a product, with
\* -1 and never holds: the loop then runs not once, and the object is marked.
getfsstat == [Plain EXCEPT !.store = "append", !.fails = {"quiet", "stopped"}]
getmntent == [Plain EXCEPT !.store = "append", !.skips = TRUE,
                           !.fails = {"quiet", "stopped"}]
pciaccess == [Plain EXCEPT !.store = "append", !.fails = {"quiet", "throws"}]
umad      == [Plain EXCEPT !.store = "append", !.skips = TRUE,
                           !.fails = {"quiet", "throws"}]
nvml      == [Plain EXCEPT !.store = "append", !.skips = TRUE,
                           !.fails = {"quiet", "throws", "breaks"}]

\* The same, and its evaluate never touches the rw_mutex.  What two threads
\* make of the list when they meet in it is undefined, so a behaviour is only
\* followed up to that state.
pciutils == [Plain EXCEPT !.store = "append", !.guarded = FALSE,
                          !.fails = {"quiet", "throws"}]

-----------------------------------------------------------------------------
(* Commands.  A local one takes the class mutex by hand, in the mode its     *)
(* flag asks for; a remote one takes it shared whatever the flag says.  The  *)
(* parts of a local command are its two output streams, which grow by what   *)
(* is read; those of a remote one are its hosts, one list entry each, also   *)
(* for a host that could not be reached.                                     *)

shell_command(exclusive) ==
  [Plain EXCEPT !.scoped = FALSE, !.exclusive = exclusive,
                !.mode = IF exclusive THEN "exclusive" ELSE "shared",
                !.store = "append", !.fails = {"stopped"}]

remote_shell_command(exclusive) ==
  [Plain EXCEPT !.eager = TRUE, !.exclusive = exclusive, !.store = "append",
                !.marks = "around"]

\* The sources built on shell_command; none overrides evaluate.
ps     == shell_command(TRUE)
stream == shell_command(TRUE)
mpirun == shell_command(FALSE)
osu_micro_benchmarks == mpirun

-----------------------------------------------------------------------------
(* The same source in another build or configuration.                        *)

\* Most sources throw from the #else branch, before they lock the class
\* mutex; getcpuid and the shell commands throw from a helper called under it.
Absent(kind, where) == [kind EXCEPT !.absent = where]

\* A command source whose command (or host list) is empty.
Unconfigured(kind) == [kind EXCEPT !.configured = FALSE]
=============================================================================
