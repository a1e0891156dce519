---------------------------- MODULE MCDataSource ----------------------------
(* Small instances of DataSource: two or three source objects and the        *)
(* threads that share them.  Each Kind below puts together sources that meet *)
(* in practice.                                                              *)
EXTENDS DataSourceRefinement, TLC

CONSTANTS t1, t2, a, b, c

Two   == {t1, t2}
Pair  == {a, b}
Triple == {a, b, c}

Of(x, y, z) == (a :> x) @@ (b :> y) @@ (c :> z)

\* A list of devices whose collection can fail in every way, a command that
\* fans out over SSH, and an exclusive command in a build that has none.
ListRemoteAndAbsent ==
  Of(nvml, remote_shell_command(FALSE), Absent(shell_command(TRUE), "within"))

\* Sources that overwrite a struct; collecting the first cannot fail, and the
\* last is missing from the build.
Structures == Of(sysconf, stat, Absent(uname, "before"))

\* An exclusive benchmark, a remote command nobody configured, and a device
\* list whose collection may throw, also half way.
BenchmarkAndList ==
  Of(stream, Unconfigured(remote_shell_command(FALSE)), nvml)

\* The PCI device list of libpci, beside a struct.
PciAndStruct == (a :> pciutils) @@ (b :> uname)

\* Two sources that keep what they are pushed.
TwoLists == (a :> shell_command(FALSE)) @@ (b :> pciaccess)

AnyThread == Permutations(Threads)
=============================================================================
