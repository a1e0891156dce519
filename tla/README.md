# A specification of wassail

wassail is a C++ library of building blocks for checks of a system's health:
*data sources* collect facts about a machine and cache them, *checks* compare
the JSON of a data source with a reference, and *results* say what came of it,
as a tree.  Programs call it from as many threads as they like
(`src/samples/c++/dump-async.cpp` evaluates every source in a thread of its
own), so most of what is hard about it is in the locks around the caches, in
the process that a command is run in, and in the results of checks that are
made in parallel or with an object that has been used before.

This directory holds TLA+ modules translated from the source, the TLC
configurations that check small instances of them, and proofs, checked by
TLAPS, of the main safety properties for every instance.

- [The system](#the-system)
- [The modules](#the-modules)
- [The runs](#the-runs)
- [What the code does not keep](#what-the-code-does-not-keep)
- [The proofs](#the-proofs)
- [What is not modelled](#what-is-not-modelled)
- [Plan](#plan)

## The system

| Component | Source (`src/…`) | State | Operations | What makes it correct |
| --- | --- | --- | --- | --- |
| data source protocol | `include/wassail/data/data.hpp`, `src/data/data.cpp`, `evaluate` and `to_json` of each source | per object: `rw_mutex`, `collected_`, the data; one `common::mutex` for all | `evaluate(force)`, the JSON cast, construction from JSON | a cast never sees half a collection; data is collected once unless forced; an exclusive source runs alone; every lock comes back on every way out |
| local commands | `src/data/shell_command.cpp` | pipes, child process, output, time | `popen3` | all output is there; a command is killed only when its time is over, then with everything it started; the call ends |
| remote commands | `src/data/remote_shell_command.cpp` | per host an ssh session with its clock; a list with an entry for each host | `evaluate`, `ssh` | as data source; one entry per host, with all the host said; nothing is cut short early |
| `mpirun`, `osu_micro_benchmarks`, `ps`, `stream` | `src/data/…` | that of a local command | the command line, the parsing of its output | the inner timeout comes before the outer one |
| factory | `src/data/factory.cpp`, `from_json` of each source | the object made of a request | `data::evaluate(json)` | the answer is of this request, and is its data or one collection |
| rules engine and checks | `src/checks/…` | the list of rules of a check object | `add_rule`, `check(json)` | the verdict is about the JSON that was passed, and nothing else |
| parallel check | `src/checks/misc/shell_output.cpp`, `src/internal.hpp` | a result under construction | `for_each`, `add_child`, `propagate` | no host is lost, the worst decides |
| result tree | `src/common/result.cpp`, `include/wassail/result.hpp` | children, issue, priority | `add_child`, `flat_children`, `max_issue`, `max_priority`, `propagate` | the maxima range over all descendants |
| logging, initialization | `src/common` | spdlog's registry | | |
| python bindings, samples | `src/python`, `src/samples` | none of their own | | |

How they interact.  A check called with a data source evaluates it and casts
it to JSON; a check called with JSON only reads.  All data sources share one
`std::shared_timed_mutex`: each takes it shared while it collects, a command
whose `exclusive` flag is set takes it exclusively, so that a benchmark is not
disturbed.  Inside that, each object has its own `rw_mutex`, exclusive for
`evaluate` and shared for the cast.  The order is always object first, class
second.  `shell_output` on the JSON of a remote command fans out over the hosts
with `for_each`, which is libdispatch, TBB, the standard library's parallel
policy or a plain loop, depending on the build.  The remote command itself has
used the same `for_each` to open its sessions, whose entries meet in one list
under `data_mutex`.  The factory makes an object of a JSON request, evaluates it
and casts it back; `samples/c++/dump.cpp` and `check.cpp`, piped together, hand
what it answers to the checks.

What is hard about it, and to test: two callers of one object meeting at the
cached check; a failure in the middle of a collection with both locks held; a
command that closes its streams, outlives its shell or ignores its signal; two
commands whose children inherit each other's pipes; an ssh session whose command
ends, or whose time runs out, between two reads; a source that fails without a
word and still has JSON; a check object that is used twice; an iteration of the
parallel check that throws.  `PROJECT.json` lists
these hazards at their lines, with the properties that cover them.

## The modules

| Module | Extends, or instantiates | Proofs | Checked as |
| --- | --- | --- | --- |
| `DataSource` | `Sources`, `SharedMutex` | `DataSourceSafety` | `MCDataSource` |
| `DataSourceRefinement` | `DataSource`; `CachedData`, which it implements | `DataSourceRefinementProof`, on `DataSourceSafety` | `MCDataSource` |
| `Factory` | `Sources` | `PipelineProof` | `MCPipeline` |
| `Checks` | `CheckRules` | `PipelineProof` | `MCChecks`, `MCPipeline` |
| `Pipeline` | `Factory`, `Checks` | `PipelineProof` | `MCPipeline` |
| `ShellCommand` | | `ShellCommandProof` | `MCShellCommand` |
| `RemoteShell` | `HostEntries` | `RemoteShellProof` | `MCClusterCheck` |
| `ShellOutput` | `HostEntries`, `Severity` | `ShellOutputProof` | `MCClusterCheck` |
| `ClusterCheck` | `RemoteShell`, `ShellOutput` | `ClusterCheckProof`, on the two above | `MCClusterCheck` |
| `ResultTree` | `Severity` | `ResultTreeProof` | `MCResultTree` |

Every `MC…` module extends the module of its name and gives the constants
small values; a cfg `X_run.cfg` belongs to `MCX.tla`.  `Pipeline` and
`ClusterCheck` are compositions, and their runs check the properties of the
parts and of the whole in one state space.

### SharedMutex

`std::shared_timed_mutex` as operators on a record: the exclusive owner, and
the number of shared ownerships of each thread.  The count matters, because a
thread may leave a call without giving its share back and take another.
External to the repository.

### Sources and DataSource

`DataSource` is the protocol all sources follow, with one action for each step
of `evaluate` and `to_json` that another thread can see: taking the object's
lock, the cached check, taking the class mutex, storing one part of the data,
`evaluate_common`, and every way out.  A thread is a program counter, the object
of its call, and the local variables of the call.

| Label | Between |
| --- | --- |
| `writer` | the call of `evaluate` and `unique_lock writer(rw_mutex)` |
| `check` | holding it, before `if (force or not d.collected())` |
| `lock` | before the class mutex is taken |
| `collect` | collecting, `part` is the next part to be stored |
| `leave` | class mutex given back, `rw_mutex` not yet |
| `reader`, `copy` | the same two for `to_json` |

The sources differ in few ways, which `Sources` lists for each one: whether it
takes its `rw_mutex` at all, whether it takes the class mutex before or after
the cached check, whether an exception gives that mutex back, whether a
collection overwrites or extends the data, when the object is marked as
collected, and how a collection may fail.  `Absent(kind, where)` is the same
source in a build without the capability it needs, `Unconfigured(kind)` a
command without a command line.

The data itself is abstracted to parts that hold the numbers of the collections
whose results are in them, which is what the properties tell apart: `<<2>>`
after collection 2 has overwritten the part, `<<1, 2>>` when it was appended.
`Relock` is the one step whose meaning the standard leaves open (locking a mutex
the thread already owns); it has the outcomes the build can produce.
`evaluate_common` asks for the host name and would throw if that failed, which
it does not do with the buffer it has; the model leaves this out.

The operators commented `Wrong:` belong to no specification.  They are what the
definition behind them would be after a plausible mistake, and `PROJECT.json`
names for each property one that it catches.

### CachedData and DataSourceRefinement

`CachedData` says what a source promises without a word about locks: one cached
value per object, answered and replaced in one step, sampled at most once per
call and only if there is none or the caller insists, and each sample newer
than the last.  `DataSourceRefinement` maps `DataSource` to it.  A sample counts
from the step that stores its last part, and JSON whose parts do not belong
together is mapped to a value that no object ever has.  `Value`, `Known` and
`Answers` are the mapping.

### ShellCommand

`popen3` step by step, one thread per command.  The child processes, the pipes
and the clock are the environment: a shell, perhaps a process it leaves in the
background, may write, close its streams and end at any moment.  A pipe is a
number of chunks, a process the set of write ends it holds; a spawned child
inherits every write end that is open in the process at that moment.  `poll` is
given seconds where it takes milliseconds, so it returns at once or soon, and
the model lets it return at any time with what is there.

### HostEntries and RemoteShell

`HostEntries` has the hosts, and what becomes of a vector to which the
iterations of a `for_each` add an entry each: `push_back` is two steps, finding
the end and writing there (`PushBackAt`), so that two of them at once would lose
an entry.  It serves the list of a `remote_shell_command` and the children that
`shell_output::check` adds to its result.

`RemoteShell` is one evaluation of a `remote_shell_command`.  `for_each` starts
a session for each host; a session is a label that stands for a place in `ssh`:

| Label | In `remote_shell_command.cpp` |
| --- | --- |
| `connect`, `auth`, `exec` | up to the request, each of which may throw, and the authentication may be denied |
| `look` | the time is read at the top of the loop (line 185) |
| `out`, `err` | the two inner read loops |
| `test` | behind them: end of file, or the test of `while` |
| `kill`, `exit` | the signal, and the wait for the exit status |
| `lock`, `push` | `push_back` of the entry under `data_mutex`, in two steps |

The loop ends when `elapsed` reaches the timeout and the signal is sent when it
has passed it, so time is `before`, `at` or `after` its end.  The hosts in
`Exact` are those whose clock may be read just at the end.  The commands, their
streams and libssh are the environment: a read that finds nothing returns 0, the
channel is at its end when the remote side closed it and all has been read, and
any call throws if the host is not reached or the connection is lost.  A command
may end at any time or never, whether it was sent the signal or not: the comment
at `remote_shell_command.cpp:225` says that signals do not work reliably.

### Factory

`data::evaluate` of a JSON object, one request after the other.  `from_json` may
throw, which goes to the caller; `evaluate` may refuse, collect, find the object
collected because the request had data, fail with an exception (answered with a
null) or fail without one; the cast may throw as well.  Which of these a source
can do is what `Sources` says of its kind, so the protocol of `DataSource` and
the factory use one catalogue.  A datum records which collection it is from, 0
for the zeros of an object that never was collected.  `Collection` is what one
collection may put into an object: one datum, or for a remote command one for
each of `NumHosts` hosts, that of a host without output being zeros.  An answer
may be sent back as the next request.

### CheckRules and Checks

`Checks` is a check object that is handed one JSON object after the other.  Each
call of `check` recognizes the source's name, adds its rules, and then applies
all rules the object has.  `CheckRules` is the catalogue of checks: which rules
each adds for which source, which of them look at a local variable of the call,
and where the call reads the value itself, outside the engine's `try`.  A rule
whose local variable is gone may answer anything.  The disk checks have no rules
and search a list of file systems in the call itself.  `shell_output` of a remote
command applies the rules to each entry of a list and propagates the worst
(`CheckHosts`, in one step; the iterations by themselves are `ShellOutput`).
Which check it is is chosen in `Init`, and `Uses` says how often it is used.

### Pipeline

Checks that are handed either any JSON or the last answer of the factory.
`Seen` is what a check makes of an answer: which keys are there, and whether the
value it looks at meets its reference, for each host if there is a list of them.
`lenient` says whether the reference of
this check is one that zeros, or no output at all, also meet.

### ResultTree, Severity

`result::add_child`, `flat_children`, the maxima and `propagate` on the acyclic
graphs a program can build.  `Flat` and `MaxOf` are translated from the code,
`Below` and `Worst` are the reference they are compared with.  Both sides of
this comparison are recursive functions, not `RECURSIVE` operators, so that the
proofs can follow them.

### ShellOutput

`shell_output::check` for a remote command: an iteration for each host, whose
`push_back` is two steps (finding the end of the vector, writing there) under
the mutex, the exceptions of iterations, and `propagate`.  Which hosts are
malformed, and whether an exception in an iteration ends the program, as it does
with two of the four `for_each`, is chosen in `Init`.

### ClusterCheck

`shell_output::check` of the object itself: `evaluate` (`RemoteShell`), the
cast, and the check of the cast (`ShellOutput`), where the result of each
iteration is now the comparison of what the host's session read with what is
expected: the set of outputs that meet it, one for a plain text, any set for a
regex, none for what `std::regex` does not take.  `ShellOutput` alone, on any
JSON, is the other half of `ClusterInit`.

## The runs

| Run | Instance | What it shows |
| --- | --- | --- |
| `sources` | 2 threads, 2 calls each, `nvml`, `remote_shell_command`, and an exclusive `shell_command` in a build without it | readers block, the exclusive command is alone, a cast is of one instant, nothing is collected twice though one source looks at the cache late, the object's lock comes back however a collection fails, even when the class mutex is lost |
| `structs` | 2 threads, 2 calls each, `sysconf`, `stat`, and `uname` in a build without it | `ImplementsCachedData`, `ForcedReplacesCache` |
| `calls_end` | 2 threads, 1 call each, `stream`, an unconfigured `remote_shell_command`, and `nvml`, which may throw half way | every call ends, the class mutex is given back |
| `command` | 2 commands, one of which closes its streams | output complete, nothing killed early, while each inherits the other's pipes |
| `ends` | 1 command with a background process, 2 chunks, 2 units of time | output complete, nothing survives a kill, the wait is bounded, the command ends |
| `checks` | every check of the catalogue, on any JSON or on what the factory answered to 2 requests for any of 14 sources, one of which the build lacks, remote commands with 2 hosts; checks whose rules capture nothing local used up to 3 times | the verdict is of the data passed; an answer is of its own request, and what is sent back comes back as it is; no issue means that something was measured, on every host if there are several, with the two exceptions the property names |
| `tree` | 4 results with up to 2 children | the maxima, which `propagate` copies, are the worst descendants |
| `hosts` | 2 hosts, with any JSON (malformed or not, exceptions passed on or not) or evaluated over ssh first, the clock of one of them perhaps read at the very end; 4 expectations: no output, the one chunk, either, and what is no regex | no entry or host is lost or doubled, nothing is cut short early, the worst decides, no result without a malformed host, no issue only if every host said what was expected, the check ends unless it waits for a command that does not |

**Bounds.**  Two threads are the least that can meet in the locks, and each
object of a run stands for another way to take them.  Two parts are the least
that can be torn.  `MaxCalls` bounds the calls of a thread: one call is enough
for the properties of overlapping calls, two are needed where a call leaves
something behind (a cache, a leaked lock).  Two commands are the least that can
inherit each other's pipes, and for that the second need not write; one chunk of
output is enough to be lost with its stream, two to be left in a pipe after a
read; `Timeout` is one or two units of time, so that a look at the clock can
come before, at and after its end.  Three uses of a check object let a rule of
the first meet the third.  Two requests are the least that let an answer be sent
back, or follow one that failed; the 14 sources have every combination of
failures, ways to store data and needs that the 22 have.  A check of answers is
not called more often than requests were made, since a further call would be of
an answer it has already seen.  Four results make a tree of depth three and a
result with two parents.  Two hosts let two sessions or iterations overlap in
their lists, and are the least of which one can differ from the rest; one chunk
is enough to be left behind in a stream, and to tell an expectation from no
output.  The standard error, which no rule looks at, is empty there.

**Fairness.**  `DataSource!FairSpec` has weak fairness of the steps of each
thread's current call: threads are scheduled, but a waiting thread has no claim
to the mutex if it is taken again and again, and nobody has to make a call.
`ShellCommand!FairSpec` has weak fairness of each thread and of the clock, and
none of the commands: nothing makes a program write or end.
`ClusterFairSpec` has weak fairness of each session as long as it can go on
(`Proceed`), of each clock and iteration and of the caller.  It has none of the
remote commands, which need not write or end, signalled or not, and none of lost
connections.  So the check need not end either, and `CheckEnds` says when it
does not: some session waits for the exit status of a command that goes on, and
that command was signalled, closed its streams, or met the clock at the very end
(`WaitsForEver`).  Without any one of these three the property does not hold.
What it rules out is a session that waits for something else, a command past its
time that is not signalled, and one host that holds up the check for ever
although its command is over.

**Deadlock** is checked except in `sources`, where threads do wait for ever for
the class mutex that a call has kept.  In the other runs only a state in which
all calls have been made and have ended may be the last (`Done`).

**Symmetry** is used for the threads of `sources` and for the results of `tree`,
which have equal roles; no run with a liveness property uses it.  The hosts of
`hosts` differ.

## What the code does not keep

Four runs end in a violation.  Each checks one property on the model of the code
as it is, and the property states what a comment, a doc or a test of the
repository says.

| Run | What happens |
| --- | --- |
| `pciutils` | `pciutils::impl::evaluate` does not take its `rw_mutex`, so a cast or a second evaluation overlaps with it |
| `forced` | sources that append keep their old data in a forced evaluation |
| `stubborn` | `SIGKILL` is only sent if sending `SIGTERM` fails, so a command that ignores `SIGTERM` is waited for for ever |
| `reused` | a rule of an earlier `check` call looks at a variable of that call |

The models have more behaviour of this sort, which no run is about.  It is why
the instances above are what they are, and they would not pass without the limit
named here:

- A remote command marked `exclusive` takes the class mutex shared all the same
  (`remote_shell_command.cpp:117`): `ExclusiveRunsAlone` is of local commands.
- Without `posix_spawn`, `popen3` throws between `lock()` and `unlock()`
  (`shell_command.cpp:100`), and later evaluations of any source wait for ever:
  `calls_end` has no such command.
- A command that closes both output streams and runs on is waited for without a
  limit (`shell_command.cpp:277`): `WaitIsBounded` and `EveryCommandEnds` are of
  commands that keep them open.
- A child keeps the write ends of another command's pipes if it was spawned in
  between (`shell_command.cpp:142`), and that command then ends with its
  timeout, killed or not: no property says when a stream hangs up.
- A remote command is neither read further nor signalled if the clock is read
  when `elapsed` equals the timeout (`remote_shell_command.cpp:219,224`), and
  `getExitStatus` then waits for it without a limit, as it does for one that
  closes its streams and runs on, or does not heed the signal: the three cases
  of `CheckEnds`.  The inner read loops do not look at the time at all: `Says`
  bounds what a command writes.
- The comment at `include/wassail/data/data.hpp:65` says that `evaluate` throws
  if the source is not enabled, but most sources only throw in the branch that
  collects (`getloadavg.cpp:58,77`): an object made from JSON with data
  evaluates without an exception in a build that cannot collect any.  `DataSource` has this branch, and no property says otherwise.
- The comment at `include/wassail/data/data.hpp:155` promises `nullptr` on
  error, but sources that fail with a log line answer with JSON that holds
  zeros: the second disjunct of `AnswerIsOfThisRequest`.  `getloadavg`'s zero
  load then passes `load_average`: the exception `NoIssueMeansMeasured`
  names.  An expected output that is empty passes for a host that was never
  reached: `NoIssueMeansEveryHostSaidIt` speaks of what is expected if it is not
  empty.
- A read error of `getmntent` is only looked for when an entry came
  (`getmntent.cpp:104`), so a list cut short counts as collected.
- `mpirun`'s cushion of 10 seconds wraps in 8 bits (`mpirun.cpp:42`), and its
  command line is appended to when it is made twice.
- The write end of the child's standard input is never closed
  (`shell_command.cpp:284`), and a failed `pipe` leaves the earlier ones open:
  no property speaks of the descriptors left over.

## The proofs

All proofs are of the modules the runs check, for every value of their
constants: any number of threads, objects, commands, hosts, results and calls.
They use the assumptions named in those modules (finite sets where the code has
them, bounds that are natural numbers, a kind of source for every object), and
in a few theorems a condition on the kinds of sources, which is discussed below.
Every property of a passing run is the subject of a theorem, except the three
that rest on fairness.

### Data sources

- `DataSourceSafety` proves `TypeCorrect`, action by action, and then what the
  two locks do.  `RwInv`: the threads that own an object's `rw_mutex`
  exclusively are exactly those inside an `evaluate` of a guarded source, those
  with a share exactly those inside a cast, with one share each, and an owner
  excludes the shares of all others.  The properties are not inductive without
  it, since none of them mentions the lock.  From it follow
  `RwMutexAlwaysGivenBack` for every source, and `ReadersBlock` where every
  source is guarded, which is all of them but `pciutils`.
  `JsonAlwaysOneInstant` adds that whatever changes the data holds the lock the
  cast shares.  `NeverCollectedTwice` needs a further invariant: from the cached
  check to the start of the collection nobody else can have marked the object.
- For the class mutex there are two invariants.  With any sources only one
  direction holds (`MutexInv`): a collecting thread owns the mutex in the mode
  of its source, but a thread may own it and collect nothing, after a call that
  threw.  `ExclusiveAlwaysAlone` needs no more, and holds for sources whose flag
  chooses the mode, all but `remote_shell_command`.  Where no source throws
  between `lock()` and `unlock()` (`GivesBack`), the owners are exactly the
  collecting threads (`MutexExact`), hence `ClassMutexAlwaysGivenBack`.
- `DataSourceRefinementProof` is about sources that overwrite what they hold.
  `StoredInv`: all parts a collection has passed hold its number and nothing
  else, so a forced evaluation leaves nothing older
  (`ForcedAlwaysReplacesCache`).  `StructsImplementCachedData` proves the
  refinement of `CachedData`, initial states and each step: `RefInv` collects
  what the mapping rests on, among it that only an object that is being written
  is torn and nothing in it is newer than the last collection (`DataInv`), that
  a collection under way is still called for and newer than what it replaces
  (`CallInv`, `CheckInv`), and that there are no more collections than calls
  that may have made one (`CountInv`).

### Commands

- `ShellCommandProof`: the properties of `popen3` are of its end, and the
  invariant carries what makes them true from the loop to there.  Once no
  process has the write end of a stream, nobody will have it again, since a
  child only inherits what this process or its parent has (`HungUpStays`).  So
  what `poll` reported as hung up still is (`Reported`), and behind the last
  reads nothing can be written any more (`Whole`, with `Conserved`).  The time a
  decision rests on is never ahead of the clock (`Timely`), and a killed shell
  forks no more (`Dead`).  Hence `NoOutputLost`, `NoneKilledEarly` and
  `NothingLeftBehind`, for any number of commands that inherit each other's
  pipes. `WaitsForTheLivingOnlyInTime` assumes that no command is in the
  constant `Silent`, which is exactly the limit named above: a shell that runs
  then holds its streams (`Holding`), so they have not hung up, and the loop was
  left by a kill.
- `RemoteShellProof`: the same for a session.  A command that closed its streams
  writes no more, so a session that ended with the end of the file still has
  everything (`Heard`), which `ClusterCheckProof` needs; the time it looked at is
  not ahead of its clock (`Clocks`, `NothingCutShortEarly`); a command writes nothing before it was requested (the
  invariant `Silent` of this module); the entries are the sessions that are
  done, each once, though `push_back` is two steps (`Entries`), and `evaluate`
  returns when all are (`EveryHostListed`, by a bijection of the list and the
  hosts).

### Results and checks

- `ShellOutputProof`: an iteration inside `push_back` holds the mutex alone and
  its end of the vector is still the end (`Pushing`), so the children are the
  finished iterations, each once (`Tree`); an iteration is only cancelled when
  another threw (`Failing`), so behind `for_each` all are finished (`Joined`).
  From this `EveryHostReported`, `NoHostIgnored` and `WorstHostAlwaysDecides`.
- `ClusterCheckProof` composes this with `RemoteShellProof`.  The invariants of
  the sessions and of the iterations hold side by side, because no step of one
  half changes a variable of the other (`BothKept`), and `Judged` connects them:
  no iteration makes a result before `evaluate` has returned, no session moves
  after it, so the result is the comparison of all that the host's session ever
  read.  This gives `NoIssueAlwaysMeansEveryHostSaidIt`, with no further
  hypothesis.
- `ResultTreeProof`: `MaximaAlwaysWorst`, for any finite number of results. `Flat` recurs into each child, `Below` adds one
  level after the other; they meet because a level is also what is below the
  children at the level before (`FromTheChildren`), so that what `Flat` gathers
  are the results of a level (`FlatHasAllBelow`). Each level adds a result or is
  the last that does, so the last of as many levels as there are results adds
  nothing (`LastAddsNothing`). `Largest` follows `std::max_element` along the
  sequence. The functions are recursive, so each is first shown to exist
  (`Recursion`). The library's induction theorems take an operator as a
  parameter, which the provers cannot instantiate; `Induct` states the principle
  for a set of numbers and is proved from `WFMin`, which takes sets.

### Factory and pipeline

`PipelineProof` proves four theorems about the composition.

- `AnswerAlwaysOfItsRequest`: an object about to be evaluated is the one
  `from_json` made of the present request, and an object about to be cast has
  its name, and its data or what one collection made of it (`FactoryInv`).
- `ChecksTypeCorrect`: the catalogue is well formed, check by check
  (`CatalogueWellFormed`), so the rules and what they are applied to keep their
  types.
- `VerdictAlwaysOfThisData`: when a call has added its rules, all of them are
  among those the object has, those kept from earlier calls are the same, and
  one that looks at a local variable is of this call (`RulesOf`, by
  `RulesAdded`, with `KeptRules`).  Such rules make of an entry what the verdict
  on it says and nothing else (`GivesVerdict`; that some rule is the first that
  is not obeyed is `FirstDisobeyed`, from `WFMin`).  Those passed over were true
  (`Applying`), so this decides a call that applies the rules step by step, and
  for a list of hosts each entry, of which `Worst` is taken on both sides
  (`HostsKeep`).
- `NoIssueAlwaysMeansMeasured`: the verdict is about the answer that was handed
  over (`Handed`) and about nothing else, so what a check that finds no issue
  saw, the first entry or that of every host, did meet its reference.

### Assumptions, and what is left to TLC

Some theorems assume something of the sources or commands of the instance.
These conditions are what separates those that keep a property from those that
do not.

| Condition | Met by | Otherwise |
| --- | --- | --- |
| `AllGuarded` | all sources but `pciutils` | the run `pciutils` |
| `FlagChoosesMode` | all but `remote_shell_command` with its flag set | [first limit](#what-the-code-does-not-keep) |
| `GivesBack` | all but local commands in a build without `posix_spawn` | second limit |
| `Overwrites` | `stat`, `getloadavg`, `uname`, `sysinfo`, `sysconf` | the run `forced` |
| `Structs` | the same five, in any build | the cache is extended, or marked before it is complete |
| `Silent = {}` (`ShellCommand`) | commands that keep their streams open | third limit |
| `UsedAsMeant` | checks whose rules look at no local variable, used as often as `Uses` says, and the others used once | the run `reused` |

Only model-checked is what rests on fairness: `EveryCallEnds`,
`EveryCommandEnds` and `CheckEnds`.  Liveness needs
`ENABLED`, which is out of the prover's reach.

## What is not modelled

- What a source collects, field by field, the JSON it becomes, and the parsing
  of the output of `ps`, `stream`, `mpirun` and the OSU benchmarks.
- The text of `mpirun`'s command line and its 8-bit timeout, the arithmetic of
  the disk checks, and a file system unmounted between the two calls of
  `getfsstat`: planned below.
- JSON of a remote command without its key `data`, which `shell_output.cpp:50`
  reads with the `operator[]` of a constant, undefined for a missing key.
- The return code a command leaves in an object whose next command fails.
- `from_json` into an object other threads already use.  The library calls it
  only on an object it has just made.
- A change of a source's public members (`command`, `exclusive`, `timeout`)
  during a call.
- Pipes that are full: a command that waits for room in a pipe behaves like one
  that is slow.
- `match_issue` and `match_priority`, logging, `initialize`, the bindings, the
  samples beyond the environments they give the models.
- Vendored code: `include/wassail/json` and `include/wassail/fmt` (some 40000
  lines of headers), Catch, and the OSU benchmarks.  Beside it the repository's
  own code is some 12000 lines, most of which are the fields the sources copy.

## Plan

1. Done: the protocol of the data sources with its abstract specification;
   local and remote commands; the factory; the rules engine, and the checks on
   what the factory answers; the result tree; the parallel check, on JSON and of
   hosts; the safety proofs above.
2. Done: a theorem for every safety and action property the runs check, and for
   the refinement of `CachedData`.  Left: a refinement of the remote check by
   one step (every host was asked, compared and counted), and `CachedData` for
   the sources that append, where it holds as long as nobody forces them.
3. `Mpirun` (the command line made twice, the 8-bit timeout) and
   `DiskArithmetic` (products that wrap, a division by zero), each against the
   arithmetic meant.  `MountTable`: the two calls of `getfsstat` with a mount in
   between.
