----------------------------- MODULE CheckRules -----------------------------
(***************************************************************************)
(* The catalogue of checks: for each check, the data sources whose JSON it *)
(* recognizes, and the rules a call of check() adds for them, in order.    *)
(*                                                                         *)
(* A rule tests that a key is there, or that the value meets the           *)
(* reference.  It captures a local variable of check() by reference, or    *)
(* finds all it needs in the JSON it is given and in the check itself.     *)
(***************************************************************************)
EXTENDS Naturals

KeyNames == {"nprocessors_onln", "core_count", "mode", "load", "fscale",
             "loads_scale", "variable", "stdout"}

KeyRule(key)    == [tests |-> "key", key |-> key, captures |-> FALSE]
ValueRule       == [tests |-> "value", captures |-> FALSE]

\* The same, by way of a local variable.
LocalKeyRule(key) == [tests |-> "key", key |-> key, captures |-> TRUE]
LocalValueRule    == [tests |-> "value", captures |-> TRUE]

\* "reads" are the numbers of rules a call has added when it reads a value
\* itself, outside the rules: to capture it, or only to report it.  "matches"
\* says that a value may be matched against a regular expression, "searches"
\* that check() looks for an entry of a list itself and adds no rule.
core_count ==
  [adds |-> [sysconf |-> <<LocalKeyRule("nprocessors_onln"), LocalValueRule>>,
             sysctl  |-> <<LocalKeyRule("core_count"), LocalValueRule>>],
   reads |-> {2}, matches |-> FALSE, searches |-> FALSE]

physical_size ==
  [adds |-> [n \in {"sysconf", "sysctl", "sysinfo"} |-> <<LocalValueRule>>],
   reads |-> {0}, matches |-> FALSE, searches |-> FALSE]

permissions ==
  [adds |-> [stat |-> <<KeyRule("mode"), LocalValueRule>>],
   reads |-> {0, 2}, matches |-> FALSE, searches |-> FALSE]

\* The key depends on the minutes configured; one stands for all three.
load_average ==
  [adds |-> [getloadavg |-> <<KeyRule("load"), LocalValueRule>>,
             sysctl     |-> <<KeyRule("fscale"), LocalValueRule>>,
             sysinfo    |-> <<KeyRule("loads_scale"), LocalValueRule>>],
   reads |-> {1}, matches |-> FALSE, searches |-> FALSE]

environment ==
  [adds |-> [environment |-> <<KeyRule("variable"), ValueRule>>],
   reads |-> {2}, matches |-> TRUE, searches |-> FALSE]

shell_output ==
  [adds |-> [n \in {"shell_command", "remote_shell_command"} |->
               <<KeyRule("stdout"), ValueRule>>],
   reads |-> {2}, matches |-> TRUE, searches |-> FALSE]

\* The first of the file systems that is mounted where the check looks.
amount_free ==
  [adds |-> [n \in {"getfsstat", "getmntent"} |-> <<>>],
   reads |-> {0}, matches |-> FALSE, searches |-> TRUE]

percent_free == amount_free

\* The sources whose JSON is a list; the rules are applied to each entry.
PerHost == {"remote_shell_command"}

Catalogue ==
  [core_count    |-> core_count,
   physical_size |-> physical_size,
   permissions   |-> permissions,
   load_average  |-> load_average,
   environment   |-> environment,
   shell_output  |-> shell_output,
   amount_free   |-> amount_free,
   percent_free  |-> percent_free]
=============================================================================
