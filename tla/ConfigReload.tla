---------------------------- MODULE ConfigReload ----------------------------
(***************************************************************************)
(* ConfigManager (src/telemetry_config.cpp): a thread looks at the         *)
(* modification time of the configuration file now and then and, when it   *)
(* has changed, reads the file and calls on_reload, which main lets apply  *)
(* the settings to the pipeline (src/main.cpp:71).  Nothing keeps others   *)
(* from writing, truncating or removing the file between two of its looks. *)
(*                                                                         *)
(* A definition named Op_Something is Op with a mistake in it.  No action  *)
(* uses it: it is there to show that the properties would notice.          *)
(***************************************************************************)
EXTENDS Integers

CONSTANTS
    Settings,  \* contents that parse and pass validate
    Defaults,  \* ConfigLoader::defaults(), used when there is no file
    Invalid,   \* contents that do not, such as a file that is half written
    Absent,    \* no file
    LastTime   \* bound of the modification times

ASSUME ConfigAssumption ==
    /\ Defaults \in Settings
    /\ Invalid \notin Settings /\ Absent \notin Settings \cup {Invalid}
    /\ LastTime \in Nat

VARIABLES
    file,        \* the contents of the file
    time,        \* and its modification time
    distinct,    \* history: the last change of the file changed its time
    applied,     \* the settings in force
    running, control,
    watcher,     \* where the thread is
    last_write,  \* its local
    loaded       \* what from_file has returned to it

vars == <<file, time, distinct, applied, running, control, watcher, last_write, loaded>>

Never == -1

\* main has loaded the file once before it starts the thread.
Init ==
    /\ file \in Settings /\ time = 0 /\ distinct = TRUE
    /\ applied = file
    /\ running = FALSE /\ control = "created"
    /\ watcher = "done" /\ last_write = Never /\ loaded = Defaults

-----------------------------------------------------------------------------
(* The file.  Clocks are coarse: a change may leave the time as it was.    *)

Change ==
    /\ \E f \in Settings \cup {Invalid, Absent} : f # file /\ file' = f
    /\ \/ time < LastTime /\ time' = time + 1 /\ distinct' = TRUE
       \/ UNCHANGED time /\ distinct' = FALSE
    /\ UNCHANGED <<applied, running, control, watcher, last_write, loaded>>

-----------------------------------------------------------------------------
(* The thread.                                                             *)

Goto(from, to) == watcher = from /\ watcher' = to

WatcherUnchanged == <<file, time, distinct, running, control>>

CheckRunning ==
    /\ Goto("check", IF running THEN "exists" ELSE "done")
    /\ UNCHANGED <<WatcherUnchanged, applied, last_write, loaded>>

Exists ==
    /\ Goto("exists", IF file = Absent THEN "sleep" ELSE "last_write_time")
    /\ UNCHANGED <<WatcherUnchanged, applied, last_write, loaded>>

\* Where an exception thrown in the loop takes the thread.
Caught_Not == "done"

Caught == "sleep"

\* last_write_time, which throws if the file is gone, and the comparison.
LastWriteTime ==
    /\ \/ file = Absent /\ Goto("last_write_time", Caught) /\ UNCHANGED last_write
       \/ file # Absent /\ time = last_write /\ Goto("last_write_time", "sleep") /\ UNCHANGED last_write
       \/ file # Absent /\ time # last_write /\ Goto("last_write_time", "from_file") /\ last_write' = time
    /\ UNCHANGED <<WatcherUnchanged, applied, loaded>>

\* ConfigLoader::from_file: without a file, the defaults...
FromFile ==
    /\ Goto("from_file", IF file = Absent THEN "on_reload" ELSE "read")
    /\ loaded' = IF file = Absent THEN Defaults ELSE loaded
    /\ UNCHANGED <<WatcherUnchanged, applied, last_write>>

\* ... with one, what it says, unless it cannot be opened or is no good.
Read ==
    /\ IF file \in Settings
       THEN Goto("read", "on_reload") /\ loaded' = file
       ELSE Goto("read", Caught) /\ UNCHANGED loaded
    /\ UNCHANGED <<WatcherUnchanged, applied, last_write>>

\* main's callback: pipeline.update_runtime_config.
OnReload ==
    /\ Goto("on_reload", "sleep")
    /\ applied' = loaded
    /\ UNCHANGED <<WatcherUnchanged, last_write, loaded>>

Wake ==
    /\ Goto("sleep", "check")
    /\ UNCHANGED <<WatcherUnchanged, applied, last_write, loaded>>

Watcher == CheckRunning \/ Exists \/ LastWriteTime \/ FromFile \/ Read \/ OnReload \/ Wake

-----------------------------------------------------------------------------
(* start and stop.                                                         *)

\* A new thread, which knows of no earlier reading.
Start ==
    /\ control \in {"created", "stopped"} /\ control' = "started"
    /\ running' = TRUE /\ watcher' = "check" /\ last_write' = Never
    /\ UNCHANGED <<file, time, distinct, applied, loaded>>

StopBegins ==
    /\ control = "started" /\ control' = "joining"
    /\ running' = FALSE
    /\ UNCHANGED <<file, time, distinct, applied, watcher, last_write, loaded>>

\* As if the thread were detached.
Joinable_Not == TRUE

Joinable == watcher = "done"

Join ==
    /\ control = "joining" /\ Joinable /\ control' = "stopped"
    /\ UNCHANGED <<file, time, distinct, applied, running, watcher, last_write, loaded>>

Next == Change \/ Watcher \/ Start \/ StopBegins \/ Join

SafeSpec == Init /\ [][Next]_vars

\* The thread runs.  Nobody has to change the file, to start or to stop.
Spec == SafeSpec /\ WF_vars(Watcher)

-----------------------------------------------------------------------------
(* Whatever states the file went through, half written or removed among    *)
(* them: once it stays at good settings, and its last change gave it a new *)
(* modification time, these settings come into force and stay.             *)
ConvergesToFile ==
    \A s \in Settings :
        <>[](control = "started" /\ file = s /\ distinct) => <>[](applied = s)

(* Nothing is applied once stop has returned: what the callback refers to  *)
(* may be gone by then.                                                    *)
StopIsFinal == [][control = "stopped" => UNCHANGED applied]_vars

=============================================================================
