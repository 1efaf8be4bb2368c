---------------------------- MODULE ConfigProofs ----------------------------
(***************************************************************************)
(* Proofs about ConfigReload, for any settings and any clock.              *)
(***************************************************************************)
EXTENDS ConfigReload, TLAPS

\* Before start and after stop there is no thread.
Joined == control \in {"created", "stopped"} => watcher = "done"

LEMMA JoinedNext ==
    ASSUME Joined, [Next]_vars
    PROVE  Joined'
<1>1. CASE Change
  BY <1>1 DEF Change, Joined
<1>2. CASE Watcher
  <2>1. watcher # "done"
    BY <1>2 DEF Watcher, Goto, CheckRunning, Exists, LastWriteTime, FromFile, Read,
                OnReload, Wake
  <2>2. control' = control
    BY <1>2 DEF Watcher, WatcherUnchanged, CheckRunning, Exists, LastWriteTime, FromFile,
                Read, OnReload, Wake
  <2> QED
    BY <2>1, <2>2 DEF Joined
<1>3. CASE Start
  BY <1>3 DEF Start, Joined
<1>4. CASE StopBegins
  BY <1>4 DEF StopBegins, Joined
<1>5. CASE Join
  BY <1>5 DEF Join, Joinable, Joined
<1>6. CASE UNCHANGED vars
  BY <1>6 DEF vars, Joined
<1> QED
  BY <1>1, <1>2, <1>3, <1>4, <1>5, <1>6 DEF Next

\* Only the thread applies settings.
LEMMA NothingIsAppliedByOthers ==
    ASSUME Joined, [Next]_vars, control = "stopped"
    PROVE  UNCHANGED applied
<1>1. CASE Watcher
  <2>1. watcher = "done"
    BY DEF Joined
  <2> QED
    BY <1>1, <2>1 DEF Watcher, Goto, CheckRunning, Exists, LastWriteTime, FromFile, Read,
                      OnReload, Wake
<1>2. CASE Change \/ Start \/ StopBegins \/ Join \/ UNCHANGED vars
  BY <1>2 DEF Change, Start, StopBegins, Join, vars
<1> QED
  BY <1>1, <1>2 DEF Next

\* However the file changes and however often the manager is started and
\* stopped: once stop has returned, no settings are applied.
THEOREM StoppedAppliesNothing == SafeSpec => StopIsFinal
<1>1. Init => Joined
  BY DEF Init, Joined
<1>2. Joined /\ [Next]_vars => Joined'
  BY JoinedNext
<1>3. Joined /\ [Next]_vars => [control = "stopped" => UNCHANGED applied]_vars
  BY NothingIsAppliedByOthers
<1> QED
  BY <1>1, <1>2, <1>3, PTL DEF SafeSpec, StopIsFinal

=============================================================================
