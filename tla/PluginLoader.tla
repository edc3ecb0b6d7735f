---------------------------- MODULE PluginLoader ----------------------------
(***************************************************************************)
(* The mod loader (code/cwml/src/cwml.cpp, built with CWML_HOT_RELOAD):    *)
(* the game's thread loads, opens, updates, closes and unloads plugins; a  *)
(* thread of its own watches their files and asks for a reload, which the  *)
(* game's thread does at the end of a frame.  They share State, WantReload *)
(* and Terminate, without a lock.                                          *)
(*                                                                         *)
(* A plugin's file is a number, greater after every write: what FileStat   *)
(* tells (size and time of the last write) is taken to differ whenever the *)
(* content does.  A write may come in the middle of anything.              *)
(***************************************************************************)
EXTENDS Naturals

CONSTANTS
  NumPlugins,      \* plugins found in the directory, none disabled
  MaxWrites        \* bound: writes of each file once it was found

ASSUME BoundsAssumption == NumPlugins \in Nat \ {0} /\ MaxWrites \in [1 .. NumPlugins -> Nat]

VARIABLES
  pc, i,           \* the game's thread, and the plugin its loop is at
  watch, j,        \* the reload thread, likewise
  terminate,       \* Terminate
  state, prx,      \* State; whether Prx is that of a loaded module
  was, want,       \* WasChangedLastTick, WantReload
  seen,            \* LastModified and LastSize
  file,            \* the file on disk
  version,         \* what the file was when LoadModule last read it
  life             \* which of the plugin's own functions has been called last

gameVars == <<pc, i>>
watchVars == <<watch, j>>
moduleVars == <<state, prx, version, life>>
vars == <<gameVars, watchVars, terminate, moduleVars, was, want, seen, file>>

Plugins == 1 .. NumPlugins

Errors == {"LoadModuleFailed", "StartModuleFailed", "NoSource", "AttachFailed", "VersionMismatch",
           "OpenFailed"}
States == {"Unloaded", "Loaded", "Open"} \union Errors
GameSteps == {"stat", "load", "open", "start", "frame", "update", "test", "clear", "shut",
              "unload", "reload", "reopen", "join", "close", "detach", "stopped"}
WatchSteps == {"none", "top", "look", "stat", "mark", "left"}

\* The next plugin, or what comes after the loop.
Advance(next) ==
  /\ pc' = IF i = NumPlugins THEN next ELSE pc
  /\ i' = IF i = NumPlugins THEN 1 ELSE i + 1

Goto(from, to) == pc = from /\ pc' = to /\ i' = i

Init ==
  /\ pc = "stat" /\ i = 1 /\ watch = "none" /\ j = 1 /\ terminate = FALSE
  /\ state = [p \in Plugins |-> "Unloaded"] /\ prx = [p \in Plugins |-> FALSE]
  /\ was = [p \in Plugins |-> FALSE] /\ want = [p \in Plugins |-> FALSE]
  /\ seen = [p \in Plugins |-> 0] /\ file = [p \in Plugins |-> 1]
  /\ version = [p \in Plugins |-> 0] /\ life = [p \in Plugins |-> "none"]

-----------------------------------------------------------------------------
(* What is done to one plugin.                                             *)

\* LoadModule of a plugin whose State is not an error and that has no Prx:
\* each way it can go.  OnAttach has succeeded only in the last.
LoadModule(p) ==
  /\ version' = [version EXCEPT ![p] = file[p]]
  /\ \E s \in (Errors \ {"OpenFailed"}) \union {"Loaded"} :
       /\ state' = [state EXCEPT ![p] = s]
       /\ prx' = [prx EXCEPT ![p] = s # "LoadModuleFailed"]
       /\ life' = [life EXCEPT ![p] = IF s = "Loaded" THEN "attached" ELSE "none"]

\* OnOpen may fail.
OpenPlugin(p) ==
  /\ IF state[p] # "Loaded"
     THEN UNCHANGED <<state, life>>
     ELSE \/ /\ state' = [state EXCEPT ![p] = "Open"]
             /\ life' = [life EXCEPT ![p] = "open"]
          \/ /\ state' = [state EXCEPT ![p] = "OpenFailed"]
             /\ UNCHANGED life
  /\ UNCHANGED <<prx, version>>

\* OnDetach, for a plugin that has attached.  An error outlives the module.
UnloadModule(p) ==
  /\ prx' = [prx EXCEPT ![p] = FALSE]
  /\ life' = IF prx[p] /\ state[p] \in {"Loaded", "Open", "OpenFailed"}
             THEN [life EXCEPT ![p] = "none"] ELSE life
  /\ state' = IF prx[p] /\ state[p] \notin Errors THEN [state EXCEPT ![p] = "Unloaded"] ELSE state
  /\ UNCHANGED version

-----------------------------------------------------------------------------
(* The game's thread.                                                      *)

\* LoadPlugins looks at the file and then loads it.
StatFirst ==
  /\ Goto("stat", "load")
  /\ seen' = [seen EXCEPT ![i] = file[i]]
  /\ UNCHANGED <<watchVars, terminate, moduleVars, was, want, file>>

LoadFirst ==
  /\ pc = "load"
  /\ pc' = IF i = NumPlugins THEN "open" ELSE "stat"
  /\ i' = IF i = NumPlugins THEN 1 ELSE i + 1
  /\ LoadModule(i)
  /\ UNCHANGED <<watchVars, terminate, was, want, seen, file>>

\* OpenModLoader stops here when the patch must be rebuilt.
NeedsRebuildPatch ==
  /\ i = 1 /\ Goto("open", "frame")
  /\ UNCHANGED <<watchVars, terminate, moduleVars, was, want, seen, file>>

OpenFirst ==
  /\ pc = "open"
  /\ Advance("start")
  /\ OpenPlugin(i)
  /\ UNCHANGED <<watchVars, terminate, was, want, seen, file>>

StartReloadHandler ==
  /\ Goto("start", "frame")
  /\ watch' = "top"
  /\ UNCHANGED <<j, terminate, moduleVars, was, want, seen, file>>

BeginFrame ==
  /\ Goto("frame", "update")
  /\ UNCHANGED <<watchVars, terminate, moduleVars, was, want, seen, file>>

\* PerFrameUpdate: OnUpdate of the open ones; those in error are unloaded.
Update ==
  /\ pc = "update"
  /\ Advance("test")
  /\ IF state[i] \in Errors THEN UnloadModule(i) ELSE UNCHANGED moduleVars
  /\ UNCHANGED <<watchVars, terminate, was, want, seen, file>>

\* CheckReloadFlag.
TestFlag ==
  /\ pc = "test"
  /\ IF want[i] THEN pc' = "clear" /\ i' = i ELSE Advance("frame")
  /\ UNCHANGED <<watchVars, terminate, moduleVars, was, want, seen, file>>

ClearFlag ==
  /\ Goto("clear", "shut")
  /\ want' = [want EXCEPT ![i] = FALSE]
  /\ UNCHANGED <<watchVars, terminate, moduleVars, was, seen, file>>

\* Broken: OnClose is left out.
CloseForReload_Quiet ==
  /\ Goto("shut", "unload")
  /\ state' = IF state[i] = "Open" THEN [state EXCEPT ![i] = "Loaded"] ELSE state
  /\ UNCHANGED <<watchVars, terminate, prx, version, life, was, want, seen, file>>

CloseForReload ==
  /\ Goto("shut", "unload")
  /\ IF state[i] = "Open"
     THEN state' = [state EXCEPT ![i] = "Loaded"] /\ life' = [life EXCEPT ![i] = "closed"]
     ELSE UNCHANGED <<state, life>>
  /\ UNCHANGED <<watchVars, terminate, prx, version, was, want, seen, file>>

UnloadForReload ==
  /\ Goto("unload", "reload")
  /\ UnloadModule(i)
  /\ UNCHANGED <<watchVars, terminate, was, want, seen, file>>

\* The error state is cleared first.  (The module is not loaded: prx is FALSE.)
Reload ==
  /\ Goto("reload", "reopen")
  /\ LoadModule(i)
  /\ UNCHANGED <<watchVars, terminate, was, want, seen, file>>

\* Broken: the flag is cleared once all is done.
Reopen_ClearFlag ==
  /\ pc = "reopen"
  /\ pc' = (IF i = NumPlugins THEN "frame" ELSE "test")
  /\ i' = (IF i = NumPlugins THEN 1 ELSE i + 1)
  /\ OpenPlugin(i)
  /\ want' = [want EXCEPT ![i] = FALSE]
  /\ UNCHANGED <<watchVars, terminate, was, seen, file>>

Reopen ==
  /\ pc = "reopen"
  /\ pc' = (IF i = NumPlugins THEN "frame" ELSE "test")
  /\ i' = (IF i = NumPlugins THEN 1 ELSE i + 1)
  /\ OpenPlugin(i)
  /\ UNCHANGED <<watchVars, terminate, was, want, seen, file>>

\* StopModLoader: CloseReloadHandler, which joins the thread (if there is one)...
Stop ==
  /\ Goto("frame", "join")
  /\ terminate' = TRUE
  /\ UNCHANGED <<watchVars, moduleVars, was, want, seen, file>>

CloseReloadHandler ==
  /\ watch \in {"none", "left"}
  /\ Goto("join", "close")
  /\ UNCHANGED <<watchVars, terminate, moduleVars, was, want, seen, file>>

\* ...ClosePlugins, which leaves them Open...
ClosePlugin ==
  /\ pc = "close"
  /\ Advance("detach")
  /\ life' = IF state[i] = "Open" THEN [life EXCEPT ![i] = "closed"] ELSE life
  /\ UNCHANGED <<watchVars, terminate, state, prx, version, was, want, seen, file>>

\* ...and UnloadPlugins.
UnloadPlugin ==
  /\ pc = "detach"
  /\ Advance("stopped")
  /\ UnloadModule(i)
  /\ UNCHANGED <<watchVars, terminate, was, want, seen, file>>

Game ==
  \/ StatFirst \/ LoadFirst \/ OpenFirst \/ StartReloadHandler
  \/ BeginFrame \/ Update \/ TestFlag \/ ClearFlag \/ CloseForReload \/ UnloadForReload
  \/ Reload \/ Reopen
  \/ CloseReloadHandler \/ ClosePlugin \/ UnloadPlugin

-----------------------------------------------------------------------------
(* ReloadHandler.                                                          *)

TestTerminate ==
  /\ watch = "top"
  /\ watch' = IF terminate THEN "left" ELSE "look"
  /\ UNCHANGED <<gameVars, j, terminate, moduleVars, was, want, seen, file>>

\* The next plugin, or sleep and begin again.
WatchNext ==
  /\ watch' = IF j = NumPlugins THEN "top" ELSE "look"
  /\ j' = IF j = NumPlugins THEN 1 ELSE j + 1

\* Broken: a plugin in error is not looked at.
Look_OpenOnly ==
  /\ watch = "look"
  /\ IF state[j] = "Open" THEN watch' = "stat" /\ j' = j ELSE WatchNext
  /\ UNCHANGED <<gameVars, terminate, moduleVars, was, want, seen, file>>

\* can_reload
Look ==
  /\ watch = "look"
  /\ IF state[j] \in Errors \union {"Open"} THEN watch' = "stat" /\ j' = j ELSE WatchNext
  /\ UNCHANGED <<gameVars, terminate, moduleVars, was, want, seen, file>>

\* A file that has changed is asked for when it has not changed since.
Stat ==
  /\ watch = "stat"
  /\ seen' = [seen EXCEPT ![j] = file[j]]
  /\ was' = [was EXCEPT ![j] = seen[j] # file[j]]
  /\ IF was[j] /\ seen[j] = file[j] THEN watch' = "mark" /\ j' = j ELSE WatchNext
  /\ UNCHANGED <<gameVars, terminate, moduleVars, want, file>>

Mark ==
  /\ watch = "mark"
  /\ want' = [want EXCEPT ![j] = TRUE]
  /\ WatchNext
  /\ UNCHANGED <<gameVars, terminate, moduleVars, was, seen, file>>

Watch == TestTerminate \/ Look \/ Stat \/ Mark

-----------------------------------------------------------------------------

\* Somebody writes the file.
Write(p) ==
  /\ file[p] <= MaxWrites[p]
  /\ file' = [file EXCEPT ![p] = @ + 1]
  /\ UNCHANGED <<gameVars, watchVars, terminate, moduleVars, was, want, seen>>

Next == Game \/ NeedsRebuildPatch \/ Stop \/ Watch \/ \E p \in Plugins : Write(p)

Spec == Init /\ [][Next]_vars

\* Both threads are scheduled and the game goes on drawing frames until it stops.
FairSpec == Spec /\ WF_vars(Game) /\ WF_vars(Watch)

-----------------------------------------------------------------------------
(* Properties.                                                             *)

\* What the fields of LoadedPlugin hold.
TypeOK ==
  /\ pc \in GameSteps /\ i \in Plugins /\ watch \in WatchSteps /\ j \in Plugins /\ terminate \in BOOLEAN
  /\ state \in [Plugins -> States] /\ prx \in [Plugins -> BOOLEAN]
  /\ was \in [Plugins -> BOOLEAN] /\ want \in [Plugins -> BOOLEAN]
  /\ \A p \in Plugins : {seen[p], file[p], version[p]} \subseteq 0 .. MaxWrites[p] + 1
  /\ life \in [Plugins -> {"none", "attached", "open", "closed"}]

\* Through every load, failure, reload and stop: a plugin is opened only when it has
\* attached, and one that was opened is closed before it is detached and never
\* opened again without being attached again.
CallsInOrder ==
  [][\A p \in Plugins :
       \/ life'[p] = life[p]
       \/ <<life[p], life'[p]>> \in {<<"none", "attached">>, <<"attached", "open">>,
            <<"attached", "none">>, <<"open", "closed">>, <<"closed", "none">>}]_vars

\* A version of the file that the reload thread has seen and that is newer than what
\* was loaded is not forgotten, whatever the two threads' unlocked reads and writes
\* of the flags interleave to: one of them says so, or somebody is about to act.
UpdateIsPursued ==
  \A p \in Plugins :
    version[p] < seen[p] =>
      \/ was[p] \/ want[p] \/ (watch = "mark" /\ j = p)
      \/ i = p /\ pc \in {"load", "shut", "unload", "reload"}

\* When the files are no longer written, what is loaded (or was tried last) comes to be
\* what is there, if the reload thread was started and the game does not stop.
FileIsLoaded == <>[](version = file) \/ <>terminate \/ []<>(watch = "none")

=============================================================================
