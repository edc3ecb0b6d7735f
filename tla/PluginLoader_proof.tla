------------------------- MODULE PluginLoader_proof -------------------------
(***************************************************************************)
(* Proofs about PluginLoader, for any number of plugins and of writes: the *)
(* types, that a version the reload thread has seen is never forgotten,    *)
(* and that a plugin's functions are called in order.                      *)
(***************************************************************************)
EXTENDS PluginLoader, TLAPS

Lives == {"none", "attached", "open", "closed"}

\* TypeOK, with the functions' domains.
Typing ==
  /\ pc \in GameSteps /\ i \in Plugins /\ watch \in WatchSteps /\ j \in Plugins /\ terminate \in BOOLEAN
  /\ state \in [Plugins -> States] /\ prx \in [Plugins -> BOOLEAN]
  /\ was \in [Plugins -> BOOLEAN] /\ want \in [Plugins -> BOOLEAN]
  /\ seen \in [Plugins -> Nat] /\ file \in [Plugins -> Nat] /\ version \in [Plugins -> Nat]
  /\ life \in [Plugins -> Lives]

\* What was seen and what was loaded is the file as it is or as it was.
Past ==
  \A p \in Plugins : seen[p] <= file[p] /\ version[p] <= file[p] /\ file[p] <= MaxWrites[p] + 1

\* The reload thread is started last.
StartedLast == pc \in {"stat", "load", "open", "start"} => watch = "none"

PursuitInv == Typing /\ Past /\ StartedLast /\ UpdateIsPursued

-----------------------------------------------------------------------------
(* Lemmas.                                                                 *)

\* The counters of the two loops stay within the plugins.
LEMMA NextPlugin ==
  ASSUME NEW k \in Plugins
  PROVE  1 \in Plugins /\ (k # NumPlugins => k + 1 \in Plugins)
  BY BoundsAssumption, SMT DEF Plugins

\* What loading, opening or unloading one plugin leaves.
LEMMA ModuleTyping ==
  ASSUME Typing, NEW p \in Plugins,
         LoadModule(p) \/ OpenPlugin(p) \/ UnloadModule(p) \/ UNCHANGED moduleVars
  PROVE  /\ state' \in [Plugins -> States] /\ prx' \in [Plugins -> BOOLEAN]
         /\ version' \in [Plugins -> Nat] /\ life' \in [Plugins -> Lives]
<1> USE DEF Typing, States, Errors, Lives
<1>1. CASE LoadModule(p)  BY <1>1, SMT DEF LoadModule
<1>2. CASE OpenPlugin(p)  BY <1>2, SMT DEF OpenPlugin
<1>3. CASE UnloadModule(p)  BY <1>3, SMT DEF UnloadModule
<1>4. CASE UNCHANGED moduleVars  BY <1>4 DEF moduleVars
<1> QED  BY <1>1, <1>2, <1>3, <1>4

LEMMA ModuleVersion ==
  ASSUME Typing, NEW p \in Plugins,
         OpenPlugin(p) \/ UnloadModule(p) \/ UNCHANGED moduleVars
  PROVE  version' = version
  BY DEF OpenPlugin, UnloadModule, moduleVars

\* The actions of the game's thread that neither load a plugin, nor look at its file, nor
\* touch what the reload thread tells.
Quiet ==
  \/ NeedsRebuildPatch \/ OpenFirst \/ BeginFrame \/ Update \/ TestFlag
  \/ CloseForReload \/ UnloadForReload \/ Reopen \/ Stop
  \/ CloseReloadHandler \/ ClosePlugin \/ UnloadPlugin

LEMMA QuietStep ==
  ASSUME Typing, Quiet
  PROVE  UNCHANGED <<watch, j, was, want, seen, file, version>>
  BY ModuleVersion, SMT
  DEF Typing, Quiet, NeedsRebuildPatch, OpenFirst, BeginFrame, Update, TestFlag,
      CloseForReload, UnloadForReload, Reopen, Stop, CloseReloadHandler,
      ClosePlugin, UnloadPlugin, watchVars, moduleVars

\* Where they lead, from the plugin that their loop is at.
LEMMA QuietFlow ==
  ASSUME Typing, Quiet
  PROVE  /\ pc' \in GameSteps /\ i' \in Plugins /\ terminate' \in BOOLEAN
         /\ pc' \in {"stat", "load", "open", "start"} => pc \in {"open"}
         /\ \/ i' = i /\ pc' \in {"unload", "reload"}
           \/ pc \notin {"load", "shut", "unload", "reload"}
<1>1. i \in Plugins  BY DEF Typing
<1>2. CASE OpenFirst \/ Update \/ TestFlag \/ ClosePlugin \/ UnloadPlugin
  BY <1>1, <1>2, NextPlugin
  DEF Typing, OpenFirst, Update, TestFlag, ClosePlugin, UnloadPlugin, Advance, GameSteps
<1>3. CASE Reopen
  BY <1>1, <1>3, NextPlugin DEF Typing, Reopen, GameSteps
<1>4. CASE NeedsRebuildPatch \/ BeginFrame \/ CloseForReload \/ UnloadForReload \/ Stop \/ CloseReloadHandler
  <2>1. terminate' \in BOOLEAN
    BY <1>4 DEF Typing, NeedsRebuildPatch, BeginFrame, CloseForReload, UnloadForReload, Stop,
                CloseReloadHandler
  <2>2. \/ Goto("open", "frame") \/ Goto("frame", "update") \/ Goto("shut", "unload")
        \/ Goto("unload", "reload") \/ Goto("frame", "join") \/ Goto("join", "close")
    BY <1>4 DEF NeedsRebuildPatch, BeginFrame, CloseForReload, UnloadForReload, Stop,
                CloseReloadHandler
  <2> QED  BY <1>1, <2>1, <2>2 DEF Goto, GameSteps
<1> QED  BY <1>2, <1>3, <1>4 DEF Quiet

LEMMA QuietModules ==
  ASSUME Typing, Quiet
  PROVE  /\ state' \in [Plugins -> States] /\ prx' \in [Plugins -> BOOLEAN]
         /\ version' \in [Plugins -> Nat] /\ life' \in [Plugins -> Lives]
<1>1. CASE OpenFirst \/ Reopen \/ Update \/ UnloadForReload \/ UnloadPlugin
  <2>1. i \in Plugins  BY DEF Typing
  <2>2. OpenPlugin(i) \/ UnloadModule(i) \/ UNCHANGED moduleVars
    BY <1>1 DEF OpenFirst, Reopen, Update, UnloadForReload, UnloadPlugin
  <2> QED  BY <2>1, <2>2, ModuleTyping
<1>2. CASE CloseForReload
  BY <1>2, SMT DEF CloseForReload, Typing, States, Errors, Lives
<1>3. CASE ClosePlugin
  BY <1>3, SMT DEF ClosePlugin, Typing, Lives
<1>4. CASE NeedsRebuildPatch \/ BeginFrame \/ TestFlag \/ Stop \/ CloseReloadHandler
  BY <1>4 DEF NeedsRebuildPatch, BeginFrame, TestFlag, Stop, CloseReloadHandler, moduleVars, Typing
<1> QED  BY <1>1, <1>2, <1>3, <1>4 DEF Quiet

-----------------------------------------------------------------------------
(* The invariant.                                                          *)

LEMMA PursuitInit == Init => PursuitInv
<1> SUFFICES ASSUME Init PROVE PursuitInv  OBVIOUS
<1>1. Typing
  <2>1. 1 \in Plugins  BY BoundsAssumption, SMT DEF Plugins
  <2>2. \A a, b : b \in a => [p \in Plugins |-> b] \in [Plugins -> a]  OBVIOUS
  <2> QED  BY <2>1, <2>2 DEF Init, Typing, States, Lives, GameSteps, WatchSteps
<1>2. Past
  BY BoundsAssumption, SMT DEF Init, Past, Plugins
<1>3. StartedLast /\ UpdateIsPursued
  BY SMT DEF Init, StartedLast, UpdateIsPursued
<1> QED  BY <1>1, <1>2, <1>3 DEF PursuitInv

LEMMA PursuitStep == PursuitInv /\ [Next]_vars => PursuitInv'
<1> SUFFICES ASSUME PursuitInv, [Next]_vars PROVE PursuitInv'  OBVIOUS
<1> USE DEF PursuitInv
<1>0. i \in Plugins /\ j \in Plugins  BY DEF Typing
<1>1. CASE Quiet
  <2>1. UNCHANGED <<watch, j, was, want, seen, file, version>>  BY <1>1, QuietStep
  <2>2. Typing'  BY <1>1, <2>1, QuietFlow, QuietModules DEF Typing
  <2>3. Past' /\ StartedLast'  BY <1>1, <2>1, QuietFlow DEF Past, StartedLast
  <2>4. UpdateIsPursued'  BY <1>1, <2>1, QuietFlow DEF UpdateIsPursued
  <2> QED  BY <2>2, <2>3, <2>4
<1>2. CASE StatFirst
  <2>1. Typing' /\ StartedLast'
    BY <1>2, SMT DEF StatFirst, Goto, Typing, StartedLast, GameSteps, watchVars, moduleVars
  <2>2. Past'  BY <1>2, SMT DEF StatFirst, Typing, Past, moduleVars
  <2>3. UpdateIsPursued'
    BY <1>2, SMT DEF StatFirst, Goto, Typing, UpdateIsPursued, watchVars, moduleVars
  <2> QED  BY <2>1, <2>2, <2>3
<1>3. CASE LoadFirst \/ Reload
  <2>1. LoadModule(i) /\ UNCHANGED <<watch, j, terminate, was, want, seen, file>>
    BY <1>3 DEF LoadFirst, Reload, watchVars
  <2>2. /\ pc' \in GameSteps /\ i' \in Plugins
        /\ pc' \in {"stat", "load", "open", "start"} => pc = "load"
    BY <1>0, <1>3, NextPlugin DEF LoadFirst, Reload, Goto, Typing, GameSteps
  <2>3. version' = [version EXCEPT ![i] = file[i]]  BY <2>1 DEF LoadModule
  <2>4. Typing'  BY <1>0, <2>1, <2>2, ModuleTyping DEF Typing
  <2>5. Past'  BY <1>0, <2>1, <2>3, SMT DEF Typing, Past
  <2>6. StartedLast'  BY <2>1, <2>2 DEF StartedLast
  <2>7. ASSUME NEW p \in Plugins, version'[p] < seen'[p]
        PROVE  p # i /\ version[p] < seen[p]
    BY <2>1, <2>3, <2>7, SMT DEF Typing, Past
  <2>8. UpdateIsPursued'  BY <2>1, <2>7 DEF UpdateIsPursued
  <2> QED  BY <2>4, <2>5, <2>6, <2>8
<1>4. CASE StartReloadHandler
  BY <1>4, SMT
  DEF StartReloadHandler, Goto, Typing, Past, StartedLast, UpdateIsPursued, moduleVars,
      GameSteps, WatchSteps
<1>5. CASE ClearFlag
  BY <1>5, SMT
  DEF ClearFlag, Goto, Typing, Past, StartedLast, UpdateIsPursued, watchVars, moduleVars,
      GameSteps
<1>6. CASE TestTerminate \/ Look
  <2>1. /\ watch' \in WatchSteps /\ j' \in Plugins /\ watch # "none"
        /\ watch # "mark"
        /\ UNCHANGED <<gameVars, terminate, moduleVars, was, want, seen, file>>
    BY <1>0, <1>6, NextPlugin DEF TestTerminate, Look, WatchNext, Typing, WatchSteps
  <2>2. Typing' /\ Past' /\ StartedLast'
    BY <2>1 DEF Typing, Past, StartedLast, gameVars, moduleVars
  <2>3. UpdateIsPursued'  BY <2>1 DEF UpdateIsPursued, gameVars, moduleVars
  <2> QED  BY <2>2, <2>3
<1>7. CASE Stat
  <2>1. /\ watch' \in WatchSteps /\ j' \in Plugins /\ watch = "stat"
        /\ UNCHANGED <<pc, i, terminate, state, prx, version, life, want, file>>
    BY <1>0, <1>7, NextPlugin DEF Stat, WatchNext, Typing, WatchSteps, gameVars, moduleVars
  <2>2. /\ seen' = [seen EXCEPT ![j] = file[j]]
        /\ was' = [was EXCEPT ![j] = seen[j] # file[j]]
        /\ was[j] /\ seen[j] = file[j] => watch' = "mark" /\ j' = j
    BY <1>7 DEF Stat
  <2>3. Typing'  BY <2>1, <2>2, SMT DEF Typing
  <2>4. Past' /\ StartedLast'  BY <2>1, <2>2, SMT DEF Typing, Past, StartedLast
  <2>5. ASSUME NEW p \in Plugins, version'[p] < seen'[p], ~ was'[p], ~ want'[p],
               ~ (watch' = "mark" /\ j' = p)
        PROVE  i' = p /\ pc' \in {"load", "shut", "unload", "reload"}
    <3>1. p # j \/ (seen[p] = file[p] /\ ~ was[p])  BY <2>2, <2>5 DEF Typing
    <3>2. seen'[p] = seen[p] /\ (p # j => was'[p] = was[p])  BY <2>2, <3>1 DEF Typing
    <3>3. version[p] < seen[p] /\ ~ was[p] /\ ~ want[p]  BY <2>1, <2>5, <3>1, <3>2
    <3> QED  BY <2>1, <3>3 DEF UpdateIsPursued
  <2>6. UpdateIsPursued'  BY <2>5 DEF UpdateIsPursued
  <2> QED  BY <2>3, <2>4, <2>6
<1>8. CASE Mark
  <2>1. /\ watch' \in WatchSteps /\ j' \in Plugins /\ watch = "mark"
        /\ UNCHANGED <<pc, i, terminate, state, prx, version, life, was, seen, file>>
        /\ want' = [want EXCEPT ![j] = TRUE]
    BY <1>0, <1>8, NextPlugin DEF Mark, WatchNext, Typing, WatchSteps, gameVars, moduleVars
  <2>2. Typing'  BY <2>1, SMT DEF Typing
  <2>3. Past' /\ StartedLast'  BY <2>1 DEF Past, StartedLast
  <2>4. UpdateIsPursued'  BY <2>1, SMT DEF Typing, UpdateIsPursued
  <2> QED  BY <2>2, <2>3, <2>4
<1>9. ASSUME NEW p \in Plugins, Write(p) PROVE PursuitInv'
  <2>1. UNCHANGED <<gameVars, watchVars, terminate, moduleVars, was, want, seen>>  BY <1>9 DEF Write
  <2>2. Typing'  BY <1>9, <2>1, SMT DEF Write, Typing, gameVars, watchVars, moduleVars
  <2>3. Past'
    <3> SUFFICES ASSUME NEW q \in Plugins
        PROVE seen[q] <= file'[q] /\ version[q] <= file'[q] /\ file'[q] <= MaxWrites[q] + 1
      BY <2>1 DEF Past, moduleVars
    <3>1. MaxWrites[q] \in Nat  BY BoundsAssumption DEF Plugins
    <3>2. file'[q] = IF q = p THEN file[q] + 1 ELSE file[q]  BY <1>9 DEF Write, Typing
    <3>3. q = p => file[q] <= MaxWrites[q]  BY <1>9 DEF Write
    <3>4. seen[q] \in Nat /\ file[q] \in Nat /\ version[q] \in Nat  BY DEF Typing
    <3> QED  BY <3>1, <3>2, <3>3, <3>4 DEF Past
  <2>4. StartedLast' /\ UpdateIsPursued'
    BY <2>1 DEF StartedLast, UpdateIsPursued, gameVars, watchVars, moduleVars
  <2> QED  BY <2>2, <2>3, <2>4
<1>10. CASE UNCHANGED vars
  BY <1>10 DEF vars, gameVars, watchVars, moduleVars, Typing, Past, StartedLast, UpdateIsPursued
<1> QED
  BY <1>1, <1>2, <1>3, <1>4, <1>5, <1>6, <1>7, <1>8, <1>9, <1>10
  DEF Next, Game, Watch, Quiet

LEMMA PursuitInvariant == Spec => []PursuitInv
  BY PursuitInit, PursuitStep, PTL DEF Spec

-----------------------------------------------------------------------------
(* Theorems.                                                               *)

\* The fields of the plugins and of both threads' loops keep their types (LoadPlugins,
\* PerFrameUpdate, CheckReloadFlag, ReloadHandler).
THEOREM TypeCorrect == Spec => []TypeOK
<1>1. PursuitInv => TypeOK
  BY BoundsAssumption, SMTT(60) DEF PursuitInv, Typing, Past, TypeOK, Lives, Plugins
<1> QED  BY <1>1, PursuitInvariant, PTL

\* Whatever the unlocked accesses of the game's thread and of ReloadHandler interleave to, a
\* version that was seen and is newer than the one loaded is not forgotten.
THEOREM UpdatePursued == Spec => []UpdateIsPursued
<1>1. PursuitInv => UpdateIsPursued  BY DEF PursuitInv
<1> QED  BY <1>1, PursuitInvariant, PTL

-----------------------------------------------------------------------------
(* The order of the plugins' own functions.                                *)

Attached == {"Loaded", "Open", "OpenFailed"}

\* Which function was called last, by the state of the plugin and how far the game's
\* thread has come.
LifeOf(p) ==
  /\ life[p] = "none" <=> ~ (prx[p] /\ state[p] \in Attached)
  /\ state[p] \in {"Loaded", "Open"} => prx[p]
  /\ state[p] = "OpenFailed" /\ prx[p] => life[p] = "attached"
  /\ state[p] = "Loaded" => life[p] = "attached" \/ (pc = "unload" /\ i = p /\ life[p] = "closed")
  /\ state[p] = "Open" => \/ life[p] = "open"
                          \/ life[p] = "closed" /\ pc \in {"detach", "stopped"}
                          \/ life[p] = "closed" /\ pc = "close" /\ p < i
  /\ pc \in {"stat", "load"} /\ i <= p => ~ prx[p]
  /\ pc = "reload" /\ i = p => ~ prx[p]
  /\ pc = "unload" /\ i = p => state[p] # "Open"
  /\ pc = "close" /\ p < i => life[p] # "open"
  /\ pc \in {"detach", "stopped"} => life[p] # "open"

LoopsFromFirst == pc \in {"start", "frame", "join"} => i = 1

LifeInv == LoopsFromFirst /\ \A p \in Plugins : LifeOf(p)

InOrder(p) ==
  \/ life'[p] = life[p]
  \/ <<life[p], life'[p]>> \in {<<"none", "attached">>, <<"attached", "open">>,
       <<"attached", "none">>, <<"open", "closed">>, <<"closed", "none">>}

\* What LoadModule, OpenPlugin and UnloadModule do to the plugin q and to the others.
LEMMA LoadModuleOf ==
  ASSUME Typing, NEW p \in Plugins, NEW q \in Plugins, LoadModule(p)
  PROVE  IF q = p
         THEN \/ state'[q] = "Loaded" /\ prx'[q] = TRUE /\ life'[q] = "attached"
              \/ state'[q] \notin Attached /\ life'[q] = "none"
         ELSE state'[q] = state[q] /\ prx'[q] = prx[q] /\ life'[q] = life[q]
<1>1. PICK s \in (Errors \ {"OpenFailed"}) \union {"Loaded"} :
        /\ state' = [state EXCEPT ![p] = s]
        /\ prx' = [prx EXCEPT ![p] = s # "LoadModuleFailed"]
        /\ life' = [life EXCEPT ![p] = IF s = "Loaded" THEN "attached" ELSE "none"]
  BY DEF LoadModule
<1>2. s = "Loaded" \/ (s # "Loaded" /\ s \notin Attached)  BY DEF Errors, Attached
<1>3. /\ state'[q] = IF q = p THEN s ELSE state[q]
      /\ prx'[q] = IF q = p THEN s # "LoadModuleFailed" ELSE prx[q]
      /\ life'[q] = IF q = p THEN (IF s = "Loaded" THEN "attached" ELSE "none") ELSE life[q]
  BY <1>1 DEF Typing
<1> QED  BY <1>2, <1>3

LEMMA OpenPluginOf ==
  ASSUME Typing, NEW p \in Plugins, NEW q \in Plugins, OpenPlugin(p)
  PROVE  /\ prx'[q] = prx[q]
         /\ IF q = p /\ state[p] = "Loaded"
            THEN \/ state'[q] = "Open" /\ life'[q] = "open"
                 \/ state'[q] = "OpenFailed" /\ life'[q] = life[q]
            ELSE state'[q] = state[q] /\ life'[q] = life[q]
  BY SMT DEF OpenPlugin, Typing

LEMMA UnloadModuleOf ==
  ASSUME Typing, NEW p \in Plugins, NEW q \in Plugins, UnloadModule(p)
  PROVE  IF q = p
         THEN /\ prx'[q] = FALSE
              /\ life'[q] = IF prx[q] /\ state[q] \in Attached THEN "none" ELSE life[q]
              /\ state'[q] = IF prx[q] /\ state[q] \notin Errors THEN "Unloaded" ELSE state[q]
         ELSE state'[q] = state[q] /\ prx'[q] = prx[q] /\ life'[q] = life[q]
  BY SMT DEF UnloadModule, Typing, Attached

LEMMA LifeInit == Init => LifeInv
  BY SMT DEF Init, LifeInv, LoopsFromFirst, LifeOf, Attached

LEMMA LoopStep ==
  ASSUME PursuitInv, LoopsFromFirst, [Next]_vars
  PROVE  LoopsFromFirst'
<1> USE DEF LoopsFromFirst
<1>1. CASE OpenFirst \/ Update \/ TestFlag \/ ClosePlugin \/ UnloadPlugin
  BY <1>1 DEF OpenFirst, Update, TestFlag, ClosePlugin, UnloadPlugin, Advance
<1>2. CASE LoadFirst \/ Reopen
  BY <1>2 DEF LoadFirst, Reopen
<1>3. CASE NeedsRebuildPatch \/ Stop \/ CloseReloadHandler \/ StartReloadHandler
  BY <1>3 DEF NeedsRebuildPatch, Stop, CloseReloadHandler, StartReloadHandler, Goto
<1>4. CASE \/ StatFirst \/ BeginFrame \/ ClearFlag \/ CloseForReload \/ UnloadForReload \/ Reload
  <2>1. \/ Goto("stat", "load") \/ Goto("frame", "update") \/ Goto("clear", "shut")
        \/ Goto("shut", "unload") \/ Goto("unload", "reload") \/ Goto("reload", "reopen")
    BY <1>4 DEF StatFirst, BeginFrame, ClearFlag, CloseForReload, UnloadForReload, Reload
  <2> QED  BY <2>1 DEF Goto
<1>5. CASE UNCHANGED gameVars
  BY <1>5 DEF gameVars
<1>6. CASE Watch \/ (\E p \in Plugins : Write(p)) \/ UNCHANGED vars
  BY <1>5, <1>6 DEF Watch, TestTerminate, Look, Stat, Mark, Write, vars
<1> QED
  BY <1>1, <1>2, <1>3, <1>4, <1>6 DEF Next, Game

LEMMA LifeStep ==
  ASSUME PursuitInv, LifeInv, [Next]_vars, NEW p \in Plugins
  PROVE  LifeOf(p)' /\ InOrder(p)
<1>0. Typing /\ i \in Plugins /\ LoopsFromFirst /\ LifeOf(p)
  BY DEF PursuitInv, LifeInv, Typing
<1> USE DEF LifeOf, InOrder
<1>1. CASE LoadFirst \/ Reload
  <2>1. LoadModule(i) /\ pc \in {"load", "reload"}  BY <1>1 DEF LoadFirst, Reload, Goto
  <2>2. pc' \in {"stat", "open", "reopen"} /\ (pc' = "stat" => pc = "load" /\ i' = i + 1)
    BY <1>1 DEF LoadFirst, Reload, Goto
  <2>3. i <= i /\ ~ (i + 1 <= i) /\ (i + 1 <= p => i <= p)  BY <1>0, SMT DEF Plugins
  <2>4. ~ prx[i] \/ p # i  BY <1>0, <2>1, <2>3
  <2>5. CASE p = i
    <3>1. life[p] = "none"  BY <1>0, <2>4, <2>5
    <3>2. \/ state'[p] = "Loaded" /\ prx'[p] = TRUE /\ life'[p] = "attached"
          \/ state'[p] \notin Attached /\ life'[p] = "none"
      BY <1>0, <2>1, <2>5, LoadModuleOf
    <3> QED  BY <2>2, <2>3, <2>5, <3>1, <3>2 DEF Attached
  <2>6. CASE p # i
    <3>1. state'[p] = state[p] /\ prx'[p] = prx[p] /\ life'[p] = life[p]
      BY <1>0, <2>1, <2>6, LoadModuleOf
    <3> QED  BY <1>0, <2>1, <2>2, <2>3, <2>6, <3>1 DEF Attached
  <2> QED  BY <2>5, <2>6
<1>2. CASE OpenFirst \/ Reopen
  <2>1. OpenPlugin(i) /\ pc \in {"open", "reopen"} /\ pc' \in {"open", "start", "test", "frame"}
    BY <1>2 DEF OpenFirst, Reopen, Advance
  <2> QED  BY <1>0, <2>1, OpenPluginOf DEF Attached
<1>3. CASE Update
  <2>1. pc = "update" /\ pc' \in {"update", "test"}  BY <1>3 DEF Update, Advance
  <2>2. CASE state[i] \in Errors
    <3>1. UnloadModule(i)  BY <1>3, <2>2 DEF Update
    <3> QED  BY <1>0, <2>1, <2>2, <3>1, UnloadModuleOf DEF Attached, Errors
  <2>3. CASE state[i] \notin Errors
    <3>1. UNCHANGED moduleVars  BY <1>3, <2>3 DEF Update
    <3> QED  BY <1>0, <2>1, <3>1 DEF moduleVars
  <2> QED  BY <2>2, <2>3
<1>4. CASE UnloadForReload
  <2>1. pc = "unload" /\ pc' = "reload" /\ i' = i /\ UnloadModule(i)
    BY <1>4 DEF UnloadForReload, Goto
  <2> QED  BY <1>0, <2>1, UnloadModuleOf DEF Attached, Errors
<1>5. CASE UnloadPlugin
  <2>1. pc = "detach" /\ pc' \in {"detach", "stopped"} /\ UnloadModule(i)
    BY <1>5 DEF UnloadPlugin, Advance
  <2> QED  BY <1>0, <2>1, UnloadModuleOf DEF Attached, Errors
<1>6. CASE CloseForReload
  <2>1. pc = "shut" /\ pc' = "unload" /\ i' = i /\ prx' = prx  BY <1>6 DEF CloseForReload, Goto
  <2>2. IF p = i /\ state[i] = "Open"
        THEN state'[p] = "Loaded" /\ life'[p] = "closed"
        ELSE state'[p] = state[p] /\ life'[p] = life[p]
    BY <1>0, <1>6 DEF CloseForReload, Typing
  <2> QED  BY <1>0, <2>1, <2>2 DEF Attached
<1>7. CASE ClosePlugin
  <2>1. pc = "close" /\ state' = state /\ prx' = prx  BY <1>7 DEF ClosePlugin
  <2>2. \/ pc' = "close" /\ i' = i + 1 /\ i # NumPlugins
        \/ pc' = "detach" /\ i = NumPlugins
    BY <1>7 DEF ClosePlugin, Advance
  <2>3. life'[p] = IF p = i /\ state[i] = "Open" THEN "closed" ELSE life[p]
    BY <1>0, <1>7 DEF ClosePlugin, Typing
  <2>4. p \in Nat /\ i \in Nat /\ p <= NumPlugins /\ NumPlugins \in Nat
    BY <1>0, BoundsAssumption DEF Plugins
  <2> QED  BY <1>0, <2>1, <2>2, <2>3, <2>4, SMT DEF Attached
<1>8. CASE /\ UNCHANGED moduleVars
           /\ NeedsRebuildPatch \/ StartReloadHandler \/ BeginFrame \/ Stop \/ ClearFlag \/ StatFirst
  <2>1. \/ Goto("open", "frame") \/ Goto("start", "frame") \/ Goto("frame", "update")
        \/ Goto("frame", "join") \/ Goto("clear", "shut") \/ Goto("stat", "load")
    BY <1>8 DEF NeedsRebuildPatch, StartReloadHandler, BeginFrame, Stop, ClearFlag, StatFirst
  <2> QED  BY <1>0, <1>8, <2>1 DEF Goto, moduleVars
<1>9. CASE CloseReloadHandler /\ UNCHANGED moduleVars
  <2>1. pc = "join" /\ pc' = "close" /\ i' = i /\ i = 1
    BY <1>0, <1>9 DEF CloseReloadHandler, Goto, LoopsFromFirst
  <2> QED  BY <1>0, <1>9, <2>1, SMT DEF moduleVars, Plugins
<1>10. CASE TestFlag /\ UNCHANGED moduleVars
  <2>1. pc = "test" /\ pc' \in {"test", "clear", "frame"}  BY <1>10 DEF TestFlag, Advance
  <2> QED  BY <1>0, <1>10, <2>1 DEF moduleVars
<1>11. CASE UNCHANGED <<gameVars, moduleVars>>
  BY <1>0, <1>11 DEF gameVars, moduleVars
<1>12. CASE Watch \/ (\E q \in Plugins : Write(q)) \/ UNCHANGED vars
  BY <1>11, <1>12 DEF Watch, TestTerminate, Look, Stat, Mark, Write, vars
<1>13. NeedsRebuildPatch \/ StartReloadHandler \/ BeginFrame \/ Stop \/ ClearFlag \/ StatFirst
       \/ CloseReloadHandler \/ TestFlag => UNCHANGED moduleVars
  BY DEF NeedsRebuildPatch, StartReloadHandler, BeginFrame, Stop, ClearFlag, StatFirst,
         CloseReloadHandler, TestFlag
<1> QED
  BY <1>1, <1>2, <1>3, <1>4, <1>5, <1>6, <1>7, <1>8, <1>9, <1>10, <1>12, <1>13 DEF Next, Game

\* A plugin's functions are called in order through every load, failure, reload and stop
\* (LoadModule, OpenPlugin, CheckReloadFlag, ClosePlugins, UnloadModule).
THEOREM OrderKept == Spec => CallsInOrder
<1>1. Init => PursuitInv /\ LifeInv  BY PursuitInit, LifeInit
<1>2. PursuitInv /\ LifeInv /\ [Next]_vars => (PursuitInv /\ LifeInv)'
  BY PursuitStep, LoopStep, LifeStep DEF LifeInv
<1>3. PursuitInv /\ LifeInv /\ [Next]_vars => [\A p \in Plugins : InOrder(p)]_vars
  BY LifeStep
<1>4. ASSUME [\A p \in Plugins : InOrder(p)]_vars
      PROVE  [\A p \in Plugins :
                \/ life'[p] = life[p]
                \/ <<life[p], life'[p]>> \in {<<"none", "attached">>, <<"attached", "open">>,
                     <<"attached", "none">>, <<"open", "closed">>, <<"closed", "none">>}]_vars
  BY <1>4 DEF InOrder
<1> QED  BY <1>1, <1>2, <1>3, <1>4, PTL DEF Spec, CallsInOrder

=============================================================================
