----------------------------- MODULE XrayReload -----------------------------
(***************************************************************************)
(* The path from a committed database change to the Xray process that      *)
(* serves it: app/main.py (_reload_xray, _do_reload, the handlers that     *)
(* reload directly) and app/xray.py (write_xray_config, restart_xray).     *)
(*                                                                         *)
(* Two kinds of threads run.  The event-loop thread runs handlers and the  *)
(* reload-loop tasks; its code is atomic between two awaits.  Worker       *)
(* threads (asyncio.to_thread) run _do_reload step by step, in parallel    *)
(* with the event loop and with each other.  A handler that reloads        *)
(* directly runs the same steps on the event-loop thread, which does       *)
(* nothing else meanwhile.                                                 *)
(*                                                                         *)
(* Data abstracted: the database is a version number, a configuration file *)
(* is the version it was generated from.                                   *)
(***************************************************************************)
EXTENDS Naturals

CONSTANTS
  Loops,       \* reload-loop tasks, each with the worker thread it awaits
  Handler,     \* the event-loop thread, running a reload in a handler
  MaxChanges,  \* bound on the number of database changes (for TLC)
  Absent,      \* content: there is no such file
  Empty,       \* content: opened for writing, nothing in it yet
  Torn,        \* content: overwritten by two writers, does not load
  Dead         \* no process holds the Xray ports

ASSUME HandlerAssumption == Handler \notin Loops
ASSUME ChangesAssumption == MaxChanges \in Nat
ASSUME ContentAssumption ==
  /\ Absent \notin Nat \cup {Empty, Torn}
  /\ Empty \notin Nat \cup {Torn}
  /\ Torn \notin Nat
  /\ Dead \notin Nat

Workers == Loops \cup {Handler}

Versions == 0..MaxChanges
Contents == Versions \cup {Absent, Empty, Torn}

(***************************************************************************)
(* Where a worker is in _do_reload; "idle" when it runs none and "done"    *)
(* when the thread has returned and its task has not resumed yet.          *)
(***************************************************************************)
Stages == {"idle", "generate", "open", "dump", "replace", "terminate",
           "popen", "wireguard", "done"}

VARIABLES
  db,          \* version of the database
  wanted,      \* _reload_wanted
  running,     \* _reload_running
  task,        \* state of each reload-loop task
  job,         \* stage of each worker
  snap,        \* version the worker generated its configuration from
  fd,          \* where the file a worker opened is now: tmp, cfg or gone
  tmp,         \* content of config.json.tmp
  cfg,         \* content of config.json
  serving,     \* version the process holding the Xray ports has loaded
  tracked,     \* _xray_process is that process
  seen,        \* history: newest version a configuration was generated from
  overlapped   \* history: two reloads have been in progress at once

evVars   == <<wanted, running, task>>
fileVars == <<fd, tmp, cfg>>
procVars == <<serving, tracked>>
vars == <<db, evVars, job, snap, fileVars, procVars, seen, overlapped>>

TypeOK ==
  /\ db \in Versions
  /\ wanted \in Nat
  /\ running \in BOOLEAN
  /\ task \in [Loops -> {"none", "spawned", "awaiting", "sleeping"}]
  /\ job \in [Workers -> Stages]
  /\ snap \in [Workers -> Versions]
  /\ fd \in [Workers -> {"none", "tmp", "cfg", "gone"}]
  /\ tmp \in Contents
  /\ cfg \in Contents
  /\ serving \in Versions \cup {Dead}
  /\ tracked \in BOOLEAN
  /\ seen \in Versions
  /\ overlapped \in BOOLEAN

\* lifespan has written the configuration and started Xray before it starts
\* the background tasks and the first request is served.
Init ==
  /\ db = 0
  /\ wanted = 0
  /\ running = FALSE
  /\ task = [l \in Loops |-> "none"]
  /\ job = [w \in Workers |-> "idle"]
  /\ snap = [w \in Workers |-> 0]
  /\ fd = [w \in Workers |-> "none"]
  /\ tmp = Absent
  /\ cfg = 0
  /\ serving = 0
  /\ tracked = TRUE
  /\ seen = 0
  /\ overlapped = FALSE

Active(w) == job[w] \notin {"idle", "done"}

\* The event loop can run a task or a handler.
LoopFree == job[Handler] = "idle"

-----------------------------------------------------------------------------
(* Starting a reload, on whichever thread.                                 *)

StartJob(w) ==
  /\ job' = [job EXCEPT ![w] = "generate"]
  /\ overlapped' = (overlapped \/ \E u \in Workers : Active(u))

(* Handlers.                                                               *)

\* Faulty: the request is dropped while a reload is running.
ReloadXrayDropsWhenRunning ==
  IF running
  THEN UNCHANGED <<wanted, task>>
  ELSE /\ wanted' = wanted + 1
       /\ \E l \in Loops : /\ task[l] = "none"
                           /\ task' = [task EXCEPT ![l] = "spawned"]

\* _reload_xray: count the request; spawn a loop unless one says it runs.
\* A spawned task starts only when the event loop next turns.
ReloadXray ==
  /\ wanted' = wanted + 1
  /\ IF running
     THEN UNCHANGED task
     ELSE \E l \in Loops : /\ task[l] = "none"
                           /\ task' = [task EXCEPT ![l] = "spawned"]

\* A handler that commits a change and calls _reload_xray: create, update,
\* delete, regenerate and toggle a user, api_node_sync, api_backup_restore.
ChangeAndReload ==
  /\ LoopFree
  /\ db < MaxChanges
  /\ db' = db + 1
  /\ ReloadXray
  /\ UNCHANGED <<running, job, snap, fileVars, procVars, seen, overlapped>>

\* A handler that commits a change and reloads before it returns:
\* api_set_settings, api_tuning_apply, api_reality_rotate.
ChangeAndReloadDirectly ==
  /\ LoopFree
  /\ db < MaxChanges
  /\ db' = db + 1
  /\ StartJob(Handler)
  /\ UNCHANGED <<evVars, snap, fileVars, procVars, seen>>

-----------------------------------------------------------------------------
(* The reload loop (_loop inside _reload_xray).                            *)

\* A pass of `while _reload_wanted > 0`.
LoopEnter(l) ==
  /\ wanted > 0
  /\ wanted' = 0
  /\ StartJob(l)
  /\ task' = [task EXCEPT ![l] = "awaiting"]

\* Faulty: the flag is left set when the loop ends.
LoopExitKeepsRunning(l) ==
  /\ wanted = 0
  /\ running' = TRUE
  /\ task' = [task EXCEPT ![l] = "none"]
  /\ job' = [job EXCEPT ![l] = "idle"]
  /\ UNCHANGED <<wanted, overlapped>>

\* `while _reload_wanted > 0`, left; the finally clause clears the flag.
LoopExit(l) ==
  /\ wanted = 0
  /\ running' = FALSE
  /\ task' = [task EXCEPT ![l] = "none"]
  /\ job' = [job EXCEPT ![l] = "idle"]
  /\ UNCHANGED <<wanted, overlapped>>

LoopUnchanged == UNCHANGED <<db, snap, fileVars, procVars, seen>>

\* The task's first step is the only one that sets the flag.
LoopStart(l) ==
  /\ LoopFree
  /\ task[l] = "spawned"
  /\ \/ LoopEnter(l) /\ running' = TRUE
     \/ LoopExit(l)
  /\ LoopUnchanged

\* The worker thread has returned: sleep 0.2 s if there is more to do.
LoopResume(l) ==
  /\ LoopFree
  /\ task[l] = "awaiting"
  /\ job[l] = "done"
  /\ \/ /\ wanted > 0
        /\ task' = [task EXCEPT ![l] = "sleeping"]
        /\ job' = [job EXCEPT ![l] = "idle"]
        /\ UNCHANGED <<wanted, running, overlapped>>
     \/ LoopExit(l)
  /\ LoopUnchanged

\* A loop that goes on leaves the flag as it is: another loop may have cleared
\* it meanwhile, and then the next request spawns one more.
LoopWake(l) ==
  /\ LoopFree
  /\ task[l] = "sleeping"
  /\ \/ LoopEnter(l) /\ UNCHANGED running
     \/ LoopExit(l)
  /\ LoopUnchanged

-----------------------------------------------------------------------------
(* _do_reload, one step per effect other threads can see.                  *)

Step(w, from, to) ==
  /\ job[w] = from
  /\ job' = [job EXCEPT ![w] = to]

\* What follows a step that raised, or the end of restart_xray: _do_reload
\* goes on to wg.restart; a handler only logs and returns.
AfterXray(w) == IF w = Handler THEN "idle" ELSE "wireguard"

\* generate_xray_config: one read of users, nodes, settings and meta.
Generate(w) ==
  /\ Step(w, "generate", "open")
  /\ snap' = [snap EXCEPT ![w] = db]
  /\ seen' = db
  /\ UNCHANGED <<db, evVars, fileVars, procVars, overlapped>>

\* open(tmp, "w") creates the file or truncates the one another worker opened.
OpenTmp(w) ==
  /\ Step(w, "open", "dump")
  /\ tmp' = Empty
  /\ fd' = [fd EXCEPT ![w] = "tmp"]
  /\ UNCHANGED <<db, evVars, snap, cfg, procVars, seen, overlapped>>

\* Writing over a file that has something else in it leaves the new text or a
\* mixture, depending on the lengths and on how the writes interleave.
Written(old, new) == IF old \in {Empty, new} THEN {new} ELSE {new, Torn}

\* json.dump and close, into the file wherever os.replace has moved it.
Dump(w) ==
  /\ Step(w, "dump", "replace")
  /\ CASE fd[w] = "tmp" -> tmp' \in Written(tmp, snap[w]) /\ UNCHANGED cfg
       [] fd[w] = "cfg" -> cfg' \in Written(cfg, snap[w]) /\ UNCHANGED tmp
       [] OTHER         -> UNCHANGED <<tmp, cfg>>
  /\ fd' = [fd EXCEPT ![w] = "none"]
  /\ snap' = [snap EXCEPT ![w] = 0]
  /\ UNCHANGED <<db, evVars, procVars, seen, overlapped>>

\* os.replace(tmp, config.json).  Files other workers still have open move
\* along with their names.
Replace(w) ==
  /\ job[w] = "replace"
  /\ tmp # Absent
  /\ Step(w, "replace", "terminate")
  /\ cfg' = tmp
  /\ tmp' = Absent
  /\ fd' = [u \in Workers |-> CASE fd[u] = "tmp" -> "cfg"
                                [] fd[u] = "cfg" -> "gone"
                                [] OTHER         -> fd[u]]
  /\ UNCHANGED <<db, evVars, snap, procVars, seen, overlapped>>

\* Another worker has renamed the temporary file: FileNotFoundError, which
\* both callers swallow, and Xray is not restarted.
ReplaceFails(w) ==
  /\ tmp = Absent
  /\ Step(w, "replace", AfterXray(w))
  /\ UNCHANGED <<db, evVars, snap, fileVars, procVars, seen, overlapped>>

\* Faulty: the old process is left running.
TerminateSkipped(w) ==
  /\ Step(w, "terminate", "popen")
  /\ UNCHANGED <<db, evVars, snap, fileVars, procVars, seen, overlapped>>

\* restart_xray, first half: terminate, wait up to 5 s, kill.
Terminate(w) ==
  /\ Step(w, "terminate", "popen")
  /\ serving' = IF tracked THEN Dead ELSE serving
  /\ UNCHANGED <<db, evVars, snap, fileVars, tracked, seen, overlapped>>

\* restart_xray, second half: Popen.  The new process exits at once if the
\* ports are taken or the file does not load; either way it is the tracked one.
Popen(w) ==
  /\ Step(w, "popen", AfterXray(w))
  /\ tracked' = (serving = Dead)
  /\ serving' = IF serving = Dead /\ cfg \in Versions THEN cfg ELSE serving
  /\ UNCHANGED <<db, evVars, snap, fileVars, seen, overlapped>>

\* wg.restart, whose own process is not modelled; the thread returns.
RestartWireGuard(w) ==
  /\ Step(w, "wireguard", "done")
  /\ UNCHANGED <<db, evVars, snap, fileVars, procVars, seen, overlapped>>

JobStep(w) ==
  \/ Generate(w)
  \/ OpenTmp(w)
  \/ Dump(w)
  \/ Replace(w)
  \/ ReplaceFails(w)
  \/ Terminate(w)
  \/ Popen(w)
  \/ RestartWireGuard(w)

LoopStep(l) == LoopStart(l) \/ LoopResume(l) \/ LoopWake(l)

Next ==
  \/ ChangeAndReload
  \/ ChangeAndReloadDirectly
  \/ \E l \in Loops : LoopStep(l)
  \/ \E w \in Workers : JobStep(w)

\* The event loop runs every ready task and the operating system every
\* thread; Xray is killed if it does not stop, so no step can hang.
Fairness ==
  /\ \A l \in Loops : WF_vars(LoopStep(l))
  /\ \A w \in Workers : WF_vars(JobStep(w))

Spec == Init /\ [][Next]_vars /\ Fairness

-----------------------------------------------------------------------------
(* Properties.                                                             *)

(***************************************************************************)
(* While requests are counted, or _reload_running says a loop takes care   *)
(* of them, there is a task that will still test _reload_wanted.  Several  *)
(* loops may be alive; one that ends clears the flag under the others,     *)
(* which go on without it.                                                 *)
(***************************************************************************)
NoStrandedRequest ==
  /\ wanted > 0 => \E l \in Loops : task[l] # "none"
  /\ running => \E l \in Loops : task[l] \in {"awaiting", "sleeping"}

(***************************************************************************)
(* Coalescing drops no change: as long as the newest change has not been   *)
(* read by generate_xray_config, a request is counted or a worker is about *)
(* to read the database.                                                   *)
(***************************************************************************)
UnseenChangeIsPending ==
  seen < db => wanted > 0 \/ \E w \in Workers : job[w] = "generate"

Quiet == wanted = 0 /\ \A w \in Workers : ~Active(w)

(***************************************************************************)
(* If no two reloads were ever in progress at once, then whenever nothing  *)
(* is pending Xray serves the newest database and can still be restarted.  *)
(* This is the README's "after every change the panel regenerates          *)
(* config.json and restarts Xray", with the condition it really needs.     *)
(***************************************************************************)
SerialReloadsServeTheDatabase ==
  Quiet /\ ~overlapped => serving = db /\ tracked

(***************************************************************************)
(* The same line of the README without that condition (README.md:109):     *)
(* every change is sooner or later served by Xray.  The code refutes it.   *)
(***************************************************************************)
EveryChangeIsServed ==
  \A v \in 1..MaxChanges :
    (db >= v) ~> (serving \in Versions /\ serving >= v)

\* The scheduler keeps the promise of ReloadPromise, liveness included.
Promise == INSTANCE ReloadPromise
             WITH MaxChanges <- MaxChanges, db <- db, seen <- seen
KeepsReloadPromise == Promise!Spec
=============================================================================
