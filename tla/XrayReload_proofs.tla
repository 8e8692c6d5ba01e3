------------------------- MODULE XrayReload_proofs -------------------------
(***************************************************************************)
(* Proofs about XrayReload, for any number of reload-loop tasks and any    *)
(* number of changes: type correctness, that no reload request and no      *)
(* change is lost, and that reloads which do not overlap leave Xray on the *)
(* newest database.                                                        *)
(***************************************************************************)
EXTENDS XrayReload, Enforcement, TLAPS

\* The event-loop thread and the loops' threads are the workers.
LEMMA HandlerIsAWorker == Handler \in Workers /\ Loops \subseteq Workers
BY DEF Workers

\* A version is never mistaken for a file that is absent, empty or torn, nor
\* for the absence of a process.
LEMMA ContentsDistinct ==
  /\ Absent \notin Versions /\ Empty \notin Versions /\ Torn \notin Versions
  /\ Dead \notin Versions
  /\ Absent # Empty /\ Absent # Torn /\ Empty # Torn
BY ContentAssumption, ChangesAssumption DEF Versions

(***************************************************************************)
(* Every variable keeps its type: the counters stay in range, the files    *)
(* hold a version or one of the three markers, every stage is a stage.     *)
(***************************************************************************)
THEOREM TypeCorrect == Spec => []TypeOK
<1>1. Init => TypeOK
  <2>1. 0 \in Versions /\ 0 \in Contents
    BY ChangesAssumption DEF Versions, Contents
  <2> SUFFICES ASSUME Init PROVE TypeOK
    OBVIOUS
  <2>2. running \in BOOLEAN /\ tracked \in BOOLEAN /\ overlapped \in BOOLEAN
    BY Zenon DEF Init
  <2>3. /\ db \in Versions /\ seen \in Versions /\ wanted \in Nat
        /\ serving \in Versions \cup {Dead} /\ tmp \in Contents /\ cfg \in Contents
    BY <2>1 DEF Init, Contents
  <2>4. /\ task \in [Loops -> {"none", "spawned", "awaiting", "sleeping"}]
        /\ job \in [Workers -> Stages]
        /\ snap \in [Workers -> Versions]
        /\ fd \in [Workers -> {"none", "tmp", "cfg", "gone"}]
    BY <2>1 DEF Init, Stages
  <2>5. QED
    BY <2>2, <2>3, <2>4 DEF TypeOK
<1>2. TypeOK /\ [Next]_vars => TypeOK'
  <2> SUFFICES ASSUME TypeOK, [Next]_vars
               PROVE  TypeOK'
    OBVIOUS
  <2> USE HandlerIsAWorker
  <2>1. CASE ChangeAndReload
    BY <2>1, ChangesAssumption
       DEF TypeOK, ChangeAndReload, ReloadXray, Versions, fileVars, procVars
  <2>2. CASE ChangeAndReloadDirectly
    BY <2>2, ChangesAssumption
       DEF TypeOK, ChangeAndReloadDirectly, StartJob, Versions, Stages,
           evVars, fileVars, procVars
  <2>3. ASSUME NEW l \in Loops, LoopStep(l)
        PROVE  TypeOK'
    <3>a. ASSUME LoopUnchanged, LoopEnter(l), running' \in {TRUE, running}
          PROVE  TypeOK'
      <4>1. running' \in BOOLEAN /\ overlapped' \in BOOLEAN /\ tracked' \in BOOLEAN
        BY <3>a, Zenon DEF LoopEnter, StartJob, LoopUnchanged, procVars, TypeOK
      <4>2. QED
        BY <3>a, <4>1 DEF TypeOK, LoopEnter, LoopUnchanged, StartJob, Stages,
                          fileVars, procVars
    <3>b. ASSUME LoopUnchanged, LoopExit(l)
          PROVE  TypeOK'
      BY <3>b DEF TypeOK, LoopExit, LoopUnchanged, Stages, fileVars, procVars
    <3>1. ASSUME LoopUnchanged,
                 \/ /\ LoopEnter(l)
                    /\ running' \in {TRUE, running}
                 \/ LoopExit(l)
          PROVE  TypeOK'
      BY <3>1, <3>a, <3>b
    <3>2. CASE LoopResume(l)
      BY <3>b, <3>2 DEF TypeOK, LoopResume, LoopUnchanged, Stages,
                        fileVars, procVars
    <3>3. CASE LoopStart(l) \/ LoopWake(l)
      BY <3>1, <3>3 DEF LoopStart, LoopWake
    <3>4. QED
      BY <2>3, <3>2, <3>3 DEF LoopStep
  <2>4. ASSUME NEW w \in Workers, JobStep(w)
        PROVE  TypeOK'
    <3> USE DEF TypeOK, Step, AfterXray, Stages, evVars, fileVars, procVars
    <3>1. CASE Generate(w)
      BY <3>1 DEF Generate
    <3>2. CASE OpenTmp(w)
      BY <3>2 DEF OpenTmp, Contents
    <3>3. CASE Dump(w)
      <4>1. Written(tmp, snap[w]) \subseteq Contents
            /\ Written(cfg, snap[w]) \subseteq Contents
        BY DEF Written, Contents
      <4>2. 0 \in Versions
        BY ChangesAssumption DEF Versions
      <4>3. tmp' \in Contents /\ cfg' \in Contents
        BY <3>3, <4>1 DEF Dump
      <4>4. QED
        BY <3>3, <4>2, <4>3 DEF Dump
    <3>4. CASE Replace(w)
      BY <3>4 DEF Replace, Contents
    <3>5. CASE ReplaceFails(w)
      BY <3>5 DEF ReplaceFails
    <3>6. CASE Terminate(w)
      BY <3>6 DEF Terminate
    <3>7. CASE Popen(w)
      BY <3>7 DEF Popen
    <3>8. CASE RestartWireGuard(w)
      BY <3>8 DEF RestartWireGuard
    <3>9. QED
      BY <2>4, <3>1, <3>2, <3>3, <3>4, <3>5, <3>6, <3>7, <3>8 DEF JobStep
  <2>stutter. CASE UNCHANGED vars
    BY <2>stutter DEF TypeOK, vars, evVars, fileVars, procVars
  <2> QED
    BY <2>1, <2>2, <2>3, <2>4, <2>stutter DEF Next
<1>3. QED
  BY <1>1, <1>2, PTL DEF Spec

-----------------------------------------------------------------------------
(***************************************************************************)
(* The scheduler.  NoStrandedRequest and UnseenChangeIsPending are         *)
(* inductive once it is known which task a worker thread belongs to (a     *)
(* loop that ends must not take a pending generation with it) and that no  *)
(* generation saw a version that is not committed yet.                     *)
(***************************************************************************)
SchedulerInv ==
  /\ \A l \in Loops : job[l] # "idle" => task[l] = "awaiting"
  /\ seen <= db
  /\ NoStrandedRequest
  /\ UnseenChangeIsPending

\* The two conjuncts that speak of tasks and of changes, by the step taken.
LEMMA LoopEnterKeepsScheduler ==
  ASSUME TypeOK, SchedulerInv, NEW l \in Loops, LoopEnter(l), LoopUnchanged,
         running' \in {TRUE, running}
  PROVE  SchedulerInv'
<1> USE HandlerIsAWorker DEF TypeOK, LoopEnter, LoopUnchanged, StartJob
<1>1. /\ task' = [task EXCEPT ![l] = "awaiting"]
      /\ job' = [job EXCEPT ![l] = "generate"]
      /\ wanted' = 0 /\ db' = db /\ seen' = seen
  OBVIOUS
<1>2. \A k \in Loops : job'[k] # "idle" => task'[k] = "awaiting"
  BY <1>1 DEF SchedulerInv
<1>3. NoStrandedRequest'
  BY <1>1 DEF NoStrandedRequest
<1>4. UnseenChangeIsPending'
  BY <1>1 DEF UnseenChangeIsPending
<1>5. QED
  BY <1>1, <1>2, <1>3, <1>4 DEF SchedulerInv

\* A loop that leaves `while` has seen no request, so clearing the flag strands
\* none.
LEMMA LoopExitKeepsScheduler ==
  ASSUME TypeOK, SchedulerInv, NEW l \in Loops, LoopExit(l), LoopUnchanged,
         job[l] # "generate"
  PROVE  SchedulerInv'
<1> USE HandlerIsAWorker DEF TypeOK
<1>1. /\ task' = [task EXCEPT ![l] = "none"]
      /\ job' = [job EXCEPT ![l] = "idle"]
      /\ wanted = 0 /\ wanted' = 0 /\ db' = db /\ seen' = seen
  BY DEF LoopExit, LoopUnchanged
<1>2. \A k \in Loops : job'[k] # "idle" => task'[k] = "awaiting"
  BY <1>1 DEF SchedulerInv
<1>3. NoStrandedRequest'
  <2>1. ~running'
    BY Zenon DEF LoopExit
  <2>2. QED
    BY <1>1, <2>1 DEF NoStrandedRequest
<1>4. UnseenChangeIsPending'
  BY <1>1 DEF SchedulerInv, UnseenChangeIsPending
<1>5. QED
  BY <1>1, <1>2, <1>3, <1>4 DEF SchedulerInv

\* A step of a worker that is not about to return to its loop.
LEMMA JobKeepsScheduler ==
  ASSUME TypeOK, SchedulerInv, NEW w \in Workers, JobStep(w)
  PROVE  SchedulerInv'
<1> USE HandlerIsAWorker DEF TypeOK
<1>1. UNCHANGED <<db, wanted, running, task>>
  BY DEF JobStep, Generate, OpenTmp, Dump, Replace, ReplaceFails, Terminate,
         Popen, RestartWireGuard, evVars
<1>2. PICK s \in Stages : job' = [job EXCEPT ![w] = s]
  BY DEF JobStep, Generate, OpenTmp, Dump, Replace, ReplaceFails, Terminate,
         Popen, RestartWireGuard, Step, AfterXray, Stages
<1>3. job[w] # "idle"
  BY DEF JobStep, Generate, OpenTmp, Dump, Replace, ReplaceFails, Terminate,
         Popen, RestartWireGuard, Step
<1>4. NoStrandedRequest'
  BY <1>1 DEF SchedulerInv, NoStrandedRequest
<1>5. \A l \in Loops : job'[l] # "idle" => task'[l] = "awaiting"
  BY <1>1, <1>2, <1>3 DEF SchedulerInv
<1>6. CASE Generate(w)
  <2>1. seen' = db
    BY <1>6 DEF Generate
  <2>2. UnseenChangeIsPending' /\ seen' <= db'
    BY <1>1, <2>1 DEF UnseenChangeIsPending, Versions
  <2>3. QED
    BY <1>4, <1>5, <2>2 DEF SchedulerInv
<1>7. CASE ~Generate(w)
  <2>1. job[w] # "generate" /\ seen' = seen
    BY <1>7 DEF JobStep, OpenTmp, Dump, Replace, ReplaceFails, Terminate,
                Popen, RestartWireGuard, Step
  <2>2. UnseenChangeIsPending' /\ seen' <= db'
    BY <1>1, <1>2, <2>1 DEF SchedulerInv, UnseenChangeIsPending
  <2>3. QED
    BY <1>4, <1>5, <2>2 DEF SchedulerInv
<1>8. QED
  BY <1>6, <1>7

(***************************************************************************)
(* No request to _reload_xray and no change it announces is ever lost, in  *)
(* any interleaving of handlers, loops and worker threads.                 *)
(***************************************************************************)
THEOREM SchedulerCorrect == Spec => []SchedulerInv
<1>1. Init => SchedulerInv
  <2> SUFFICES ASSUME Init PROVE SchedulerInv
    OBVIOUS
  <2>1. ~running
    BY Zenon DEF Init
  <2>2. QED
    BY <2>1, HandlerIsAWorker
       DEF Init, SchedulerInv, NoStrandedRequest, UnseenChangeIsPending
<1>2. TypeOK /\ SchedulerInv /\ [Next]_vars => SchedulerInv'
  <2> SUFFICES ASSUME TypeOK, SchedulerInv, [Next]_vars
               PROVE  SchedulerInv'
    OBVIOUS
  <2> USE HandlerIsAWorker
  <2>1. CASE ChangeAndReload
    <3>1. wanted' > 0 /\ UNCHANGED <<running, job, seen>> /\ seen' <= db'
      BY <2>1 DEF ChangeAndReload, ReloadXray, TypeOK, SchedulerInv, Versions
    <3>2. /\ \A l \in Loops : task[l] \in {"awaiting", "sleeping"} => task'[l] = task[l]
          /\ running => task' = task
          /\ ~running => \E l \in Loops : task'[l] = "spawned"
      BY <2>1 DEF ChangeAndReload, ReloadXray, TypeOK
    <3>3. NoStrandedRequest'
      BY <3>1, <3>2 DEF SchedulerInv, NoStrandedRequest
    <3>4. \A l \in Loops : job'[l] # "idle" => task'[l] = "awaiting"
      BY <3>1, <3>2 DEF SchedulerInv
    <3>5. QED
      BY <3>1, <3>3, <3>4 DEF SchedulerInv, UnseenChangeIsPending
  <2>2. CASE ChangeAndReloadDirectly
    <3>1. /\ UNCHANGED <<wanted, running, task, seen>>
          /\ job' = [job EXCEPT ![Handler] = "generate"]
          /\ seen' <= db'
      BY <2>2 DEF ChangeAndReloadDirectly, StartJob, evVars, TypeOK,
                  SchedulerInv, Versions
    <3>2. \A l \in Loops : job'[l] = job[l]
      BY <3>1, HandlerAssumption DEF TypeOK
    <3>3. job'[Handler] = "generate"
      BY <3>1 DEF TypeOK
    <3>4. NoStrandedRequest'
      BY <3>1 DEF SchedulerInv, NoStrandedRequest
    <3>5. QED
      BY <3>1, <3>2, <3>3, <3>4 DEF SchedulerInv, UnseenChangeIsPending
  <2>3. ASSUME NEW l \in Loops, LoopStep(l)
        PROVE  SchedulerInv'
    <3>1. CASE LoopStart(l) \/ LoopWake(l)
      <4>1. /\ job[l] # "generate" /\ LoopUnchanged
            /\ \/ /\ LoopEnter(l)
                    /\ running' \in {TRUE, running}
                 \/ LoopExit(l)
        BY <3>1 DEF LoopStart, LoopWake, SchedulerInv
      <4>2. QED
        BY <4>1, LoopEnterKeepsScheduler, LoopExitKeepsScheduler
    <3>2. CASE LoopResume(l)
      <4>1. job[l] = "done" /\ LoopUnchanged
        BY <3>2 DEF LoopResume
      <4>2. CASE LoopExit(l)
        BY <4>1, <4>2, LoopExitKeepsScheduler
      <4>3. CASE ~LoopExit(l)
        <5>1. /\ task' = [task EXCEPT ![l] = "sleeping"]
              /\ job' = [job EXCEPT ![l] = "idle"]
              /\ UNCHANGED <<wanted, running, db, seen>>
          BY <3>2, <4>3 DEF LoopResume, LoopUnchanged
        <5>2. NoStrandedRequest'
          BY <5>1 DEF NoStrandedRequest, TypeOK, SchedulerInv
        <5>3. \A k \in Loops : job'[k] # "idle" => task'[k] = "awaiting"
          BY <5>1 DEF SchedulerInv, TypeOK
        <5>4. UnseenChangeIsPending' /\ seen' <= db'
          BY <4>1, <5>1 DEF SchedulerInv, UnseenChangeIsPending, TypeOK
        <5>5. QED
          BY <5>2, <5>3, <5>4 DEF SchedulerInv
      <4>4. QED
        BY <4>2, <4>3
    <3>3. QED
      BY <2>3, <3>1, <3>2 DEF LoopStep
  <2>4. ASSUME NEW w \in Workers, JobStep(w)
        PROVE  SchedulerInv'
    BY <2>4, JobKeepsScheduler
  <2>stutter. CASE UNCHANGED vars
    BY <2>stutter DEF SchedulerInv, NoStrandedRequest, UnseenChangeIsPending, vars,
                evVars
  <2> QED
    BY <2>1, <2>2, <2>3, <2>4, <2>stutter DEF Next
<1>3. QED
  BY <1>1, <1>2, TypeCorrect, PTL DEF Spec

\* A counted request, or a set _reload_running, always has a live loop.
THEOREM NoRequestIsStranded == Spec => []NoStrandedRequest
<1>1. SchedulerInv => NoStrandedRequest
  BY DEF SchedulerInv
<1>2. QED
  BY <1>1, SchedulerCorrect, PTL

\* A change no generation has seen is still requested or about to be read.
THEOREM NoChangeIsDropped == Spec => []UnseenChangeIsPending
<1>1. SchedulerInv => UnseenChangeIsPending
  BY DEF SchedulerInv
<1>2. QED
  BY <1>1, SchedulerCorrect, PTL

-----------------------------------------------------------------------------
(***************************************************************************)
(* Reloads that never overlap.  SoloInv describes the files and the Xray   *)
(* process stage by stage of the only worker in progress; it says nothing  *)
(* once two workers have overlapped.                                       *)
(***************************************************************************)
SoloStage(w) ==
  /\ job[w] = "open" => snap[w] = seen
  /\ job[w] = "dump" => snap[w] = seen /\ tmp = Empty /\ fd[w] = "tmp"
  /\ job[w] = "replace" => tmp = seen
  /\ job[w] \in {"terminate", "popen"} => cfg = seen
  /\ job[w] = "popen" => serving = Dead
  /\ job[w] = "wireguard" => serving = seen

SoloInv ==
  ~overlapped =>
    /\ \A u, w \in Workers : Active(u) /\ Active(w) => u = w
    /\ tracked
    /\ \A w \in Workers : SoloStage(w)
    /\ (\A w \in Workers : ~Active(w)) => serving = seen

\* A reload that starts alone is the only one in progress.
LEMMA StartIsSolo ==
  ASSUME TypeOK, SoloInv, NEW w \in Workers, StartJob(w),
         UNCHANGED <<snap, fileVars, procVars, seen>>
  PROVE  SoloInv'
<1> SUFFICES ASSUME ~overlapped' PROVE SoloInv'
  BY DEF SoloInv
<1>1. ~overlapped /\ \A u \in Workers : ~Active(u)
  BY Zenon DEF StartJob
<1>2. job'[w] = "generate" /\ \A u \in Workers \ {w} : job'[u] = job[u]
  BY DEF StartJob, TypeOK
<1>3. tracked'
  BY <1>1, Zenon DEF SoloInv, procVars
<1>4. \A u \in Workers : SoloStage(u)'
  BY <1>1, <1>2 DEF SoloStage, Active
<1>5. \A u, v \in Workers : Active(u)' /\ Active(v)' => u = v
  BY <1>1, <1>2 DEF Active
<1>6. Active(w)'
  BY <1>2 DEF Active
<1>7. QED
  BY <1>3, <1>4, <1>5, <1>6 DEF SoloInv

\* A loop that parks or ends after its worker returned changes no reload.
LEMMA ParkedKeepsSolo ==
  ASSUME TypeOK, SoloInv, NEW l \in Workers, ~Active(l),
         job' = [job EXCEPT ![l] = "idle"],
         UNCHANGED <<snap, fileVars, procVars, seen, overlapped>>
  PROVE  SoloInv'
<1>1. \A u \in Workers : Active(u)' <=> Active(u)
  BY DEF Active, TypeOK
<1>2. \A u \in Workers : Active(u) => job'[u] = job[u]
  BY DEF Active, TypeOK
<1>3. \A u \in Workers : SoloStage(u) => SoloStage(u)'
  BY <1>1, <1>2 DEF SoloStage, Active, fileVars, procVars
<1>4. (~overlapped => tracked) => (~overlapped' => tracked')
  BY Zenon DEF procVars
<1>5. serving' = serving /\ seen' = seen /\ (overlapped' <=> overlapped)
  BY Zenon DEF procVars
<1>6. QED
  BY <1>1, <1>3, <1>4, <1>5 DEF SoloInv

\* The steps of the only worker in progress.
LEMMA JobKeepsSolo ==
  ASSUME TypeOK, SoloInv, NEW w \in Workers, JobStep(w)
  PROVE  SoloInv'
<1> SUFFICES ASSUME ~overlapped' PROVE SoloInv'
  BY DEF SoloInv
<1>1. overlapped' = overlapped
  BY DEF JobStep, Generate, OpenTmp, Dump, Replace, ReplaceFails, Terminate,
         Popen, RestartWireGuard
<1>2. ~overlapped
  BY <1>1, Zenon
<1>3. Active(w) /\ \A u \in Workers \ {w} : ~Active(u)
  <2>1. Active(w)
    BY DEF JobStep, Generate, OpenTmp, Dump, Replace, ReplaceFails, Terminate,
           Popen, RestartWireGuard, Step, Active
  <2>2. QED
    BY <1>2, <2>1 DEF SoloInv
<1>4. \A u \in Workers \ {w} : job'[u] = job[u]
  BY DEF JobStep, Generate, OpenTmp, Dump, Replace, ReplaceFails, Terminate,
         Popen, RestartWireGuard, Step, TypeOK
<1>5. \A u \in Workers \ {w} : ~Active(u)' /\ SoloStage(u)'
  BY <1>3, <1>4 DEF Active, SoloStage
<1>6. \A u, v \in Workers : Active(u)' /\ Active(v)' => u = v
  BY <1>5
<1>7. SoloStage(w) /\ tracked
  BY <1>2, Zenon DEF SoloInv
<1>8. /\ tracked'
      /\ SoloStage(w)'
      /\ ~Active(w)' => serving' = seen'
  <2> USE ContentsDistinct DEF SoloStage, TypeOK, Step, AfterXray, Active,
                               fileVars, procVars
  <2>1. CASE Generate(w)
    <3>1. tracked'
      BY <1>7, <2>1, Zenon DEF Generate, procVars
    <3>2. QED
      BY <2>1, <3>1 DEF Generate
  <2>2. CASE OpenTmp(w)
    <3>1. tracked'
      BY <1>7, <2>2, Zenon DEF OpenTmp, procVars
    <3>2. QED
      BY <1>7, <2>2, <3>1 DEF OpenTmp
  <2>3. CASE Dump(w)
    <3>1. tracked'
      BY <1>7, <2>3, Zenon DEF Dump, procVars
    <3>2. tmp = Empty /\ snap[w] = seen /\ fd[w] = "tmp"
      BY <1>7, <2>3 DEF Dump
    <3>3. Written(tmp, snap[w]) = {seen}
      BY <3>2 DEF Written
    <3>4. tmp' = seen
      BY <2>3, <3>2, <3>3 DEF Dump
    <3>5. QED
      BY <2>3, <3>1, <3>4 DEF Dump
  <2>4. CASE Replace(w)
    <3>1. tracked'
      BY <1>7, <2>4, Zenon DEF Replace, procVars
    <3>2. QED
      BY <1>7, <2>4, <3>1 DEF Replace
  <2>5. CASE ReplaceFails(w)
    BY <1>7, <2>5 DEF ReplaceFails
  <2>6. CASE Terminate(w)
    <3>1. tracked'
      BY <1>7, <2>6, Zenon DEF Terminate
    <3>2. serving' = Dead
      BY <1>7, <2>6 DEF Terminate
    <3>3. QED
      BY <1>7, <2>6, <3>1, <3>2 DEF Terminate
  <2>7. CASE Popen(w)
    <3>1. serving = Dead /\ cfg = seen /\ cfg \in Versions
      BY <1>7, <2>7 DEF Popen
    <3>2. serving' = seen
      BY <2>7, <3>1 DEF Popen
    <3>3. tracked'
      BY <2>7, <3>1 DEF Popen
    <3>4. job'[w] \in {"idle", "wireguard"} /\ seen' = seen
      BY <2>7 DEF Popen
    <3>5. QED
      BY <3>2, <3>3, <3>4
  <2>8. CASE RestartWireGuard(w)
    <3>1. tracked'
      BY <1>7, <2>8, Zenon DEF RestartWireGuard, procVars
    <3>2. QED
      BY <1>7, <2>8, <3>1 DEF RestartWireGuard
  <2>9. QED
    BY <2>1, <2>2, <2>3, <2>4, <2>5, <2>6, <2>7, <2>8 DEF JobStep
<1>9. QED
  BY <1>5, <1>6, <1>8 DEF SoloInv

\* While reloads never overlap, the one in progress owns the files and Xray.
LEMMA SoloCorrect == Spec => []SoloInv
<1>1. Init => SoloInv
  <2> SUFFICES ASSUME Init PROVE SoloInv
    OBVIOUS
  <2>1. tracked
    BY Zenon DEF Init
  <2>2. QED
    BY <2>1 DEF Init, SoloInv, SoloStage, Active
<1>2. TypeOK /\ SchedulerInv /\ SoloInv /\ [Next]_vars => SoloInv'
  <2> SUFFICES ASSUME TypeOK, SchedulerInv, SoloInv, [Next]_vars
               PROVE  SoloInv'
    OBVIOUS
  <2> USE HandlerIsAWorker
  <2>1. CASE ChangeAndReload
    <3>1. UNCHANGED <<job, snap, fd, tmp, cfg, serving, tracked, seen, overlapped>>
      BY <2>1 DEF ChangeAndReload, fileVars, procVars
    <3>2. QED
      BY <3>1 DEF SoloInv, SoloStage, Active
  <2>2. CASE ChangeAndReloadDirectly
    BY <2>2, StartIsSolo DEF ChangeAndReloadDirectly
  <2>3. ASSUME NEW l \in Loops, LoopStep(l)
        PROVE  SoloInv'
    <3>1. CASE LoopEnter(l)
      BY <2>3, <3>1, StartIsSolo
         DEF LoopStep, LoopStart, LoopResume, LoopWake, LoopUnchanged, LoopEnter
    <3>2. CASE ~LoopEnter(l)
      <4>1. /\ ~Active(l)
            /\ job' = [job EXCEPT ![l] = "idle"]
            /\ UNCHANGED <<snap, fileVars, procVars, seen, overlapped>>
        BY <2>3, <3>2 DEF LoopStep, LoopStart, LoopResume, LoopWake, LoopExit,
                          LoopUnchanged, Active, SchedulerInv
      <4>2. QED
        BY <4>1, ParkedKeepsSolo
    <3>3. QED
      BY <3>1, <3>2
  <2>4. ASSUME NEW w \in Workers, JobStep(w)
        PROVE  SoloInv'
    BY <2>4, JobKeepsSolo
  <2>stutter. CASE UNCHANGED vars
    BY <2>stutter DEF vars, fileVars, procVars, SoloInv, SoloStage, Active
  <2> QED
    BY <2>1, <2>2, <2>3, <2>4, <2>stutter DEF Next
<1>3. QED
  BY <1>1, <1>2, TypeCorrect, SchedulerCorrect, PTL DEF Spec

(***************************************************************************)
(* As long as no two reloads have overlapped, a quiet panel serves the     *)
(* newest database and holds the handle of the process that serves it.     *)
(***************************************************************************)
THEOREM SerialReloadsAreServed == Spec => []SerialReloadsServeTheDatabase
<1>1. TypeOK /\ SchedulerInv /\ SoloInv => SerialReloadsServeTheDatabase
  <2> SUFFICES ASSUME TypeOK, SchedulerInv, SoloInv, Quiet, ~overlapped
               PROVE  serving = db /\ tracked
    BY DEF SerialReloadsServeTheDatabase
  <2>1. wanted = 0 /\ \A w \in Workers : ~Active(w)
    BY DEF Quiet
  <2>2. seen = db
    BY <2>1 DEF SchedulerInv, UnseenChangeIsPending, Active, TypeOK, Versions
  <2>3. serving = seen /\ tracked
    BY <2>1, Zenon DEF SoloInv
  <2>4. QED
    BY <2>2, <2>3
<1>2. QED
  BY <1>1, TypeCorrect, SchedulerCorrect, SoloCorrect, PTL

-----------------------------------------------------------------------------
(***************************************************************************)
(* The safety half of KeepsReloadPromise: every behaviour of the scheduler *)
(* is one of ReloadPromise.  Its liveness half is checked by TLC.          *)
(***************************************************************************)
THEOREM RefinesReloadPromise ==
  Spec => Promise!Init /\ [][Promise!Next]_(Promise!vars)
<1> USE DEF Promise!vars, Promise!Next, Promise!Change, Promise!Generate
<1>1. Init => Promise!Init
  BY DEF Init, Promise!Init
<1>2. ASSUME NEW l \in Loops, LoopStep(l)
      PROVE  UNCHANGED Promise!vars
  \* The scheduler only decides when a reload runs: it changes no version.
  BY <1>2 DEF LoopStep, LoopStart, LoopResume, LoopWake, LoopUnchanged
<1>3. ASSUME NEW w \in Workers, JobStep(w)
      PROVE  Promise!Next \/ UNCHANGED Promise!vars
  \* Of a reload's steps, only reading the table is one of the promise's.
  BY <1>3 DEF JobStep, Generate, OpenTmp, Dump, Replace, ReplaceFails,
              Terminate, Popen, RestartWireGuard
<1>4. ChangeAndReload \/ ChangeAndReloadDirectly => Promise!Next
  BY DEF ChangeAndReload, ChangeAndReloadDirectly
<1>5. Next => [Promise!Next]_(Promise!vars)
  BY <1>2, <1>3, <1>4 DEF Next
<1>6. UNCHANGED vars => UNCHANGED Promise!vars
  BY DEF vars
<1> QED
  BY <1>1, <1>5, <1>6, PTL DEF Spec

-----------------------------------------------------------------------------
(***************************************************************************)
(* Whom the panels serve once reloads are done (Enforcement), for every    *)
(* number of panels, users and changes.                                    *)
(***************************************************************************)

\* A node's recorded hash describes the rows it has, but for users the node has
\* disabled itself because their date, as it has it, is past.
HashDescribesRows ==
  \A n \in Nodes : \A row \in hash[n] :
    /\ rows[n].have = row.have
    /\ rows[n].on \subseteq row.on
    /\ row.on \ rows[n].on \subseteq Lapsed(n)

\* The inductive invariant: a reload of a node loads its rows, so these have
\* to agree with the hash even while the reload is outstanding.
EnforcementInv == EnforcementTypeOK /\ HashDescribesRows /\ OnlyAutoDisabledLinger

\* The invariant holds when the panels start.
LEMMA InitiallyEnforced == EnforcementInit => EnforcementInv
<1> SUFFICES ASSUME EnforcementInit PROVE EnforcementInv
  OBVIOUS
<1>1. EnforcementTypeOK
  BY DateAssumption, RawAssumption
  DEF EnforcementInit, EnforcementTypeOK, Rows, DatesOf, At, Panels
<1>2. HashDescribesRows
  BY DEF EnforcementInit, HashDescribesRows
<1>3. OnlyAutoDisabledLinger
  BY DEF EnforcementInit, OnlyAutoDisabledLinger, At, Panels
<1> QED BY <1>1, <1>2, <1>3 DEF EnforcementInv

\* A step that changes neither what the nodes have nor what is served, lets
\* dates only pass, and disables users by itself or requests a reload, keeps
\* the invariant.
LEMMA MainStepKeepsEnforced ==
  ASSUME EnforcementInv, EnforcementTypeOK', UNCHANGED <<served, syncVars>>,
         past \subseteq past', reload \subseteq reload',
         \/ Main \in reload'
         \/ /\ UNCHANGED deleted
            /\ enabled' \subseteq enabled /\ enabled' \cup auto' = enabled \cup auto
  PROVE  EnforcementInv'
<1>0. /\ UNCHANGED <<served, hash, rows>>
      /\ \A n : Lapsed(n) \subseteq (Lapsed(n))'
  BY DEF syncVars, Lapsed
<1>1. HashDescribesRows'
  BY <1>0 DEF EnforcementInv, HashDescribesRows
<1>2. OnlyAutoDisabledLinger'
  <2>1. Main \notin reload' => /\ At(Main) \cap enabled' \subseteq served'[Main]
                               /\ served'[Main] \subseteq (enabled' \cup auto' \cup Raw) \ deleted'
    BY DEF EnforcementInv, OnlyAutoDisabledLinger, At
  <2>2. \A n \in Nodes \ reload' : \A row \in hash'[n] :
          Clients(row) \ (Lapsed(n))' \subseteq served'[n] /\ served'[n] \subseteq Clients(row)
    BY <1>0 DEF EnforcementInv, OnlyAutoDisabledLinger
  <2> QED BY <2>1, <2>2 DEF OnlyAutoDisabledLinger, At
<1> QED BY <1>1, <1>2 DEF EnforcementInv

\* The payloads of the main panel and the rows of the nodes are well typed.
LEMMA RowTypes ==
  ASSUME EnforcementTypeOK
  PROVE  /\ \A p \in Panels : Payload(p) \in Payloads
         /\ \A old \in Rows, new \in Payloads : Received(old, new) \in Rows
         /\ \A p \in Panels : Loadable(p) \subseteq Users
<1>1. ASSUME NEW p \in Panels
      PROVE  Payload(p) \in Payloads
  BY RawAssumption DEF Payload, Payloads, DatesOf, At, EnforcementTypeOK
<1>2. ASSUME NEW old \in Rows, NEW new \in Payloads
      PROVE  Received(old, new) \in Rows
  BY DEF Received, Rows, Payloads, DatesOf
<1>3. ASSUME NEW p \in Panels
      PROVE  Loadable(p) \subseteq Users
  BY RawAssumption DEF Loadable, Clients, Payload, At, EnforcementTypeOK, Rows, Panels
<1> QED BY <1>1, <1>2, <1>3

\* Every step keeps the variables well typed.
LEMMA EnforcementKeepsTypes ==
  ASSUME EnforcementTypeOK, [EnforcementNext]_enforcementVars
  PROVE  EnforcementTypeOK'
<1> USE DEF EnforcementTypeOK
<1>1. ASSUME NEW u \in Users, Enable(u) \/ Disable(u) \/ Delete(u) \/ ResetUsage(u)
      PROVE  EnforcementTypeOK'
  BY <1>1 DEF Enable, Disable, Delete, ResetUsage, RequestReload, DatesOf, dateVars,
              syncVars, Panels
<1>2. ASSUME NEW u \in Users, ChangeQuota(u)
      PROVE  EnforcementTypeOK'
  BY <1>2 DEF ChangeQuota, RequestReload, dateVars, syncVars, Panels
<1>3. ASSUME NEW u \in Users, NEW d \in Dates \cup {NoDate}, Renew(u, d)
      PROVE  EnforcementTypeOK'
  BY <1>3 DEF Renew, RequestReload, DatesOf, syncVars, Panels
<1>4. ASSUME NEW u \in Users, Carry(u) \/ MergeReport(u)
      PROVE  EnforcementTypeOK'
  BY <1>4 DEF Carry, MergeReport, Counted, adminVars, dateVars, syncVars
<1>5. ASSUME NEW u \in Users, FlushLocal(u)
      PROVE  EnforcementTypeOK'
  BY <1>5 DEF FlushLocal, Counted, AutoDisable, dateVars, syncVars
<1>6. ASSUME NEW d \in Dates, Expire(d)
      PROVE  EnforcementTypeOK'
  BY <1>6 DEF Expire, syncVars
<1>7. CASE Housekeeping
  BY <1>7 DEF Housekeeping, AutoDisable, dateVars, syncVars
<1>8. ASSUME NEW n \in Nodes, Push(n)
      PROVE  EnforcementTypeOK'
  <2>1. Payload(n) \in Payloads /\ Received(rows[n], Payload(n)) \in Rows
    BY RowTypes DEF Panels
  <2> QED BY <1>8, <2>1 DEF Push, adminVars, dateVars, Panels
<1>9. ASSUME NEW n \in Nodes, NodeHousekeeping(n)
      PROVE  EnforcementTypeOK'
  BY <1>9 DEF NodeHousekeeping, Rows, adminVars, dateVars
<1>10. ASSUME NEW p \in Panels, Reload(p) \/ ReloadAnyway(p)
       PROVE  EnforcementTypeOK'
  <2>1. Loadable(p) \subseteq Users
    BY RowTypes
  <2> QED BY <1>10, <2>1 DEF Reload, ReloadAnyway, adminVars, dateVars, syncVars
<1>11. CASE UNCHANGED enforcementVars
  BY <1>11 DEF enforcementVars, adminVars, dateVars, syncVars
<1> QED BY <1>1, <1>2, <1>3, <1>4, <1>5, <1>6, <1>7, <1>8, <1>9, <1>10, <1>11
        DEF EnforcementNext

\* A push keeps the invariant: the node takes over what main will record, and
\* a reload that is now requested covers what it serves until then.
LEMMA PushKeepsEnforced ==
  ASSUME EnforcementInv, EnforcementTypeOK', NEW n \in Nodes, Push(n)
  PROVE  EnforcementInv'
<1> USE DEF EnforcementTypeOK
<1>1. /\ hash \in [Nodes -> SUBSET Payloads] /\ rows \in [Nodes -> Rows]
      /\ hash' = [hash EXCEPT ![n] = {Payload(n)}]
      /\ rows' = [rows EXCEPT ![n] = Received(@, Payload(n))]
      /\ reload' = reload \cup {n} /\ n # Main
      /\ UNCHANGED <<served, deleted, enabled, auto, past>>
  BY MainAssumption DEF EnforcementInv, Push, adminVars, dateVars
<1>2. \A m \in Nodes \ {n} : /\ hash'[m] = hash[m] /\ rows'[m] = rows[m]
                             /\ (Lapsed(m))' = Lapsed(m)
  BY <1>1 DEF Lapsed
<1>3. rows'[n].have = Payload(n).have /\ rows'[n].on = Payload(n).on
  BY <1>1 DEF Received
<1>4. HashDescribesRows'
  BY <1>1, <1>2, <1>3 DEF EnforcementInv, HashDescribesRows
<1>5. OnlyAutoDisabledLinger'
  BY <1>1, <1>2 DEF EnforcementInv, OnlyAutoDisabledLinger, At
<1> QED BY <1>4, <1>5 DEF EnforcementInv

\* So does a node that disables users: they are ones whose date is past.
LEMMA NodeHousekeepingKeepsEnforced ==
  ASSUME EnforcementInv, EnforcementTypeOK', NEW n \in Nodes, NodeHousekeeping(n)
  PROVE  EnforcementInv'
<1>1. /\ rows \in [Nodes -> Rows]
      /\ rows' = [rows EXCEPT ![n].on = @ \ Lapsed(n)]
      /\ UNCHANGED <<hash, served, deleted, enabled, auto, past, reload>>
  BY DEF EnforcementInv, EnforcementTypeOK, NodeHousekeeping, adminVars, dateVars
<1>2. \A m \in Nodes \ {n} : rows'[m] = rows[m]
  BY <1>1
<1>3. /\ rows'[n].have = rows[n].have /\ rows'[n].date = rows[n].date
      /\ rows'[n].on = rows[n].on \ Lapsed(n)
  BY <1>1 DEF Rows
<1>4. \A m \in Nodes : (Lapsed(m))' = Lapsed(m)
  BY <1>1, <1>2, <1>3 DEF Lapsed
<1>5. ASSUME NEW m \in Nodes, NEW row \in hash[m]
      PROVE  /\ rows'[m].have = row.have /\ rows'[m].on \subseteq row.on
             /\ row.on \ rows'[m].on \subseteq Lapsed(m)
  BY <1>2, <1>3 DEF EnforcementInv, HashDescribesRows
<1>6. HashDescribesRows'
  BY <1>1, <1>4, <1>5 DEF HashDescribesRows
<1>7. OnlyAutoDisabledLinger'
  BY <1>1, <1>4 DEF EnforcementInv, OnlyAutoDisabledLinger, At
<1> QED BY <1>6, <1>7 DEF EnforcementInv

\* A reload keeps the invariant: main loads its enabled users, a node what its
\* hash says less users it has disabled.
LEMMA ReloadKeepsEnforced ==
  ASSUME EnforcementInv, EnforcementTypeOK', NEW p \in Panels, Reload(p)
  PROVE  EnforcementInv'
<1>1. /\ UNCHANGED <<deleted, enabled, auto, past, hash, rows>>
      /\ reload' = reload \ {p}
      /\ served'[p] = Loadable(p)
      /\ \A q \in Panels \ {p} : served'[q] = served[q]
  BY DEF Reload, adminVars, dateVars, syncVars, EnforcementInv, EnforcementTypeOK
<1>2. \A n : (Lapsed(n))' = Lapsed(n)
  BY <1>1 DEF Lapsed
<1>3. HashDescribesRows'
  BY <1>1, <1>2 DEF EnforcementInv, HashDescribesRows
<1>4. Main \notin reload' => /\ At(Main) \cap enabled \subseteq served'[Main]
                             /\ served'[Main] \subseteq (enabled \cup auto \cup Raw) \ deleted
  <2>1. CASE p = Main
    BY <1>1, <2>1, RawAssumption
    DEF Loadable, Clients, Payload, EnforcementInv, EnforcementTypeOK
  <2>2. CASE p # Main
    BY <1>1, <2>2 DEF EnforcementInv, OnlyAutoDisabledLinger, Panels
  <2> QED BY <2>1, <2>2
<1>5. ASSUME NEW n \in Nodes \ reload', NEW row \in hash[n]
      PROVE  Clients(row) \ Lapsed(n) \subseteq served'[n] /\ served'[n] \subseteq Clients(row)
  <2>1. CASE p = n
    <3>1. served'[n] = Clients(rows[n])
      BY <1>1, <2>1, MainAssumption DEF Loadable
    <3>2. /\ rows[n].have = row.have /\ rows[n].on \subseteq row.on
          /\ row.on \ rows[n].on \subseteq Lapsed(n)
      BY DEF EnforcementInv, HashDescribesRows
    <3> QED BY <3>1, <3>2 DEF Clients
  <2>2. CASE p # n
    <3>1. n \in Nodes \ reload /\ served'[n] = served[n]
      BY <1>1, <2>2 DEF Panels
    <3> QED BY <3>1 DEF EnforcementInv, OnlyAutoDisabledLinger
  <2> QED BY <2>1, <2>2
<1>6. OnlyAutoDisabledLinger'
  BY <1>1, <1>2, <1>4, <1>5 DEF OnlyAutoDisabledLinger, At
<1> QED BY <1>3, <1>6 DEF EnforcementInv

\* Every step keeps the invariant.
LEMMA NextKeepsEnforced == EnforcementInv /\ [EnforcementNext]_enforcementVars => EnforcementInv'
<1> SUFFICES ASSUME EnforcementInv, [EnforcementNext]_enforcementVars PROVE EnforcementInv'
  OBVIOUS
<1>0. EnforcementTypeOK'
  BY EnforcementKeepsTypes DEF EnforcementInv
<1>1. ASSUME NEW u \in Users,
             \/ Enable(u) \/ Disable(u) \/ Delete(u) \/ ChangeQuota(u)
             \/ \E d \in Dates \cup {NoDate} : Renew(u, d)
      PROVE  EnforcementInv'
  <2>1. /\ UNCHANGED <<served, syncVars, past>>
        /\ reload \subseteq reload' /\ Main \in reload'
    BY <1>1 DEF Enable, Disable, Delete, ChangeQuota, Renew, RequestReload, dateVars
  <2> QED BY <1>0, <2>1, MainStepKeepsEnforced
<1>2. ASSUME NEW u \in Users, ResetUsage(u) \/ Carry(u) \/ MergeReport(u)
      PROVE  EnforcementInv'
  <2>1. UNCHANGED <<served, syncVars, reload, deleted, enabled, auto, past>>
    BY <1>2 DEF ResetUsage, Carry, MergeReport, adminVars, dateVars
  <2> QED BY <1>0, <2>1, MainStepKeepsEnforced
<1>3. ASSUME NEW d \in Dates, Expire(d)
      PROVE  EnforcementInv'
  <2>1. UNCHANGED <<served, syncVars, reload, deleted, enabled, auto>> /\ past \subseteq past'
    BY <1>3 DEF Expire
  <2> QED BY <1>0, <2>1, MainStepKeepsEnforced
<1>4. CASE Housekeeping \/ \E u \in Users : FlushLocal(u)
  <2>1. PICK S : AutoDisable(S) /\ UNCHANGED <<served, syncVars, reload, deleted, past>>
    BY <1>4 DEF Housekeeping, FlushLocal, dateVars
  <2>2. enabled' \subseteq enabled /\ enabled' \cup auto' = enabled \cup auto
    BY <2>1 DEF AutoDisable
  <2> QED BY <1>0, <2>1, <2>2, MainStepKeepsEnforced
<1>5. ASSUME NEW p \in Panels, ReloadAnyway(p)
      PROVE  EnforcementInv'
  <2>1. UNCHANGED <<served, syncVars, deleted, enabled, auto, past>> /\ reload \subseteq reload'
    BY <1>5 DEF ReloadAnyway, adminVars, dateVars
  <2> QED BY <1>0, <2>1, MainStepKeepsEnforced
<1>6. ASSUME NEW n \in Nodes, Push(n) \/ NodeHousekeeping(n)
      PROVE  EnforcementInv'
  BY <1>0, <1>6, PushKeepsEnforced, NodeHousekeepingKeepsEnforced
<1>7. ASSUME NEW p \in Panels, Reload(p)
      PROVE  EnforcementInv'
  BY <1>0, <1>7, ReloadKeepsEnforced
<1>8. CASE UNCHANGED enforcementVars
  <2>1. UNCHANGED <<served, syncVars, reload, deleted, enabled, auto, past>>
    BY <1>8 DEF enforcementVars, adminVars, dateVars
  <2> QED BY <1>0, <2>1, MainStepKeepsEnforced
<1> QED BY <1>1, <1>2, <1>3, <1>4, <1>5, <1>6, <1>7, <1>8 DEF EnforcementNext

\* When no reload is outstanding, main serves every enabled user and, of the
\* disabled ones, only those it has disabled itself and those on raw TCP; a node
\* serves what it was pushed, but for users whose date it holds to be past.
THEOREM WhoIsServed == EnforcementSpec => []OnlyAutoDisabledLinger
<1>1. EnforcementInv => OnlyAutoDisabledLinger
  BY DEF EnforcementInv
<1> QED BY <1>1, InitiallyEnforced, NextKeepsEnforced, PTL DEF EnforcementSpec

\* The sets kept by the panels are sets of users, and a user counts as
\* disabled by the panel itself only while it is disabled.
THEOREM EnforcementTypeCorrect == EnforcementSpec => []EnforcementTypeOK
<1>1. EnforcementInv => EnforcementTypeOK
  BY DEF EnforcementInv
<1> QED BY <1>1, InitiallyEnforced, NextKeepsEnforced, PTL DEF EnforcementSpec
=============================================================================
