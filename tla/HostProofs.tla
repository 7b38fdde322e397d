----------------------------- MODULE HostProofs -----------------------------
(***************************************************************************)
(* What is proved about the host of a stream: its application (Process)    *)
(* and its monitors (VirtualDisplay).                                      *)
(*                                                                         *)
(* Process, for one thread t and any list of applications with any prep    *)
(* commands: HostInv is inductive; HostMatchesApp and UndoInOrder follow   *)
(* from it.                                                                *)
(*                                                                         *)
(* VirtualDisplayInv is inductive for any number of outputs and of         *)
(* abnormal ends, provided that none of the Faults happens: no kill        *)
(* between a command and the file, no command and no write that fails.     *)
(***************************************************************************)
EXTENDS Process, VirtualDisplay, TLAPS

(***************************************************************************)
(* The application.                                                        *)
(***************************************************************************)

\* Before the first command nothing is owed.
LEMMA NothingPassed == \A a : Passed(a, 0) = {}
  <1>1. 1..0 = {}
    BY SMT
  <1>2. QED
    BY <1>1 DEF Passed

\* Passing one more command adds its undo command, if it has one.
LEMMA PassOne ==
  ASSUME NEW a, NEW n \in Nat
  PROVE  Passed(a, n + 1) = Passed(a, n) \cup {<<a, i>> : i \in {j \in {n + 1} : HasUndo(a, j)}}
  <1>1. 1..(n + 1) = (1..n) \cup {n + 1}
    BY SMT
  <1>2. QED
    BY <1>1 DEF Passed

\* Undoing the last one leaves the ones before.
LEMMA UndoLast ==
  ASSUME NEW a, NEW n \in Nat, n > 0
  PROVE  Passed(a, n) \ {<<a, n>>} = Passed(a, n - 1)
  <1>1. 1..n = (1..(n - 1)) \cup {n} /\ n \notin 1..(n - 1)
    BY SMT
  <1>2. \A i, j : <<a, i>> = <<a, j>> <=> i = j
    OBVIOUS
  <1>3. QED
    BY <1>1, <1>2 DEF Passed

\* What is owed belongs to the application and lies before the iterator.
LEMMA PassedBounds ==
  ASSUME NEW a, NEW n \in Nat
  PROVE  /\ \A c \in Passed(a, n) : c[1] = a /\ c[2] <= n
         /\ \A i \in 1..n : HasUndo(a, i) => <<a, i>> \in Passed(a, n)
  BY DEF Passed

\* Types, for what a thread remembers.
ThreadTypes ==
  /\ pc \in [Threads -> {"idle", "check", "stop", "kill", "undo", "undoing", "prepare",
                         "probe", "prep", "input"}]
  /\ op \in [Threads -> {"none", "poll", "pause", "cancel", "launch", "close", "execute", "fail"}]
  /\ arg \in [Threads -> Entries]

\* The end of an operation keeps them.
LEMMA FinishTypes ==
  ASSUME NEW t, ThreadTypes, Finish(t)
  PROVE  ThreadTypes'
  BY DEF Finish, Goto, ThreadTypes, Entries

\* So does its failure.
LEMMA FailTypes ==
  ASSUME NEW t, ThreadTypes, Fail(t)
  PROVE  ThreadTypes'
  BY DEF Fail, Goto, ThreadTypes

\* The initial state.
LEMMA InitHolds ==
  ASSUME NEW t, Threads = {t}, Init
  PROVE  HostInv
  BY ProcessAssumption, NothingPassed
     DEF Init, HostInv, Types, OpsAndSteps, Ledger, Settings, Stages, Entries

\* Running keeps each part.
LEMMA RunningStep ==
  ASSUME NEW t, Threads = {t}, HostInv, Running(t)
  PROVE  HostInv'
  <1>1. Types'
    BY DEF Running, Decide, Execute, Finish, Continue, Goto, worldVars, HostInv, Types,
           Entries
  <1>2. OpsAndSteps'
    BY DEF Running, Decide, Execute, Finish, Continue, Goto, HostInv, Types, OpsAndSteps
  <1>3. Ledger'
    BY DEF Running, Decide, Execute, Finish, Continue, Goto, worldVars, HostInv, Types,
           Ledger
  <1>4. Settings'
    BY DEF Running, worldVars, HostInv, OpsAndSteps, Settings
  <1>5. Stages'
    BY ProcessAssumption
       DEF Running, Decide, Execute, Finish, Continue, Goto, Alive, Detaches, LeftOver,
           HostInv, Types, Stages
  <1>6. QED
    BY <1>1, <1>2, <1>3, <1>4, <1>5 DEF HostInv

\* Stop keeps each part.
LEMMA StopStep ==
  ASSUME NEW t, Threads = {t}, HostInv, Stop(t)
  PROVE  HostInv'
  <1>1. Types'
    BY DEF Stop, Continue, Goto, worldVars, HostInv, Types
  <1>2. OpsAndSteps'
    BY DEF Stop, Continue, Goto, HostInv, OpsAndSteps
  <1>3. Ledger'
    BY DEF Stop, Continue, Goto, worldVars, HostInv, Ledger
  <1>4. Settings'
    BY DEF Stop, Continue, worldVars, HostInv, Settings
  <1>5. Stages'
    BY DEF Stop, Continue, Goto, Stages
  <1>6. QED
    BY <1>1, <1>2, <1>3, <1>4, <1>5 DEF HostInv

\* Kill keeps each part.
LEMMA KillStep ==
  ASSUME NEW t, Threads = {t}, HostInv, Kill(t)
  PROVE  HostInv'
  <1>1. Types'
    BY DEF Kill, Continue, Goto, worldVars, HostInv, Types
  <1>2. OpsAndSteps'
    BY DEF Kill, Continue, Goto, HostInv, OpsAndSteps
  <1>3. Ledger'
    BY DEF Kill, Continue, Goto, worldVars, HostInv, Ledger
  <1>4. Settings'
    BY DEF Kill, Continue, worldVars, HostInv, Settings
  <1>5. Stages'
    BY DEF Kill, Continue, Goto, HostInv, Stages
  <1>6. QED
    BY <1>1, <1>2, <1>3, <1>4, <1>5 DEF HostInv

\* Undo keeps each part.
LEMMA UndoStep ==
  ASSUME NEW t, Threads = {t}, HostInv, Undo(t)
  PROVE  HostInv'
  <1>1. Types'
    BY DEF Undo, Continue, Goto, procVars, HostInv, Types
  <1>2. OpsAndSteps'
    BY DEF Undo, Continue, Goto, HostInv, OpsAndSteps
  <1>3. Ledger'
    BY UndoLast DEF Undo, MoreToUndo, Continue, Goto, procVars, HostInv, Types, Ledger
  <1>4. Settings'
    BY DEF Undo, Continue, procVars, HostInv, Settings
  <1>5. Stages'
    BY DEF Undo, Continue, Goto, procVars, HostInv, Stages
  <1>6. QED
    BY <1>1, <1>2, <1>3, <1>4, <1>5 DEF HostInv

\* Undone keeps each part.
LEMMA UndoneStep ==
  ASSUME NEW t, Threads = {t}, HostInv, Undone(t)
  PROVE  HostInv'
  <1>1. Types'
    BY DEF Undone, Continue, Goto, worldVars, HostInv, Types, Ledger
  <1>2. OpsAndSteps'
    BY DEF Undone, Continue, Goto, HostInv, OpsAndSteps
  <1>3. Ledger'
    BY DEF Undone, Continue, Goto, worldVars, HostInv, Types, Ledger
  <1>4. Settings'
    BY DEF Undone, Continue, worldVars, HostInv, Settings
  <1>5. Stages'
    BY DEF Undone, Continue, Goto, HostInv, Stages
  <1>6. QED
    BY <1>1, <1>2, <1>3, <1>4, <1>5 DEF HostInv

\* Stopped keeps each part.
LEMMA StoppedStep ==
  ASSUME NEW t, Threads = {t}, HostInv, Stopped(t)
  PROVE  HostInv'
  <1>1. /\ it = 0 /\ owed = {} /\ ~placebo /\ child = "null"
        /\ pc[t] = "undo" /\ app' = NoApp /\ owed' = owed
        /\ vdisplay' = FALSE /\ saved' = FALSE
    BY NothingPassed DEF Stopped, MoreToUndo, RestoreInput, HostInv, Types, Ledger, Stages
  <1>2. it' = 0 /\ placebo' = FALSE /\ child' = "null" /\ group' \in {"null", "busy", "empty"}
        /\ recent' \in BOOLEAN
    <2>1. placebo = FALSE
      BY <1>1 DEF HostInv, Types
    <2>2. CASE UNCHANGED <<placebo, child, group, recent, it>>
      BY <1>1, <2>2 DEF HostInv, Types
    <2>3. CASE placebo' = FALSE /\ child' = "null" /\ group' = "null" /\ recent' = FALSE /\ it' = 0
      BY <2>3
    <2>4. QED
      BY <2>2 DEF Stopped, Refresh
  <1>3. /\ outputName' \in {"user", "empty"} /\ initial' = "empty"
        /\ inputCfg' = "user"
    BY ProcessAssumption DEF Stopped, RestoreOutput, RestoreInput, HostInv, Types, Settings
  <1>4. \/ op[t] = "execute" /\ Continue(t, "prepare")
        \/ op[t] = "launch" /\ arg[t] = InputApp /\ Continue(t, "input")
        \/ op[t] = "launch" /\ arg[t] \in Apps /\ Execute(t)
        \/ Finish(t)
    BY DEF Stopped, AfterStop, Decide
  <1>5. /\ pc' \in [Threads -> {"idle", "stop", "prepare", "input"}]
        /\ op' \in [Threads -> {"none", "poll", "pause", "cancel", "launch", "close",
                               "execute", "fail"}]
        /\ arg' \in [Threads -> Entries]
    BY <1>4 DEF Continue, Execute, Finish, Goto, HostInv, Types, Entries
  <1>6. Types'
    BY <1>1, <1>2, <1>3, <1>5 DEF Types, Entries
  <1>7. OpsAndSteps'
    BY <1>4 DEF Continue, Execute, Finish, Goto, HostInv, Types, OpsAndSteps
  <1>8. Ledger'
    BY <1>1, <1>2, <1>5, NothingPassed DEF Ledger
  <1>9. Settings'
    BY <1>1, <1>3, ProcessAssumption DEF Settings
  <1>10. Stages'
    BY <1>1, <1>2, <1>4, ProcessAssumption
       DEF Continue, Execute, Finish, Goto, HostInv, Types, Stages
  <1>11. QED
    BY <1>6, <1>7, <1>8, <1>9, <1>10 DEF HostInv

\* Prepare keeps each part.
LEMMA PrepareStep ==
  ASSUME NEW t, Threads = {t}, HostInv, Prepare(t)
  PROVE  HostInv'
  <1>1. /\ pc[t] = "prepare" /\ app = NoApp /\ it = 0 /\ arg[t] \in Apps /\ app' = arg[t]
        /\ it' = it /\ owed' = owed /\ pc'[t] = "probe"
    BY ProcessAssumption
       DEF Prepare, Continue, Goto, HostInv, Types, OpsAndSteps, Ledger, Stages
  <1>2. owed = {} /\ Passed(app', 0) = {}
    BY <1>1, NothingPassed DEF HostInv, Ledger
  <1>3. Len(Prep[app']) \in Nat
    BY <1>1, ProcessAssumption
  <1>4. Types'
    BY ProcessAssumption DEF Prepare, Continue, Goto, HostInv, Types, Settings, Stages
  <1>5. OpsAndSteps'
    BY DEF Prepare, Continue, Goto, HostInv, OpsAndSteps
  <1>6. Ledger'
    BY <1>1, <1>2 DEF Ledger
  <1>7. Settings'
    BY ProcessAssumption DEF Prepare, HostInv, Settings, Stages
  <1>8. Stages'
    BY ProcessAssumption
       DEF Prepare, Continue, Goto, HostInv, Types, OpsAndSteps, Ledger, Stages
  <1>9. QED
    BY <1>4, <1>5, <1>6, <1>7, <1>8 DEF HostInv

\* Probe keeps each part.
LEMMA ProbeStep ==
  ASSUME NEW t, Threads = {t}, HostInv, Probe(t)
  PROVE  HostInv'
  <1>1. Types'
    BY DEF Probe, Fail, Continue, Goto, HostInv, Types
  <1>2. OpsAndSteps'
    BY DEF Probe, Fail, Continue, Goto, HostInv, Types, OpsAndSteps
  <1>3. Ledger'
    BY DEF Probe, Fail, Continue, Goto, HostInv, Types, Ledger, Stages
  <1>4. Settings'
    BY DEF Probe, Fail, HostInv, Types, OpsAndSteps, Settings
  <1>5. Stages'
    BY DEF Probe, Fail, Continue, Goto, HostInv, Types, Stages
  <1>6. QED
    BY <1>1, <1>2, <1>3, <1>4, <1>5 DEF HostInv

\* Prepared keeps each part.
LEMMA PreparedStep ==
  ASSUME NEW t, Threads = {t}, HostInv, Prepared(t)
  PROVE  HostInv'
  <1>1. /\ pc[t] = "prep" /\ app \in Apps /\ app' = app /\ it < Len(Prep[app])
        /\ it \in Nat /\ Len(Prep[app]) \in Nat /\ owed = Passed(app, it)
    BY DEF Prepared, HostInv, Types, Ledger, Stages
  <1>2. \/ /\ it' = it + 1 /\ pc'[t] = "prep"
           /\ owed' = owed \cup {<<app, i>> : i \in {j \in {it + 1} : HasUndo(app, j)}}
        \/ it' = it /\ owed' = owed /\ pc'[t] = "stop"
    BY DEF Prepared, Fail, AtFailed, Continue, Goto, HostInv, Types
  <1>3. Passed(app, it + 1) =
          Passed(app, it) \cup {<<app, i>> : i \in {j \in {it + 1} : HasUndo(app, j)}}
    BY <1>1, PassOne
  <1>4. Types'
    BY DEF Prepared, Fail, AtFailed, Continue, Goto, HostInv, Types
  <1>5. OpsAndSteps'
    BY DEF Prepared, Fail, Continue, Goto, HostInv, Types, OpsAndSteps
  <1>6. Ledger'
    <2>1. app' \in Apps /\ it' <= Len(Prep[app'])
      BY <1>1, <1>2
    <2>2. pc'[t] # "undoing" /\ owed' = Passed(app', it')
      BY <1>1, <1>2, <1>3
    <2>3. QED
      BY <2>1, <2>2 DEF Ledger, Passed
  <1>7. Settings'
    BY DEF Prepared, Fail, HostInv, Types, OpsAndSteps, Settings
  <1>8. Stages'
    BY DEF Prepared, Fail, Continue, Goto, HostInv, Types, Stages
  <1>9. QED
    BY <1>4, <1>5, <1>6, <1>7, <1>8 DEF HostInv

\* Start keeps each part.
LEMMA StartStep ==
  ASSUME NEW t, Threads = {t}, HostInv, Start(t)
  PROVE  HostInv'
  <1>1. Types'
    <2>1. Finish(t) \/ Fail(t)
      BY DEF Start
    <2>2. ThreadTypes'
      BY <2>1, FinishTypes, FailTypes DEF HostInv, Types, ThreadTypes
    <2>3. /\ app' \in Entries /\ placebo' \in BOOLEAN /\ recent' \in BOOLEAN /\ it' \in Nat
          /\ child' \in {"null", "running", "exited"} /\ group' \in {"null", "busy", "empty"}
      BY DEF Start, HostInv, Types
    <2>4. /\ vdisplay' \in BOOLEAN /\ saved' \in BOOLEAN /\ inputCfg' \in {"user", "app"}
          /\ outputName' \in {"user", "virtual", "empty"} /\ initial' \in {"user", "empty"}
      BY DEF Start, Fail, HostInv, Types
    <2>5. QED
      BY <2>2, <2>3, <2>4 DEF Types, ThreadTypes
  <1>2. OpsAndSteps'
    BY DEF Start, Fail, Finish, Goto, HostInv, Types, OpsAndSteps
  <1>3. Ledger'
    BY DEF Start, Fail, Finish, Goto, HostInv, Types, Ledger
  <1>4. Settings'
    BY DEF Start, Fail, HostInv, Types, OpsAndSteps, Settings
  <1>5. Stages'
    BY ProcessAssumption DEF Start, Fail, Finish, Goto, HostInv, Types, Stages
  <1>6. QED
    BY <1>1, <1>2, <1>3, <1>4, <1>5 DEF HostInv

\* InputOnly keeps each part.
LEMMA InputOnlyStep ==
  ASSUME NEW t, Threads = {t}, HostInv, InputOnly(t)
  PROVE  HostInv'
  <1>1. Types'
    <2>1. ThreadTypes'
      BY FinishTypes DEF InputOnly, HostInv, Types, ThreadTypes
    <2>2. app' \in Entries /\ placebo' \in BOOLEAN
      BY DEF InputOnly, HostInv, Types, Entries
    <2>3. UNCHANGED <<child, group, recent, it, vdisplay, outputName, initial, inputCfg, saved>>
      BY DEF InputOnly, worldVars
    <2>4. QED
      BY <2>1, <2>2, <2>3 DEF HostInv, Types, ThreadTypes
  <1>2. OpsAndSteps'
    BY DEF InputOnly, Finish, Goto, HostInv, Types, OpsAndSteps
  <1>3. Ledger'
    BY ProcessAssumption, NothingPassed
       DEF InputOnly, Finish, Goto, worldVars, HostInv, Types, Ledger, Stages
  <1>4. Settings'
    BY ProcessAssumption DEF InputOnly, worldVars, HostInv, Settings, Stages
  <1>5. Stages'
    BY ProcessAssumption DEF InputOnly, Finish, Goto, HostInv, Types, Stages
  <1>6. QED
    BY <1>1, <1>2, <1>3, <1>4, <1>5 DEF HostInv

\* A request begins with what the host is at rest.
LEMMA BeginStep ==
  ASSUME NEW t, Threads = {t}, HostInv, Poll(t) \/ Request(t)
  PROVE  HostInv'
  <1>1. PICK o, a, l :
          /\ Begin(t, o, a, l)
          /\ \/ o \in {"poll", "pause", "cancel"} /\ a = NoApp /\ l = "check"
             \/ o = "launch" /\ a \in Apps \cup {InputApp} /\ l = "check"
             \/ o = "close" /\ a = NoApp /\ l = "stop"
             \/ o = "execute" /\ a \in Apps /\ l = "stop"
    BY DEF Request, Poll, Pause, Cancel, Launch, Close, WebLaunch
  <1>2. /\ pc[t] = "idle" /\ pc' = [pc EXCEPT ![t] = l]
        /\ op' = [op EXCEPT ![t] = o] /\ arg' = [arg EXCEPT ![t] = a]
        /\ UNCHANGED <<procVars, worldVars>>
    BY <1>1 DEF Begin, Goto
  <1>3. Types'
    BY <1>1, <1>2 DEF procVars, worldVars, HostInv, Types, Entries
  <1>4. OpsAndSteps'
    BY <1>1, <1>2 DEF HostInv, Types, OpsAndSteps
  <1>5. Ledger'
    BY <1>1, <1>2 DEF procVars, worldVars, HostInv, Ledger
  <1>6. Settings'
    BY <1>2 DEF procVars, worldVars, HostInv, OpsAndSteps, Settings
  <1>7. Stages'
    BY <1>1, <1>2 DEF procVars, HostInv, Stages
  <1>8. QED
    BY <1>3, <1>4, <1>5, <1>6, <1>7 DEF HostInv

\* The application ends by itself, time passes.
LEMMA WorldStep ==
  ASSUME NEW t, Threads = {t}, HostInv, ChildExits \/ GroupEnds \/ TimePasses
  PROVE  HostInv'
  <1> USE DEF ChildExits, GroupEnds, TimePasses, worldVars
  <1>1. Types'
    <2>1. UNCHANGED <<app, placebo, it, vdisplay, outputName, initial, inputCfg, saved, pc, op, arg>>
      BY DEF HostInv
    <2>2. /\ recent' \in BOOLEAN
          /\ child' \in {"null", "running", "exited"} /\ group' \in {"null", "busy", "empty"}
      BY DEF HostInv, Types
    <2> HIDE DEF ChildExits, GroupEnds, TimePasses, worldVars
    <2>3. QED
      BY <2>1, <2>2 DEF HostInv, Types
  <1>2. OpsAndSteps'
    BY DEF HostInv, OpsAndSteps
  <1>3. Ledger'
    BY DEF HostInv, Ledger
  <1>4. Settings'
    BY DEF HostInv, Settings
  <1>5. Stages'
    BY DEF HostInv, Stages
  <1>6. QED
    BY <1>1, <1>2, <1>3, <1>4, <1>5 DEF HostInv

LEMMA InvNext ==
  ASSUME NEW t, Threads = {t}, HostInv, [Next]_vars
  PROVE  HostInv'
  <1>1. CASE Next
    <2>1. \/ Poll(t) \/ Request(t)
          \/ Step(t)
          \/ ChildExits \/ GroupEnds \/ TimePasses
      BY <1>1 DEF Next, Threads
    <2>2. CASE Step(t)
      BY <2>2, RunningStep, StopStep, KillStep, UndoStep, UndoneStep, StoppedStep, PrepareStep,
         ProbeStep, PreparedStep, StartStep, InputOnlyStep DEF Step
    <2>3. QED
      BY <2>1, <2>2, BeginStep, WorldStep
  <1>2. CASE UNCHANGED vars
    BY <1>2 DEF vars, procVars, worldVars,
       HostInv, Types, OpsAndSteps, Ledger, Settings, Stages, Passed, HasUndo
  <1>3. QED
    BY <1>1, <1>2

\* HostInv holds for one thread, any applications and any prep commands.
THEOREM HostInvariance ==
  ASSUME NEW t, Threads = {t}
  PROVE  Spec => []HostInv
  <1>1. Init => HostInv
    BY InitHolds
  <1>2. HostInv /\ [Next]_vars => HostInv'
    BY InvNext
  <1>3. QED
    BY <1>1, <1>2, PTL DEF Spec

\* Between the operations of one thread the host is as its application wants
\* it, whichever steps of execute failed (src/src/process.cpp:366, 932).
THEOREM HostMatches ==
  ASSUME NEW t, Threads = {t}
  PROVE  Spec => []HostMatchesApp
  <1>1. HostInv => HostMatchesApp
    <2>1. SUFFICES ASSUME HostInv, pc[t] = "idle"
                   PROVE  HostMatchesApp
      BY DEF HostMatchesApp, Idle
    <2>2. /\ op[t] # "fail" /\ owed = Passed(app, it) /\ app \in Apps \cup {NoApp, InputApp}
          /\ (app = NoApp) <=> (~placebo /\ child = "null")
          /\ app \in Apps => it = Len(Prep[app])
          /\ app \notin Apps => it = 0
      BY <2>1 DEF HostInv, Types, Entries, OpsAndSteps, Ledger, Stages
    <2>3. owed = IF app \in Apps THEN Passed(app, Len(Prep[app])) ELSE {}
      BY <2>2, NothingPassed
    <2>4. inputCfg = IF app \in Gamepad THEN "app" ELSE "user"
      BY <2>1 DEF HostInv, Types, Settings
    <2>5. (vdisplay => app \in Virtual) /\ (vdisplay <=> (outputName = "virtual"))
      BY <2>1, <2>2 DEF HostInv, Settings
    <2>6. QED
      BY <2>2, <2>3, <2>4, <2>5 DEF HostMatchesApp
  <1>2. QED
    BY <1>1, HostInvariance, PTL

\* One thread undoes what it has passed and nothing else, the last first
\* (src/src/process.cpp:945).
THEOREM UndoOrdered ==
  ASSUME NEW t, Threads = {t}
  PROVE  Spec => UndoInOrder
  <1>1. HostInv /\ [Next]_vars => [UndoneIsOwed]_vars
    <2>1. SUFFICES ASSUME HostInv, pc[t] = "undo", MoreToUndo, HasUndo(app, it)
                   PROVE  <<app, it>> \in owed /\ \A c \in owed : c[1] = app /\ c[2] <= it
      BY DEF UndoneIsOwed
    <2>2. it \in Nat /\ it > 0 /\ owed = Passed(app, it)
      BY <2>1 DEF HostInv, Types, Ledger, MoreToUndo
    <2>3. it \in 1..it
      BY <2>2
    <2>4. QED
      BY <2>1, <2>2, <2>3, PassedBounds
  <1>2. QED
    BY <1>1, HostInvariance, PTL DEF Spec, UndoInOrder

\* Below position n + 1 there are the undo commands of the first n commands.
LEMMA BelowIsPassed ==
  ASSUME app \in Apps, NEW n \in Nat, n + 1 \in Undos[app]
  PROVE  Stack!Below(n + 1) = Passed(app, n)
  <1>1. Undos[app] = {i \in 1..Len(Prep[app]) : HasUndo(app, i)}
    BY DEF Undos
  <1>2. Len(Prep[app]) \in Nat
    BY ProcessAssumption
  <1>3. n + 1 <= Len(Prep[app])
    BY <1>1, <1>2
  <1>4. {k \in Undos[app] : k < n + 1} = {j \in 1..n : HasUndo(app, j)}
    BY <1>1, <1>2, <1>3, SMT
  <1>5. QED
    BY <1>4 DEF Stack!Below, Passed

\* Undo is a Repay of UndoStack, or a stutter when there is no undo command.
LEMMA UndoRefines ==
  ASSUME NEW t, Threads = {t}, HostInv, Undo(t)
  PROVE  Stack!Next \/ UNCHANGED <<app, owed>>
  <1>1. /\ app \in Apps /\ it \in Nat /\ it > 0 /\ it <= Len(Prep[app]) /\ Len(Prep[app]) \in Nat
        /\ pc[t] = "undo" /\ owed = Passed(app, it) /\ owed' = owed \ {<<app, it>>}
        /\ app' = app
    BY ProcessAssumption
       DEF Undo, MoreToUndo, IteratorsValid, procVars, HostInv, Types, Ledger
  <1>2. owed' = Passed(app, it - 1)
    BY <1>1, UndoLast
  <1>3. owed = owed' \cup {<<app, i>> : i \in {j \in {it} : HasUndo(app, j)}}
    <2>1. it - 1 \in Nat /\ (it - 1) + 1 = it
      BY <1>1
    <2>2. QED
      BY <2>1, <1>1, <1>2, PassOne
  <1>4. CASE HasUndo(app, it)
    <2>1. it \in Undos[app]
      BY <1>1, <1>4 DEF Undos
    <2>2. Stack!Below(it) = Passed(app, it - 1)
      <3>1. it - 1 \in Nat /\ (it - 1) + 1 = it
        BY <1>1
      <3>2. QED
        BY <3>1, <1>1, <2>1, BelowIsPassed
    <2>3. owed = Stack!Below(it) \cup {<<app, it>>} /\ owed' = Stack!Below(it)
      BY <1>2, <1>3, <1>4, <2>2
    <2>4. QED
      BY <1>1, <2>1, <2>3 DEF Stack!Next, Stack!Repay
  <1>5. CASE ~HasUndo(app, it)
    BY <1>1, <1>3, <1>5
  <1>6. QED
    BY <1>4, <1>5

\* Prepared is a Pass, or a stutter when there is no undo command or it fails.
LEMMA PreparedRefines ==
  ASSUME NEW t, Threads = {t}, HostInv, Prepared(t)
  PROVE  Stack!Next \/ UNCHANGED <<app, owed>>
  <1>1. /\ app \in Apps /\ it \in Nat /\ it < Len(Prep[app]) /\ Len(Prep[app]) \in Nat
        /\ pc[t] = "prep" /\ owed = Passed(app, it) /\ app' = app
    BY ProcessAssumption DEF Prepared, IteratorsValid, HostInv, Types, Ledger
  <1>2. \/ owed' = owed \cup {<<app, i>> : i \in {j \in {it + 1} : HasUndo(app, j)}}
        \/ owed' = owed
    BY <1>1 DEF Prepared
  <1>3. CASE HasUndo(app, it + 1)
    <2>1. it + 1 \in Undos[app]
      BY <1>1, <1>3 DEF Undos
    <2>2. Stack!Below(it + 1) = owed
      BY <1>1, <2>1, BelowIsPassed
    <2>3. owed' = owed \cup {<<app, it + 1>>} \/ owed' = owed
      BY <1>2, <1>3
    <2>4. QED
      BY <1>1, <2>1, <2>2, <2>3 DEF Stack!Next, Stack!Pass
  <1>4. CASE ~HasUndo(app, it + 1)
    BY <1>1, <1>2, <1>4
  <1>5. QED
    BY <1>3, <1>4

\* The other steps take up or give up an application, or change neither part.
LEMMA StepRefines ==
  ASSUME NEW t, Threads = {t}, HostInv, Step(t)
  PROVE  Stack!Next \/ UNCHANGED <<app, owed>>
  <1>1. CASE Stopped(t)
    <2>1. pc[t] = "undo" /\ it = 0 /\ app' = NoApp /\ owed' = owed
      BY <1>1 DEF Stopped, MoreToUndo, HostInv, Types
    <2>2. owed = {}
      BY <2>1, NothingPassed DEF HostInv, Ledger
    <2>3. QED
      BY <2>1, <2>2 DEF Stack!Next, Stack!GiveUp
  <1>2. CASE Prepare(t)
    <2>1. pc[t] = "prepare" /\ app' = arg[t] /\ arg[t] \in Apps /\ owed' = owed /\ it \in Nat
      BY <1>2 DEF Prepare, HostInv, Types, OpsAndSteps
    <2>2. app = NoApp /\ it = 0
      BY <2>1, ProcessAssumption DEF HostInv, Ledger, Stages
    <2>3. owed = {}
      BY <2>1, <2>2, NothingPassed DEF HostInv, Ledger
    <2>4. QED
      BY <2>1, <2>2, <2>3 DEF Stack!Next, Stack!TakeUp
  <1>3. CASE InputOnly(t)
    <2>1. pc[t] = "input" /\ (app' = InputApp \/ app' = app) /\ owed' = owed
      BY <1>3 DEF InputOnly, worldVars
    <2>2. app = NoApp /\ it = 0
      BY <2>1, ProcessAssumption DEF HostInv, Ledger, Stages
    <2>3. owed = {}
      BY <2>1, <2>2, NothingPassed DEF HostInv, Ledger
    <2>4. QED
      BY <2>1, <2>2, <2>3 DEF Stack!Next, Stack!TakeUp
  <1>4. CASE Running(t) \/ Stop(t) \/ Kill(t) \/ Undone(t) \/ Probe(t) \/ Start(t)
    BY <1>4 DEF Running, Stop, Kill, Undone, Probe, Start, worldVars
  <1>5. QED
    BY <1>1, <1>2, <1>3, <1>4, UndoRefines, PreparedRefines DEF Step

\* One thread implements UndoStack, with any applications and prep commands: an
\* application is taken up or given up only when no undo command is owed
\* (src/src/process.cpp:325, 932).
THEOREM Refinement ==
  ASSUME NEW t, Threads = {t}
  PROVE  Spec => KeepsStack
  <1>1. Init => Stack!Init
    BY DEF Init, Stack!Init
  <1>2. HostInv /\ [Next]_vars => [Stack!Next]_<<app, owed>>
    <2>1. SUFFICES ASSUME HostInv, [Next]_vars
                   PROVE  [Stack!Next]_<<app, owed>>
      OBVIOUS
    <2>2. CASE Step(t)
      BY <2>1, <2>2, StepRefines
    <2>3. CASE Poll(t) \/ Request(t)
      BY <2>3 DEF Request, Poll, Pause, Cancel, Launch, Close, WebLaunch, Begin, worldVars, procVars
    <2>4. CASE ChildExits \/ GroupEnds \/ TimePasses
      BY <2>4 DEF ChildExits, GroupEnds, TimePasses, worldVars
    <2>5. CASE UNCHANGED vars
      BY <2>5 DEF vars, procVars, worldVars
    <2>6. QED
      BY <2>1, <2>2, <2>3, <2>4, <2>5 DEF Next, Threads
  <1>3. QED
    BY <1>1, <1>2, HostInvariance, PTL DEF Spec, KeepsStack, Stack!Spec

(***************************************************************************)
(* The monitors.                                                           *)
(***************************************************************************)

\* Without the faults the commands and the file do as they are told.
LEMMA Reliable ==
  ASSUME Faults = {}
  PROVE  /\ \A o : Enable(o) => on' = on \cup {o}
         /\ \A s : Write(s) => file' = s
  BY DEF Enable, Write

\* The steps of recover_on_boot and of create.
LEMMA CreateStep ==
  ASSUME Faults = {}, VirtualDisplayInv,
         Boot \/ Heal \/ Clear \/ Create \/ SwitchOff \/ Track \/ Created
  PROVE  VirtualDisplayInv'
<1> USE DEF VirtualDisplayInv, TypeOK, DarkIsKnown, IdleRestored, Recoverable, Dark
<1>1. CASE Boot
  <2>1. CASE file = {}
    <3>1. on = user
      BY <1>1, <2>1 DEF Boot
    <3> QED
      BY <1>1, <2>1, <3>1 DEF Boot
  <2>2. CASE file # {}
    BY <1>1, <2>2 DEF Boot
  <2> QED
    BY <2>1, <2>2
<1>2. CASE Heal
  <2> PICK o \in todo : on' = on \cup {o} /\ todo' = todo \ {o}
    BY <1>2, Reliable DEF Heal
  <2> QED
    BY <1>2 DEF Heal
<1>3. CASE Clear
  BY <1>3 DEF Clear
<1>4. CASE Create
  BY <1>4 DEF Create
<1>5. CASE SwitchOff
  <2> PICK o \in todo : Disable(o) /\ todo' = todo \ {o} /\ cur' = o /\ held' = held \cup {o}
    BY <1>5 DEF SwitchOff
  <2> QED
    BY <1>5 DEF SwitchOff, Disable
<1>6. CASE Track
  BY <1>6, Reliable DEF Track
<1>7. CASE Created
  BY <1>7 DEF Created
<1> QED
  BY <1>1, <1>2, <1>3, <1>4, <1>5, <1>6, <1>7

\* The steps of destroy.
LEMMA DestroyStep ==
  ASSUME Faults = {}, VirtualDisplayInv,
         Destroy \/ SwitchOn \/ Untrack \/ Destroyed
  PROVE  VirtualDisplayInv'
<1> USE DEF VirtualDisplayInv, TypeOK, DarkIsKnown, IdleRestored, Recoverable, Dark
<1>1. CASE Destroy
  BY <1>1 DEF Destroy
<1>2. CASE SwitchOn
  <2> PICK o \in todo : on' = on \cup {o} /\ cur' = o
    BY <1>2, Reliable DEF SwitchOn
  <2> QED
    BY <1>2 DEF SwitchOn
<1>3. CASE Untrack
  <2>1. file' = file \ {cur}
    BY <1>3, Reliable DEF Untrack
  <2> QED
    BY <1>3, <2>1 DEF Untrack
<1>4. CASE Destroyed
  BY <1>4 DEF Destroyed
<1> QED
  BY <1>1, <1>2, <1>3, <1>4

\* The ends of the host and the user.
LEMMA EndOrUserStep ==
  ASSUME Faults = {}, VirtualDisplayInv,
         \/ Interrupt \/ Crash \/ Exit \/ KillHost
         \/ \E o \in Outputs : ByHand(o) \/ Choose(o)
  PROVE  VirtualDisplayInv'
<1> USE DEF VirtualDisplayInv, TypeOK, DarkIsKnown, IdleRestored, Recoverable, Dark
<1>1. CASE Interrupt \/ Exit
  BY <1>1 DEF Interrupt, Exit
<1>2. CASE Crash
  BY <1>2 DEF Crash
<1>3. CASE KillHost
  BY <1>3 DEF KillHost
<1>4. ASSUME NEW o \in Outputs, ByHand(o) PROVE VirtualDisplayInv'
  BY <1>4 DEF ByHand
<1>5. ASSUME NEW o \in Outputs, Choose(o) PROVE VirtualDisplayInv'
  <2>1. /\ stage = "idle" /\ on = user /\ file = {}
        /\ on' = user' /\ user' \subseteq Outputs
        /\ UNCHANGED <<file, stage, todo, cur, held, quit, kills>>
    BY <1>5 DEF Choose
  <2> QED
    BY <2>1
<1> QED
  BY <1>1, <1>2, <1>3, <1>4, <1>5

\* Wherever the host dies or is interrupted, VirtualDisplayInv holds: the loops
\* of create, destroy and recover_on_boot keep step with the lock file.
THEOREM VirtualDisplayInvariance == ASSUME Faults = {} PROVE DisplaySpec => []VirtualDisplayInv
<1>1. DisplayInit => VirtualDisplayInv
  <2> SUFFICES ASSUME DisplayInit PROVE VirtualDisplayInv
    OBVIOUS
  <2>1. TypeOK /\ IdleRestored
    BY DEF DisplayInit, TypeOK, IdleRestored
  <2>2. Dark = {} /\ file = {} /\ on = user /\ stage = "down" /\ todo = {} /\ held = {}
    BY DEF DisplayInit, Dark
  <2>3. DarkIsKnown /\ Recoverable
    BY <2>2 DEF DarkIsKnown, Recoverable
  <2> QED
    BY <2>1, <2>3 DEF VirtualDisplayInv
<1>2. VirtualDisplayInv /\ [DisplayNext]_displayVars => VirtualDisplayInv'
  <2> SUFFICES ASSUME VirtualDisplayInv, [DisplayNext]_displayVars PROVE VirtualDisplayInv'
    OBVIOUS
  <2>1. CASE UNCHANGED displayVars
    BY <2>1 DEF displayVars, VirtualDisplayInv, TypeOK, DarkIsKnown, IdleRestored, Recoverable, Dark
  <2>2. CASE DisplayNext
    BY <2>2, CreateStep, DestroyStep, EndOrUserStep DEF DisplayNext, HostStep
  <2> QED
    BY <2>1, <2>2
<1> QED
  BY <1>1, <1>2, PTL DEF DisplaySpec

\* The next start finds the name of every output the host has left off
\* (recovery.h:14), for any number of outputs and of abnormal ends.
THEOREM RecoverableAlways == ASSUME Faults = {} PROVE DisplaySpec => []Recoverable
<1>1. VirtualDisplayInv => Recoverable
  BY DEF VirtualDisplayInv
<1> QED
  BY <1>1, VirtualDisplayInvariance, PTL

\* A host without a session owes the user no output and keeps no file.
THEOREM IdleIsRestored == ASSUME Faults = {} PROVE DisplaySpec => []IdleRestored
<1>1. VirtualDisplayInv => IdleRestored
  BY DEF VirtualDisplayInv
<1> QED
  BY <1>1, VirtualDisplayInvariance, PTL

=============================================================================
