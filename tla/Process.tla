------------------------------ MODULE Process ------------------------------
(***************************************************************************)
(* The application the host runs, src/src/process.cpp: proc_t::execute,    *)
(* running, pause, terminate, launch_input_only (the Linux build), and the *)
(* callers that use it: launch, resume and cancel of src/src/nvhttp.cpp,   *)
(* the application requests of src/src/confighttp.cpp, the control thread  *)
(* of src/src/stream.cpp.                                                  *)
(*                                                                         *)
(* proc_t has no mutex: an operation is a sequence of steps, with commands *)
(* of the user and subprocesses in between. With one thread the model says *)
(* what failing steps and exiting applications may leave behind, with more *)
(* what the callers do to each other; a thread that loops over prep_cmds   *)
(* another one has cleared has undefined behaviour and is not followed any *)
(* further. The calls of display_device do nothing in the Linux build and  *)
(* are left out.                                                           *)
(***************************************************************************)
EXTENDS Integers, Sequences

CONSTANTS
  Callers,     (* the threads of the servers, which make any request        *)
  Pollers,     (* the threads that only ask running(): the control thread   *)
  Apps,        (* the entries of the application list                       *)
  NoApp,       (* _app_id <= 0: no application                              *)
  InputApp,    (* the "Remote Input" application (input_only_app_id)        *)
  Prep,        (* per application its prep_cmds: which of do_cmd and        *)
               (* undo_cmd are not empty                                    *)
  Desktop,     (* applications without a command (placebo)                  *)
  Virtual,     (* applications with a virtual display                       *)
  Gamepad,     (* applications with an input configuration of their own     *)
  OnPause,     (* terminate_on_pause                                        *)
  AutoDetach,  (* auto_detach                                               *)
  WaitAll      (* wait_all                                                  *)

Threads == Callers \cup Pollers

CmdKinds == {"both", "do", "undo"}

ASSUME ProcessAssumption ==
  /\ NoApp \notin Apps /\ InputApp \notin Apps /\ NoApp # InputApp
  /\ Prep \in [Apps -> Seq(CmdKinds)]
  /\ Desktop \subseteq Apps /\ Virtual \subseteq Apps /\ Gamepad \subseteq Apps
  /\ OnPause \subseteq Apps /\ AutoDetach \subseteq Apps /\ WaitAll \subseteq Apps

VARIABLES
  app,         (* _app_id and _app, which are set and cleared together      *)
  placebo,     (* placebo                                                   *)
  child,       (* _process: "null", "running", "exited"                     *)
  group,       (* _process_group: "null", "busy", "empty"                   *)
  recent,      (* _app_launch_time is less than 5 seconds ago               *)
  it,          (* _app_prep_it - _app_prep_begin                            *)
  vdisplay,    (* _vdisplay_handle: the virtual display exists              *)
  outputName,  (* config::video.output_name: "user", "virtual" or "empty"   *)
  initial,     (* initial_display, likewise                                 *)
  inputCfg,    (* config::input is the "user" one or that of the "app"      *)
  saved,       (* _saved_input_config is not null                           *)
  owed,        (* the undo commands still to run, <<application, index>>:   *)
               (* their do commands have been passed                        *)
  pc, op, arg  (* per thread: step, operation, the application it launches  *)

procVars  == <<app, placebo, child, group, recent, it>>
worldVars == <<vdisplay, outputName, initial, inputCfg, saved, owed>>
vars == <<procVars, worldVars, pc, op, arg>>

Goto(t, l) == pc' = [pc EXCEPT ![t] = l]

HasDo(a, i)   == Prep[a][i] \in {"both", "do"}
HasUndo(a, i) == Prep[a][i] \in {"both", "undo"}

Init ==
  /\ app = NoApp /\ placebo = FALSE /\ child = "null" /\ group = "null"
  /\ recent = FALSE /\ it = 0
  /\ vdisplay = FALSE /\ outputName = "user" /\ initial = "empty"
  /\ inputCfg = "user" /\ saved = FALSE /\ owed = {}
  /\ pc = [t \in Threads |-> "idle"]
  /\ op = [t \in Threads |-> "none"]
  /\ arg = [t \in Threads |-> NoApp]

(***************************************************************************)
(* The requests. Most start by asking running().                           *)
(***************************************************************************)

Begin(t, o, a, l) ==
  /\ pc[t] = "idle"
  /\ Goto(t, l)
  /\ op' = [op EXCEPT ![t] = o]
  /\ arg' = [arg EXCEPT ![t] = a]
  /\ UNCHANGED <<procVars, worldVars>>

Poll(t)         == Begin(t, "poll", NoApp, "check")    \* control thread, serverinfo, resume
Pause(t)        == Begin(t, "pause", NoApp, "check")   \* the last session is joined
Cancel(t)       == Begin(t, "cancel", NoApp, "check")
Launch(t, a)    == Begin(t, "launch", a, "check")
Close(t)        == Begin(t, "close", NoApp, "stop")    \* closeApp, the tray, the terminate application
WebLaunch(t, a) == Begin(t, "execute", a, "stop")      \* launchApp of the configuration server

Finish(t) ==
  /\ Goto(t, "idle")
  /\ op' = [op EXCEPT ![t] = "none"] /\ arg' = [arg EXCEPT ![t] = NoApp]

\* execute starts by terminating what there is.
Execute(t) ==
  /\ Goto(t, "stop")
  /\ op' = [op EXCEPT ![t] = "execute"] /\ UNCHANGED arg

Continue(t, l) == Goto(t, l) /\ UNCHANGED <<op, arg>>

(***************************************************************************)
(* running()                                                               *)
(***************************************************************************)

Alive ==
  \/ placebo
  \/ app \in WaitAll /\ group = "busy"
  \/ child = "running"

\* An application that exits early becomes a detached one.
Detaches == ~Alive /\ app \in AutoDetach /\ recent

\* Mutant: the exit of an application is not cleaned up.
NeverLeftOver == FALSE

\* The application is over but not cleaned up.
LeftOver == ~Alive /\ ~Detaches /\ child # "null"

\* What a request does with the application that runs, or NoApp.
Decide(t, current) ==
  CASE op[t] = "pause" /\ current \in OnPause \cup {InputApp} -> Continue(t, "stop")
    [] op[t] = "cancel" /\ current # NoApp -> Continue(t, "stop")
    [] op[t] = "launch" /\ arg[t] = InputApp /\ current = NoApp -> Continue(t, "input")
    [] op[t] = "launch" /\ arg[t] \in Apps /\ current \in {NoApp, InputApp} -> Execute(t)
    [] OTHER -> Finish(t)

Running(t) ==
  /\ pc[t] = "check"
  /\ placebo' = (placebo \/ Detaches)
  /\ IF LeftOver
     THEN Continue(t, "stop")    \* terminate, then the answer is 0
     ELSE Decide(t, IF Alive \/ Detaches THEN app ELSE NoApp)
  /\ UNCHANGED <<app, child, group, recent, it, worldVars>>

(***************************************************************************)
(* terminate(): processes, undo commands, virtual display, settings.       *)
(***************************************************************************)

\* Where the callers of terminate go on: the rest of execute, the answer of
\* running() for a launch.
AfterStop(t) ==
  CASE op[t] = "execute" -> Continue(t, "prepare")
    [] op[t] = "launch" -> Decide(t, NoApp)
    [] OTHER -> Finish(t)

Stop(t) ==
  /\ pc[t] = "stop"
  /\ placebo' = FALSE
  /\ Continue(t, "kill")
  /\ UNCHANGED <<app, child, group, recent, it, worldVars>>

\* terminate_process_group waits up to exit_timeout for the group, then kills.
Kill(t) ==
  /\ pc[t] = "kill"
  /\ child' = "null" /\ group' = "null"
  /\ Continue(t, "undo")
  /\ UNCHANGED <<app, placebo, recent, it, worldVars>>

\* Mutant: the command at the beginning is not undone.
MoreThanOne == it > 1

\* _app_prep_it != _app_prep_begin
MoreToUndo == it > 0

\* The iterators are those of the commands of _app.
IteratorsValid == app \in Apps /\ it <= Len(Prep[app])

\* The undo command before the iterator runs, if it has one ...
Undo(t) ==
  /\ pc[t] = "undo" /\ MoreToUndo /\ IteratorsValid
  /\ owed' = owed \ {<<app, it>>}
  /\ Continue(t, "undoing")
  /\ UNCHANGED <<procVars, vdisplay, outputName, initial, inputCfg, saved>>

\* ... and is waited for, then the iterator moves.
Undone(t) ==
  /\ pc[t] = "undoing" /\ MoreToUndo /\ IteratorsValid
  /\ it' = it - 1
  /\ Continue(t, "undo")
  /\ UNCHANGED <<app, placebo, child, group, recent, worldVars>>

RestoreInput ==
  /\ inputCfg' = IF saved THEN "user" ELSE inputCfg
  /\ saved' = FALSE

\* Restore output_name, except by the terminate of an application that never was.
RestoreOutput ==
  /\ outputName' = IF app = NoApp /\ initial = "empty" THEN outputName ELSE initial
  /\ initial' = "empty"

\* refresh replaces proc_t by a new one when the application list can be read;
\* execute terminates without it.
Refresh(t) ==
  \/ UNCHANGED <<placebo, child, group, recent, it>>
  \/ /\ op[t] # "execute"
     /\ placebo' = FALSE /\ child' = "null" /\ group' = "null" /\ recent' = FALSE /\ it' = 0

Stopped(t) ==
  /\ pc[t] = "undo" /\ ~MoreToUndo
  /\ vdisplay' = FALSE
  /\ RestoreOutput /\ RestoreInput
  /\ app' = NoApp
  /\ Refresh(t)
  /\ AfterStop(t)
  /\ UNCHANGED owed

(***************************************************************************)
(* execute(), after its terminate.                                         *)
(***************************************************************************)

\* Mutant: a return of execute without its fail_guard.
JustReturn(t) == Finish(t) /\ UNCHANGED outputName

\* fail_guard: output_name is restored, then terminate.
Fail(t) ==
  /\ outputName' = initial
  /\ Goto(t, "stop")
  /\ op' = [op EXCEPT ![t] = "fail"] /\ UNCHANGED arg

\* The application is noted, its input configuration and its virtual display
\* (which may fail to appear) are set up.
Prepare(t) ==
  LET a == arg[t] IN
  /\ pc[t] = "prepare"
  /\ app' = a
  /\ initial' = outputName
  /\ IF a \in Gamepad THEN inputCfg' = "app" /\ saved' = TRUE ELSE UNCHANGED <<inputCfg, saved>>
  /\ vdisplay' \in (IF a \in Virtual THEN BOOLEAN ELSE {FALSE})
  /\ outputName' = IF vdisplay' THEN "virtual" ELSE outputName
  /\ Continue(t, "probe")
  /\ UNCHANGED <<placebo, child, group, recent, it, owed>>

\* No encoder works and no session is active (503), or the prep commands begin.
Probe(t) ==
  /\ pc[t] = "probe"
  /\ \/ it' = 0 /\ Continue(t, "prep") /\ UNCHANGED outputName
     \/ Fail(t) /\ UNCHANGED it
  /\ UNCHANGED <<app, placebo, child, group, recent, vdisplay, initial, inputCfg, saved, owed>>

\* Mutant: the iterator moves past a command that failed.
PastFailed == it + 1

\* Where the iterator stays when a command fails.
AtFailed == it

\* The next do command succeeds, is empty or, for a desktop nobody is signed in
\* to, not permitted; then its undo command is owed. Or it fails.
Prepared(t) ==
  /\ pc[t] = "prep" /\ IteratorsValid /\ it < Len(Prep[app])
  /\ \/ /\ it' = it + 1
        /\ owed' = owed \cup {<<app, i>> : i \in {j \in {it'} : HasUndo(app, j)}}
        /\ Continue(t, "prep")
        /\ UNCHANGED outputName
     \/ /\ HasDo(app, it + 1)
        /\ Fail(t) /\ it' = AtFailed
        /\ UNCHANGED owed
  /\ UNCHANGED <<app, placebo, child, group, recent, vdisplay, initial, inputCfg, saved>>

\* The command of the application starts, or cannot be run; without one the
\* desktop is shown.
Start(t) ==
  /\ pc[t] = "prep" /\ IteratorsValid /\ it = Len(Prep[app])
  /\ \/ /\ IF app \in Desktop
           THEN placebo' = TRUE /\ UNCHANGED <<child, group>>
           ELSE child' = "running" /\ group' = "busy" /\ UNCHANGED placebo
        /\ recent' = TRUE
        /\ Finish(t)
        /\ UNCHANGED outputName
     \/ app \notin Desktop /\ Fail(t) /\ UNCHANGED <<placebo, child, group, recent>>
  /\ UNCHANGED <<app, it, vdisplay, initial, inputCfg, saved, owed>>

\* launch_input_only, unless a session is active.
InputOnly(t) ==
  /\ pc[t] = "input"
  /\ \/ app' = InputApp /\ placebo' = TRUE
     \/ UNCHANGED <<app, placebo>>
  /\ Finish(t)
  /\ UNCHANGED <<child, group, recent, it, worldVars>>

(***************************************************************************)
(* The application: its first process exits, the rest of its group ends,   *)
(* five seconds pass.                                                      *)
(***************************************************************************)
ChildExits == child = "running" /\ child' = "exited"
              /\ UNCHANGED <<app, placebo, group, recent, it, worldVars, pc, op, arg>>
GroupEnds  == group = "busy" /\ child = "exited" /\ group' = "empty"
              /\ UNCHANGED <<app, placebo, child, recent, it, worldVars, pc, op, arg>>
TimePasses == recent /\ recent' = FALSE
              /\ UNCHANGED <<app, placebo, child, group, it, worldVars, pc, op, arg>>

Request(t) ==
  \/ Pause(t) \/ Cancel(t) \/ Close(t)
  \/ \E a \in Apps \cup {InputApp} : Launch(t, a)
  \/ \E a \in Apps : WebLaunch(t, a)

Step(t) ==
  \/ Running(t) \/ Stop(t) \/ Kill(t) \/ Undo(t) \/ Undone(t) \/ Stopped(t)
  \/ Prepare(t) \/ Probe(t) \/ Prepared(t) \/ Start(t) \/ InputOnly(t)

Next ==
  \/ \E t \in Callers : Request(t)
  \/ \E t \in Threads : Poll(t) \/ Step(t)
  \/ ChildExits \/ GroupEnds \/ TimePasses

Spec == Init /\ [][Next]_vars

\* The threads go on, time passes, and the control thread asks for the
\* application whenever it can (every 150 ms while there is a context).
FairSpec ==
  /\ Spec
  /\ \A t \in Threads : WF_vars(Step(t)) /\ SF_vars(Poll(t))
  /\ WF_vars(TimePasses)

(***************************************************************************)
(* What holds for one thread at a time.                                    *)
(***************************************************************************)

\* The undo commands of the first n prep commands of an application.
Passed(a, n) == {<<a, i>> : i \in {j \in 1..n : HasUndo(a, j)}}

Idle == \A t \in Threads : pc[t] = "idle"

\* Whenever no operation is under way, whichever steps failed before, the host
\* is as the application that runs wants it: all its undo commands and no
\* others are owed, its input configuration is in force, its virtual display is
\* the one that is streamed; and without an application there is none of this
\* and no process (proc_t::terminate, src/src/process.cpp:932, the fail_guard
\* of execute, process.cpp:366).
HostMatchesApp ==
  Idle =>
    /\ owed = IF app \in Apps THEN Passed(app, Len(Prep[app])) ELSE {}
    /\ inputCfg = IF app \in Gamepad THEN "app" ELSE "user"
    /\ vdisplay => app \in Virtual
    /\ vdisplay <=> (outputName = "virtual")
    /\ (app = NoApp) <=> (~placebo /\ child = "null")

UndoneIsOwed ==
  \A t \in Threads :
    pc[t] = "undo" /\ pc'[t] = "undoing" /\ MoreToUndo /\ IteratorsValid /\ HasUndo(app, it) =>
      <<app, it>> \in owed /\ \A c \in owed : c[1] = app /\ c[2] <= it

\* An undo command is run only when it is owed, and it is that of the last
\* command passed (the loop of terminate, src/src/process.cpp:945).
UndoInOrder == [][UndoneIsOwed]_vars

\* The positions of the undo commands of each application.
Undos == [a \in Apps |-> {i \in 1..Len(Prep[a]) : HasUndo(a, i)}]

Stack == INSTANCE UndoStack WITH Others <- {InputApp}

\* One thread keeps what UndoStack promises: no application is taken up or given
\* up while an undo command is owed, whichever step of execute fails (execute
\* and terminate, src/src/process.cpp:325, 932).
KeepsStack == Stack!Spec

\* An application whose process has exited is cleaned up, unless it counts as a
\* detached one or its group is waited for (running, src/src/process.cpp:789).
ExitNoticed ==
  child = "exited" ~> child = "null" \/ placebo \/ (app \in WaitAll /\ group = "busy")

\* output_name is the user's again when no application runs ("Restore output
\* name to its original value", src/src/process.cpp:1037). It is not after
\* launch_input_only, which leaves initial_display empty.
OutputNameRestored == Idle /\ app = NoApp => outputName = "user"

(***************************************************************************)
(* The inductive invariant behind it, for one thread.                      *)
(***************************************************************************)

Entries == Apps \cup {NoApp, InputApp}

Types ==
  /\ app \in Entries /\ placebo \in BOOLEAN /\ recent \in BOOLEAN /\ it \in Nat
  /\ child \in {"null", "running", "exited"} /\ group \in {"null", "busy", "empty"}
  /\ vdisplay \in BOOLEAN /\ saved \in BOOLEAN /\ inputCfg \in {"user", "app"}
  /\ outputName \in {"user", "virtual", "empty"} /\ initial \in {"user", "empty"}
  /\ pc \in [Threads -> {"idle", "check", "stop", "kill", "undo", "undoing", "prepare",
                         "probe", "prep", "input"}]
  /\ op \in [Threads -> {"none", "poll", "pause", "cancel", "launch", "close", "execute", "fail"}]
  /\ arg \in [Threads -> Entries]

\* An operation is at a step of its own.
OpsAndSteps ==
  \A t \in Threads :
    /\ op[t] = "execute" => arg[t] \in Apps
    /\ op[t] = "launch" => arg[t] \in Apps \cup {InputApp}
    /\ pc[t] \in {"prepare", "probe", "prep"} => op[t] = "execute"
    /\ pc[t] \in {"idle", "check", "input"} => op[t] \notin {"execute", "fail"}

\* The iterator counts the commands whose undo commands are owed.
Ledger ==
  /\ app \in Apps => it <= Len(Prep[app])
  /\ app \notin Apps => it = 0
  /\ \A t \in Threads :
       IF pc[t] = "undoing" THEN it > 0 /\ owed = Passed(app, it - 1) ELSE owed = Passed(app, it)

\* The settings are those of the application, but for the output name once a
\* launch has failed.
Settings ==
  /\ saved <=> (inputCfg = "app")
  /\ saved <=> (app \in Gamepad)
  /\ vdisplay => app \in Virtual
  /\ outputName = "virtual" => vdisplay
  /\ \A t \in Threads : vdisplay /\ op[t] # "fail" => outputName = "virtual"

\* What an operation has settled when it is at a step.
Stages ==
  \A t \in Threads :
    /\ pc[t] \in {"idle", "check"} =>
         /\ (app = NoApp) <=> (~placebo /\ child = "null")
         /\ app \in Apps => it = Len(Prep[app])
    /\ pc[t] = "kill" => ~placebo
    /\ pc[t] \in {"undo", "undoing", "prepare", "probe", "prep", "input"} =>
         ~placebo /\ child = "null"
    /\ pc[t] \in {"prepare", "input"} => app = NoApp
    /\ pc[t] \in {"probe", "prep"} => app \in Apps
    /\ pc[t] = "probe" => it = 0

\* All of it, which no step disturbs.
HostInv == Types /\ OpsAndSteps /\ Ledger /\ Settings /\ Stages
=============================================================================
