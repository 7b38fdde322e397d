--------------------------- MODULE VirtualDisplay ---------------------------
(***************************************************************************)
(* The physical monitors of a KDE host while a virtual display streams:    *)
(* KwinWaylandBackend (backends/kwin_wayland.cpp) switches them off for    *)
(* the session and on again after it, recovery.cpp keeps their names in a  *)
(* lock file so that a start after an abnormal end can switch them on, and *)
(* main.cpp and process.cpp call both.                                     *)
(*                                                                         *)
(* Every command is a kscreen-doctor subprocess and every change of the    *)
(* file a rename, so the host may die between any two of them. One host    *)
(* runs at a time, and one thread of it is in the backend: execute ends    *)
(* what there is before it creates (module Process has its races).         *)
(***************************************************************************)
EXTENDS FiniteSets, Naturals

CONSTANTS
  Outputs,     (* the physical outputs                                      *)
  None,        (* no output                                                 *)
  MaxKills,    (* bound on the abnormal ends of the host                    *)
  Faults       (* what else may go wrong: a subset of AllFaults             *)

(***************************************************************************)
(* "untracked": the host is killed after it has switched an output off and *)
(* before it has written its name. "enable": switching on fails. "disk":   *)
(* the file is not written, or replaced by an empty one.                   *)
(***************************************************************************)
AllFaults == {"untracked", "enable", "disk"}

ASSUME VirtualDisplayAssumption ==
  /\ None \notin Outputs
  /\ MaxKills \in Nat
  /\ Faults \subseteq AllFaults

VARIABLES
  on,        (* the outputs KWin has enabled                                *)
  user,      (* the outputs the user wants: what is on but for the host     *)
  file,      (* the names in disabled-outputs.lock, none if it is missing   *)
  stage,     (* where the host is, "down" when it does not run              *)
  todo,      (* the outputs a loop has not come to yet                      *)
  cur,       (* the output it is at                                         *)
  held,      (* disabled_outputs, in create and in its entry of active_     *)
  quit,      (* the host ends after this: a signal was handled              *)
  kills      (* abnormal ends so far                                        *)

displayVars == <<on, user, file, stage, todo, cur, held, quit, kills>>

DisplayInit ==
  /\ on = Outputs /\ user = Outputs /\ file = {}
  /\ stage = "down" /\ todo = {} /\ cur = None /\ held = {}
  /\ quit = FALSE /\ kills = 0

(***************************************************************************)
(* The commands and the file                                               *)
(***************************************************************************)

\* output.X.enable; the answer of the command is only logged.
Enable(o) == on' \in {on \cup {o}} \cup (IF "enable" \in Faults THEN {on} ELSE {})

\* output.X.disable; the answer of the command is ignored.
Disable(o) == on' \in {on \ {o}, on}

\* write_outputs: a temporary file, renamed even if writing to it has failed.
Write(s) == file' \in {s} \cup (IF "disk" \in Faults THEN {file, {}} ELSE {})

(***************************************************************************)
(* recover_on_boot(), before anything else of the host runs                *)
(***************************************************************************)

Boot ==
  /\ stage = "down"
  /\ IF file = {}
     THEN stage' = "idle" /\ todo' = {}
     ELSE stage' = "heal" /\ todo' = file
  /\ quit' = FALSE
  /\ UNCHANGED <<on, user, file, cur, held, kills>>

Heal ==
  /\ stage = "heal"
  /\ \E o \in todo : Enable(o) /\ todo' = todo \ {o}
  /\ UNCHANGED <<user, file, stage, cur, held, quit, kills>>

\* Mutant: the file is removed before the outputs are switched on.
ClearFirst ==
  /\ stage = "heal"
  /\ file' = {}
  /\ stage' = IF todo = {} THEN "idle" ELSE stage
  /\ UNCHANGED <<on, user, todo, cur, held, quit, kills>>

\* The file goes when every output was tried, whatever the answers were.
Clear ==
  /\ stage = "heal" /\ todo = {}
  /\ file' = {} /\ stage' = "idle"
  /\ UNCHANGED <<on, user, todo, cur, held, quit, kills>>

(***************************************************************************)
(* create(): what is on is listed once, then each output is switched off   *)
(* and its name written. If the list cannot be had nothing is switched off *)
(* and the session starts all the same.                                    *)
(***************************************************************************)

Create ==
  /\ stage = "idle" /\ ~quit
  /\ stage' = "disable" /\ todo' \in {on, {}} /\ held' = {}
  /\ UNCHANGED <<on, user, file, cur, quit, kills>>

SwitchOff ==
  /\ stage = "disable"
  /\ \E o \in todo :
       /\ Disable(o)
       /\ todo' = todo \ {o} /\ cur' = o /\ held' = held \cup {o}
  /\ stage' = "track"
  /\ UNCHANGED <<user, file, quit, kills>>

\* Mutant: only the last output is in the file.
TrackOnly ==
  /\ stage = "track"
  /\ Write({cur})
  /\ stage' = "disable" /\ cur' = None
  /\ UNCHANGED <<on, user, todo, held, quit, kills>>

\* track_disabled_output
Track ==
  /\ stage = "track"
  /\ Write(file \cup {cur})
  /\ stage' = "disable" /\ cur' = None
  /\ UNCHANGED <<on, user, todo, held, quit, kills>>

\* The display is in active_, and proc_t has its handle.
Created ==
  /\ stage = "disable" /\ todo = {}
  /\ stage' = "session"
  /\ UNCHANGED <<on, user, file, todo, cur, held, quit, kills>>

(***************************************************************************)
(* destroy(), from terminate(): the entry of active_ is erased first, then *)
(* each of its outputs is switched on and its name removed.                *)
(***************************************************************************)

Destroy ==
  /\ stage = "session"
  /\ stage' = "enable" /\ todo' = held /\ held' = {}
  /\ UNCHANGED <<on, user, file, cur, quit, kills>>

SwitchOn ==
  /\ stage = "enable"
  /\ \E o \in todo : Enable(o) /\ cur' = o
  /\ stage' = "untrack"
  /\ UNCHANGED <<user, file, todo, held, quit, kills>>

\* Mutant: the names stay in the file.
UntrackNothing ==
  /\ stage = "untrack"
  /\ todo' = todo \ {cur} /\ cur' = None /\ stage' = "enable"
  /\ UNCHANGED <<on, user, file, held, quit, kills>>

\* untrack_disabled_output; without names the file is removed.
Untrack ==
  /\ stage = "untrack"
  /\ IF cur \notin file THEN UNCHANGED file
     ELSE IF file = {cur} THEN file' = {}
     ELSE Write(file \ {cur})
  /\ todo' = todo \ {cur} /\ cur' = None /\ stage' = "enable"
  /\ UNCHANGED <<on, user, held, quit, kills>>

Destroyed ==
  /\ stage = "enable" /\ todo = {}
  /\ stage' = "idle"
  /\ UNCHANGED <<on, user, file, todo, cur, held, quit, kills>>

(***************************************************************************)
(* The ways the host ends. An interrupt lets main return, which calls      *)
(* terminate(); a crash calls terminate() from the signal handler, which   *)
(* finds nothing to do unless proc_t has the handle and active_ the        *)
(* display, and then _Exit; a kill does nothing.                           *)
(***************************************************************************)

Interrupt ==
  /\ stage \notin {"down", "heal"} /\ ~quit
  /\ quit' = TRUE
  /\ UNCHANGED <<on, user, file, stage, todo, cur, held, kills>>

\* A fatal signal while there is a display. At any other point it is a kill.
Crash ==
  /\ stage = "session" /\ kills < MaxKills /\ quit' = TRUE /\ kills' = kills + 1
  /\ stage' = "enable" /\ todo' = held /\ held' = {}
  /\ UNCHANGED <<on, user, file, cur>>

Exit ==
  /\ stage = "idle" /\ quit
  /\ stage' = "down"
  /\ UNCHANGED <<on, user, file, todo, cur, held, quit, kills>>

KillHost ==
  /\ stage # "down" /\ kills < MaxKills
  /\ stage = "track" => "untracked" \in Faults
  /\ kills' = kills + 1
  /\ stage' = "down" /\ todo' = {} /\ cur' = None /\ held' = {}
  /\ UNCHANGED <<on, user, file, quit>>

(***************************************************************************)
(* The user, in the settings of the desktop: an output may be switched on  *)
(* by hand at any time; without a session the user may also change which   *)
(* outputs are to be on.                                                   *)
(***************************************************************************)

ByHand(o) ==
  /\ o \in user \ on
  /\ on' = on \cup {o}
  /\ UNCHANGED <<user, file, stage, todo, cur, held, quit, kills>>

Choose(o) ==
  /\ stage = "idle"
  /\ IF o \in user
     THEN user' = user \ {o} /\ on' = on \ {o}
     ELSE user' = user \cup {o} /\ on' = on \cup {o}
  /\ UNCHANGED <<file, stage, todo, cur, held, quit, kills>>

HostStep ==
  \/ Boot \/ Heal \/ Clear
  \/ SwitchOff \/ Track \/ Created
  \/ SwitchOn \/ Untrack \/ Destroyed
  \/ Exit

DisplayNext ==
  \/ HostStep
  \/ Create \/ Destroy \/ Interrupt \/ Crash \/ KillHost
  \/ \E o \in Outputs : ByHand(o) \/ Choose(o)

DisplaySpec == DisplayInit /\ [][DisplayNext]_displayVars

(***************************************************************************)
(* Fairness: a host that runs goes on, one that is told to quit ends its   *)
(* session (terminate() in the handler or when main returns), and one that *)
(* has ended is started again, by the service manager or by the user. No   *)
(* session has to begin or to end, and no user to come.                    *)
(***************************************************************************)
FairDisplaySpec == DisplaySpec /\ WF_displayVars(HostStep) /\ WF_displayVars(quit /\ Destroy)

-----------------------------------------------------------------------------

TypeOK ==
  /\ on \subseteq Outputs /\ user \subseteq Outputs /\ file \subseteq Outputs
  /\ stage \in {"down", "heal", "idle", "disable", "track", "session", "enable", "untrack"}
  /\ todo \subseteq Outputs /\ cur \in Outputs \cup {None} /\ held \subseteq Outputs
  /\ quit \in BOOLEAN /\ kills \in Nat

\* The outputs that are off because of the host.
Dark == user \ on

\* Wherever the host dies, the outputs it has switched off are in the lock
\* file: "Sonnenschein heals itself on the next launch even after a hard kill"
\* (recovery.h:14). In the order of the code they are not between
\* output.X.disable and track_disabled_output (kwin_wayland.cpp:143-147).
Recoverable == stage = "down" => Dark \subseteq file

\* A host without a session leaves the monitors as the user wants them, the
\* ones the user has switched off included, and no lock file: "no lockfile
\* (last shutdown was clean)" (recovery.cpp:151). Whatever happened before.
IdleRestored == stage = "idle" => on = user /\ file = {}

\* Why: what is off is in the file or in the hands of the step that is about
\* to write it, and every loop has already switched on, or removed from the
\* file, the outputs it has been at.
DarkIsKnown ==
  /\ Dark \subseteq file \cup (IF stage = "track" THEN {cur} ELSE {})
  /\ on \cup file \subseteq user \cup (IF stage = "track" THEN {cur} ELSE {})
  /\ todo \cup held \subseteq user
  /\ stage = "heal" => file \ on \subseteq todo
  /\ stage \in {"disable", "session"} => file \subseteq held
  /\ stage = "track" => cur \in user /\ file \cup {cur} \subseteq held
  /\ stage \in {"enable", "untrack"} => file \subseteq todo
  /\ stage = "untrack" => cur \in on /\ cur \in todo
  /\ stage \in {"down", "idle"} => todo = {}
  /\ stage \in {"down", "heal", "idle", "enable", "untrack"} => held = {}

VirtualDisplayInv == TypeOK /\ DarkIsKnown /\ IdleRestored /\ Recoverable

\* After an abnormal end the monitors come on again without anybody's help.
Heals == stage = "down" ~> user \subseteq on

=============================================================================
