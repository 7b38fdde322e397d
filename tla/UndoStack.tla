------------------------------ MODULE UndoStack ------------------------------
(***************************************************************************)
(* What the owner of an application promises about preparation and undoing: *)
(* an application is taken up only when there is none and nothing is owed; *)
(* its undo commands become owed one after the other, without a gap, are   *)
(* run in the opposite order, and the application is given up only when    *)
(* none is left. A preparation that fails is undone from where it is.      *)
(*                                                                         *)
(* Process implements this for one thread (KeepsStack, ProcessProofs).     *)
(***************************************************************************)
EXTENDS Integers

CONSTANTS
  Apps,       (* the applications                                           *)
  Others,     (* what may run instead and owes nothing                      *)
  NoApp,      (* nothing runs                                               *)
  Undos       (* per application the positions of its undo commands         *)

VARIABLES
  app,        (* what runs                                                  *)
  owed        (* the undo commands to run, <<application, position>>        *)

\* The undo commands before position i.
Below(i) == {<<app, j>> : j \in {k \in Undos[app] : k < i}}

Init == app = NoApp /\ owed = {}

TakeUp ==
  /\ app = NoApp /\ owed = {}
  /\ app' \in Apps \cup Others
  /\ UNCHANGED owed

Pass ==
  /\ app \in Apps
  /\ \E i \in Undos[app] : owed = Below(i) /\ owed' = Below(i) \cup {<<app, i>>}
  /\ UNCHANGED app

Repay ==
  /\ app \in Apps
  /\ \E i \in Undos[app] : owed = Below(i) \cup {<<app, i>>} /\ owed' = Below(i)
  /\ UNCHANGED app

GiveUp ==
  /\ owed = {}
  /\ app' = NoApp
  /\ UNCHANGED owed

Next == TakeUp \/ Pass \/ Repay \/ GiveUp

Spec == Init /\ [][Next]_<<app, owed>>
==============================================================================
