------------------------------ MODULE MCProcess ------------------------------
(* Process with three applications: a game with settings of its own, a         *)
(* launcher that starts something else, a desktop with a virtual display.     *)
EXTENDS Process, TLC

CONSTANTS game, launcher, desktop

MCApps == {game, launcher, desktop}
MCPrep ==
  game :> <<"both", "do", "undo", "both">> @@ launcher :> << >> @@ desktop :> <<"both">>
==============================================================================
