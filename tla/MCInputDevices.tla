-------------------------- MODULE MCInputDevices --------------------------
(* InputDevices with a client that types and one that plays, too.            *)
EXTENDS InputDevices, TLC

CONSTANTS s1, s2

MCPermissions ==
  { s1 :> {"kbd"} @@ s2 :> {"kbd"}, s1 :> {"kbd"} @@ s2 :> {"mouse"},
    s1 :> {"controller"} @@ s2 :> {"controller"} }
=============================================================================
