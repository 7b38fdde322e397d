------------------------------ MODULE SharedRef ------------------------------
(***************************************************************************)
(* What safe::shared_t (src/src/thread_safe.h) promises its users: the     *)
(* first reference constructs the object, the others find it, the last one *)
(* to go destroys it, and until the destruction is over nobody gets        *)
(* another reference. How long the destruction takes is left open: it runs *)
(* in release(), with the mutex held, and may wait for threads.            *)
(*                                                                         *)
(* StreamSession implements this with broadcast (BroadcastIsShared), and   *)
(* Capture with capture_thread_async (CaptureIsShared). The counter is a   *)
(* detail of theirs.                                                       *)
(***************************************************************************)
CONSTANTS
  Handles     (* the ptr_t objects                                          *)

VARIABLES
  users,      (* those that are not null                                    *)
  object      (* "down", "up", "ending" (in its destructor)                 *)

Init == users = {} /\ object = "down"

\* ref(). A construction that fails changes nothing.
Acquire(h) ==
  /\ object = IF users = {} THEN "down" ELSE "up"
  /\ users' = users \cup {h}
  /\ object' = "up"

\* release() of one that is not the last, and of the last.
Release(h) ==
  /\ object = "up"
  /\ users' = users \ {h}
  /\ object' = IF users' = {} THEN "ending" ELSE "up"

Destroyed ==
  /\ object = "ending" /\ object' = "down"
  /\ UNCHANGED users

Next ==
  \/ \E h \in Handles \ users : Acquire(h)
  \/ \E h \in users : Release(h)
  \/ Destroyed

Spec == Init /\ [][Next]_<<users, object>>
==============================================================================
