---------------------------- MODULE InputDevices ----------------------------
(***************************************************************************)
(* The devices the sessions share, src/src/input.cpp: the keys and mouse   *)
(* buttons that are pressed, the key that repeats, the release of the left *)
(* button that is held back, the gamepads and the BACK button that turns   *)
(* into HOME. The task pool (src/src/task_pool.h, one thread) runs the     *)
(* packets of all sessions and the delayed tasks; the threads that end     *)
(* sessions call reset.                                                    *)
(*                                                                         *)
(* How a packet gets to the pool is InputBatch; here it is a task of its   *)
(* session, and what it holds is chosen when it runs. A handler is one     *)
(* step, but for the id of a delayed task, which is stored after the task  *)
(* has been pushed and which reset reads without a lock.                   *)
(*                                                                         *)
(* The id of a task is its address: an address is used again as soon as    *)
(* its task is gone, while stale copies of it are still around.            *)
(*                                                                         *)
(* Bounds: at most MaxTasks packets wait in the pool, and Addresses bounds *)
(* the delayed tasks; neither is limited in the code. A session is allowed *)
(* once.                                                                   *)
(***************************************************************************)
EXTENDS Integers, Sequences, FiniteSets

CONSTANTS
  Sessions,    (* input_t objects                                           *)
  Permissions, (* what the clients may send, per session: kbd, mouse,       *)
               (* controller                                                *)
  Keys,        (* keys, with their flags (key_press_id_t)                   *)
  Shift,       (* the modifier among them (one stands for the three)        *)
  Controllers, (* controller numbers of a client                            *)
  Ids,         (* platform ids of gamepads, 0 .. MAX_GAMEPADS - 1           *)
  Addresses,   (* addresses of delayed tasks                                *)
  Null,        (* nullptr; for the left button: its delay is enabled        *)
  Disable,     (* DISABLE_LEFT_BUTTON_DELAY                                 *)
  MaxTasks     (* bound of the model                                        *)

ASSUME InputDevicesAssumption ==
  /\ Permissions \subseteq [Sessions -> SUBSET {"kbd", "mouse", "controller"}]
  /\ Shift \in Keys
  /\ Ids = 0 .. Cardinality(Ids) - 1 /\ IsFiniteSet(Ids)
  /\ Null \notin Addresses /\ Disable \notin Addresses /\ Null # Disable
  /\ MaxTasks \in Nat

NoId == -1   \* gamepad_t::id of a controller that is not allocated

Buttons == {"left", "right"}

VARIABLES
  permission,  (* per session: what its client may send                     *)
  tasks,       (* _tasks: pairs of "packet", "reset" or "free" and for what *)
  timers,      (* _timer_tasks: their address, what they do and for whom    *)
  storing,     (* a pushed timer whose id is not stored yet, as a set of it *)
  repeatId,    (* key_press_repeat_id                                       *)
  keyPress,    (* key_press: the keys with true                             *)
  mousePress,  (* mouse_press: the buttons that are set                     *)
  mask,        (* gamepadMask: the ids in use                               *)
  flags,       (* per session: shortcutFlags holds SHIFT                    *)
  left,        (* per session: mouse_left_button_timeout                    *)
  pad,         (* per session and controller: gamepad_t::id                 *)
  back,        (* likewise: BACK in gamepad_state                           *)
  forced,      (* likewise: back_button_state is UP                         *)
  backId,      (* likewise: back_timeout_id                                 *)
  osKeys, osButtons,  (* what the operating system takes as pressed         *)
  osPads,      (* the ids of the gamepads it has                            *)
  sess,        (* per session: "new", "up", the step of its end, "freed"    *)
  jid          (* per session: the id its reset is about to cancel          *)

keyVars   == <<repeatId, keyPress, flags, osKeys>>
mouseVars == <<mousePress, left, osButtons>>
padVars   == <<mask, pad, back, forced, backId, osPads>>
sessVars  == <<sess, jid, permission>>
vars == <<tasks, timers, storing, keyVars, mouseVars, padVars, sessVars>>

Timers == [id : Addresses, what : {"repeat", "left", "back"},
           session : Sessions \cup {Null}, key : Keys \cup {Null}, shift : BOOLEAN,
           ctrl : Controllers \cup {Null}]

Init ==
  /\ permission \in Permissions
  /\ tasks = << >> /\ timers = {} /\ storing = {}
  /\ repeatId = Null /\ keyPress = {} /\ mousePress = {} /\ mask = {}
  /\ flags = [s \in Sessions |-> FALSE]
  /\ left = [s \in Sessions |-> Null]
  /\ pad = [s \in Sessions |-> [c \in Controllers |-> NoId]]
  /\ back = [s \in Sessions |-> [c \in Controllers |-> FALSE]]
  /\ forced = [s \in Sessions |-> [c \in Controllers |-> FALSE]]
  /\ backId = [s \in Sessions |-> [c \in Controllers |-> Null]]
  /\ osKeys = {} /\ osButtons = {} /\ osPads = {}
  /\ sess = [s \in Sessions |-> "new"] /\ jid = [s \in Sessions |-> Null]

(***************************************************************************)
(* The task pool. Tasks come before timers; only timers have ids.          *)
(***************************************************************************)
Free == Addresses \ {t.id : t \in timers \cup storing}

Without(a) == {t \in timers : t.id # a}   \* cancel(a)

\* The pool thread is between two tasks.
PoolReady == storing = {}

\* The first task is a packet of session s.
Handles(s) ==
  /\ PoolReady /\ tasks # << >> /\ Head(tasks) = <<"packet", s>>
  /\ tasks' = Tail(tasks)

Timer(a, what, s, k, shift, c) ==
  [id |-> a, what |-> what, session |-> s, key |-> k, shift |-> shift, ctrl |-> c]

\* The assignment of the id pushDelayed has returned.
Store(t) ==
  /\ t \in storing /\ storing' = {}
  /\ IF t.what = "repeat"
     THEN repeatId' = t.id /\ UNCHANGED left
     ELSE left' = [left EXCEPT ![t.session] = t.id] /\ UNCHANGED repeatId
  /\ UNCHANGED <<tasks, timers, keyPress, flags, osKeys, mousePress, osButtons,
                 padVars, sessVars>>

\* A timer fires: the pool thread has taken it out.
Fires(t) ==
  /\ PoolReady /\ tasks = << >> /\ t \in timers
  /\ UNCHANGED <<tasks, sessVars>>

(***************************************************************************)
(* Keys.                                                                   *)
(***************************************************************************)
\* send_key_and_modifiers for a press: a synthetic SHIFT goes down and up again.
Pressed(k, shift) == (osKeys \cup {k}) \ (IF shift THEN {Shift} ELSE {})

\* Whether the packet asks for a SHIFT the client has not pressed.
Synthetic(s, k, shift) == shift /\ k # Shift /\ ~flags[s]

\* Mutant: a new key does not cancel the repetition of the one before.
KeyDownNoCancel(s, k, shift) ==
  /\ Handles(s) /\ k \notin keyPress
  /\ \E a \in Free :
       LET t == Timer(a, "repeat", Null, k, Synthetic(s, k, shift), Null)
       IN  timers' = timers \cup {t} /\ storing' = {t}
  /\ keyPress' = keyPress \cup {k}
  /\ osKeys' = Pressed(k, Synthetic(s, k, shift))
  /\ flags' = [flags EXCEPT ![s] = @ \/ k = Shift]
  /\ UNCHANGED <<repeatId, mouseVars, padVars, sessVars>>
\* A key goes down that was up: the key that repeats is replaced.
KeyDown(s, k, shift) ==
  /\ Handles(s) /\ k \notin keyPress
  /\ \E a \in Addresses \ {t.id : t \in Without(repeatId)} :
       LET t == Timer(a, "repeat", Null, k, Synthetic(s, k, shift), Null)
       IN  timers' = Without(repeatId) \cup {t} /\ storing' = {t}
  /\ keyPress' = keyPress \cup {k}
  /\ osKeys' = Pressed(k, Synthetic(s, k, shift))
  /\ flags' = [flags EXCEPT ![s] = @ \/ k = Shift]
  /\ UNCHANGED <<repeatId, mouseVars, padVars, sessVars>>

KeyUp(s, k) ==
  /\ Handles(s) /\ k \in keyPress
  /\ keyPress' = keyPress \ {k} /\ osKeys' = osKeys \ {k}
  /\ flags' = [flags EXCEPT ![s] = @ /\ k # Shift]
  /\ UNCHANGED <<timers, storing, repeatId, mouseVars, padVars, sessVars>>

\* Mutant: the key is repeated without looking whether it is still pressed.
RepeatKeyAlways(t) ==
  /\ Fires(t) /\ t.what = "repeat"
  /\ osKeys' = Pressed(t.key, t.shift)
  /\ \E a \in Addresses \ {u.id : u \in timers \ {t}} :
       LET u == [t EXCEPT !.id = a]
       IN  timers' = (timers \ {t}) \cup {u} /\ storing' = {u}
  /\ UNCHANGED <<repeatId, keyPress, flags, mouseVars, padVars>>
\* repeat_key.
RepeatKey(t) ==
  /\ Fires(t) /\ t.what = "repeat"
  /\ \/ /\ t.key \notin keyPress
        /\ repeatId' = Null /\ timers' = timers \ {t}
        /\ UNCHANGED <<osKeys, storing>>
     \/ /\ t.key \in keyPress
        /\ osKeys' = Pressed(t.key, t.shift)
        /\ \E a \in Free :
             LET u == [t EXCEPT !.id = a]
             IN  timers' = (timers \ {t}) \cup {u} /\ storing' = {u}
        /\ UNCHANGED repeatId
  /\ UNCHANGED <<keyPress, flags, mouseVars, padVars>>

(***************************************************************************)
(* The mouse.                                                              *)
(***************************************************************************)
MoveRel(s) ==
  /\ Handles(s)
  /\ left' = [left EXCEPT ![s] = Disable]
  /\ UNCHANGED <<timers, storing, keyVars, mousePress, osButtons, padVars, sessVars>>

MoveAbs(s) ==
  /\ Handles(s)
  /\ left' = [left EXCEPT ![s] = IF @ = Disable THEN Null ELSE @]
  /\ UNCHANGED <<timers, storing, keyVars, mousePress, osButtons, padVars, sessVars>>

\* A release of the left button right after an absolute position is held back,
\* so that a right button that follows gets in before it.
HoldBackLeft(s) ==
  /\ Handles(s) /\ "left" \in mousePress /\ left[s] = Null
  /\ mousePress' = mousePress \ {"left"}
  /\ \E a \in Free :
       LET t == Timer(a, "left", s, Null, FALSE, Null)
       IN  timers' = timers \cup {t} /\ storing' = {t}
  /\ UNCHANGED <<keyVars, left, osButtons, padVars, sessVars>>

\* A right press while a release is held back, or was and has not been
\* forgotten, is a click.
ButtonDown(s, b) ==
  /\ Handles(s) /\ b \notin mousePress
  /\ IF b = "right" /\ left[s] \notin {Null, Disable}
     THEN mousePress' = mousePress /\ osButtons' = osButtons \ {b}
     ELSE mousePress' = mousePress \cup {b} /\ osButtons' = osButtons \cup {b}
  /\ UNCHANGED <<timers, storing, keyVars, left, padVars, sessVars>>

ButtonUp(s, b) ==
  /\ Handles(s) /\ b \in mousePress /\ ~(b = "left" /\ left[s] = Null)
  /\ mousePress' = mousePress \ {b} /\ osButtons' = osButtons \ {b}
  /\ UNCHANGED <<timers, storing, keyVars, left, padVars, sessVars>>

\* The release that was held back; nothing when the button is down again.
ReleaseLeft(t) ==
  /\ Fires(t) /\ t.what = "left" /\ timers' = timers \ {t}
  /\ IF "left" \in mousePress
     THEN UNCHANGED <<osButtons, left>>
     ELSE osButtons' = osButtons \ {"left"} /\ left' = [left EXCEPT ![t.session] = Null]
  /\ UNCHANGED <<storing, keyVars, mousePress, padVars>>

(***************************************************************************)
(* Gamepads.                                                               *)
(***************************************************************************)
\* Mutant: an id that waits to be freed is given away.
AllocUnheld(s, c) ==
  /\ pad[s][c] = NoId
  /\ \E n \in Ids \ {pad[s2][c2] : s2 \in Sessions, c2 \in Controllers} :
       mask' = mask \cup {n} /\ osPads' = osPads \cup {n} /\ pad' = [pad EXCEPT ![s][c] = n]
\* alloc_id and platf::alloc_gamepad, which may fail.
Alloc(s, c) ==
  /\ pad[s][c] = NoId
  /\ \E n \in Ids \ mask :
       /\ \A m \in Ids \ mask : n <= m
       /\ mask' = mask \cup {n} /\ osPads' = osPads \cup {n}
       /\ pad' = [pad EXCEPT ![s][c] = n]

\* Controller arrival.
Arrival(s, c) ==
  /\ Handles(s)
  /\ Alloc(s, c)
  /\ UNCHANGED <<timers, storing, keyVars, mouseVars, back, forced, backId, sessVars>>

\* A packet that changes nothing: a key or button that is already there, an
\* arrival that finds no id or fails, movements of a gamepad, text, touch.
Ignored(s) ==
  /\ Handles(s)
  /\ UNCHANGED <<timers, storing, keyVars, mouseVars, padVars, sessVars>>

\* The client's mask has no controller c any more: free_gamepad. Its state and
\* a running BACK timer stay.
PadGone(s, c) ==
  /\ Handles(s) /\ pad[s][c] # NoId
  /\ mask' = mask \ {pad[s][c]} /\ osPads' = osPads \ {pad[s][c]}
  /\ pad' = [pad EXCEPT ![s][c] = NoId]
  /\ UNCHANGED <<timers, storing, keyVars, mouseVars, back, forced, backId, sessVars>>

\* The state of a controller, with BACK down or up; allocates it if need be.
\* BACK that HOME has replaced counts as up until the client releases it.
PadState(s, c, down) ==
  LET now == down /\ ~forced[s][c]
  IN  /\ Handles(s)
      /\ Alloc(s, c) \/ (pad[s][c] # NoId /\ UNCHANGED <<mask, pad, osPads>>)
      /\ back' = [back EXCEPT ![s][c] = now]
      /\ forced' = [forced EXCEPT ![s][c] = @ /\ down]
      /\ \/ /\ now /\ ~back[s][c]
            /\ \E a \in Free :
                 /\ timers' = timers \cup {Timer(a, "back", s, Null, FALSE, c)}
                 /\ backId' = [backId EXCEPT ![s][c] = a]
         \/ /\ ~now /\ back[s][c] /\ backId[s][c] # Null
            /\ timers' = Without(backId[s][c])
            /\ backId' = [backId EXCEPT ![s][c] = Null]
         \/ /\ now = back[s][c] \/ (~now /\ backId[s][c] = Null)
            /\ UNCHANGED <<timers, backId>>
      /\ UNCHANGED <<storing, keyVars, mouseVars, sessVars>>

\* BACK was held long enough: it goes up, HOME goes down and up.
BackBecomesHome(t) ==
  /\ Fires(t) /\ t.what = "back" /\ timers' = timers \ {t}
  /\ back' = [back EXCEPT ![t.session][t.ctrl] = FALSE]
  /\ forced' = [forced EXCEPT ![t.session][t.ctrl] = TRUE]
  /\ backId' = [backId EXCEPT ![t.session][t.ctrl] = Null]
  /\ UNCHANGED <<storing, keyVars, mouseVars, mask, pad, osPads>>

\* The task of a destroyed gamepad_t: free_gamepad.
FreePad(n) ==
  /\ PoolReady /\ tasks # << >> /\ Head(tasks) = <<"free", n>> /\ tasks' = Tail(tasks)
  /\ mask' = mask \ {n} /\ osPads' = osPads \ {n}
  /\ UNCHANGED <<timers, storing, keyVars, mouseVars, pad, back, forced, backId, sessVars>>

(***************************************************************************)
(* Sessions.                                                               *)
(***************************************************************************)
SessionStarts(s) ==
  /\ sess[s] = "new" /\ sess' = [sess EXCEPT ![s] = "up"]
  /\ UNCHANGED <<tasks, timers, storing, keyVars, mouseVars, padVars, jid, permission>>

\* The control thread has a packet of the session.
Packet(s) ==
  /\ sess[s] = "up" /\ Len(tasks) < MaxTasks
  /\ tasks' = Append(tasks, <<"packet", s>>)
  /\ UNCHANGED <<timers, storing, keyVars, mouseVars, padVars, sessVars>>

\* session::join has seen the control stream end and calls reset, which reads
\* an id and then looks for it in the pool.
EndStep(s, from, to) == sess[s] = from /\ sess' = [sess EXCEPT ![s] = to]

ReadRepeat(s) ==
  /\ EndStep(s, "up", "cancelRepeat") /\ jid' = [jid EXCEPT ![s] = repeatId]
  /\ UNCHANGED <<tasks, timers, storing, keyVars, mouseVars, padVars, permission>>

CancelRepeat(s) ==
  /\ EndStep(s, "cancelRepeat", "readLeft") /\ timers' = Without(jid[s])
  /\ jid' = [jid EXCEPT ![s] = Null]
  /\ UNCHANGED <<tasks, storing, keyVars, mouseVars, padVars, permission>>

ReadLeft(s) ==
  /\ EndStep(s, "readLeft", "cancelLeft") /\ jid' = [jid EXCEPT ![s] = left[s]]
  /\ UNCHANGED <<tasks, timers, storing, keyVars, mouseVars, padVars, permission>>

CancelLeft(s) ==
  /\ EndStep(s, "cancelLeft", "reset") /\ timers' = Without(jid[s])
  /\ jid' = [jid EXCEPT ![s] = Null]
  /\ UNCHANGED <<tasks, storing, keyVars, mouseVars, padVars, permission>>

PushReset(s) ==
  /\ EndStep(s, "reset", "over") /\ tasks' = Append(tasks, <<"reset", Null>>)
  /\ UNCHANGED <<timers, storing, keyVars, mouseVars, padVars, jid, permission>>

\* The task of reset: all that is pressed goes up, whosever it is.
Reset ==
  /\ PoolReady /\ tasks # << >> /\ Head(tasks) = <<"reset", Null>> /\ tasks' = Tail(tasks)
  /\ osButtons' = osButtons \ mousePress /\ mousePress' = {}
  /\ osKeys' = osKeys \ keyPress /\ keyPress' = {}
  /\ UNCHANGED <<timers, storing, repeatId, flags, left, padVars, sessVars>>

\* The last reference to the input_t goes: its gamepads push tasks.
InUse(s) ==
  \/ \E k \in DOMAIN tasks : tasks[k] = <<"packet", s>>
  \/ \E t \in timers \cup storing : t.session = s

\* ~gamepad_t of one controller, or the end of the others: nobody looks at the
\* fields of a freed input_t any more.
Destroy(s) ==
  /\ sess[s] = "over" /\ ~InUse(s)
  /\ \/ \E c \in Controllers :
          /\ pad[s][c] # NoId
          /\ tasks' = Append(tasks, <<"free", pad[s][c]>>)
          /\ pad' = [pad EXCEPT ![s][c] = NoId]
          /\ UNCHANGED <<sess, flags, left, back, forced, backId>>
     \/ /\ \A c \in Controllers : pad[s][c] = NoId
        /\ sess' = [sess EXCEPT ![s] = "freed"]
        /\ flags' = [flags EXCEPT ![s] = FALSE] /\ left' = [left EXCEPT ![s] = Null]
        /\ back' = [back EXCEPT ![s] = [c \in Controllers |-> FALSE]]
        /\ forced' = [forced EXCEPT ![s] = [c \in Controllers |-> FALSE]]
        /\ backId' = [backId EXCEPT ![s] = [c \in Controllers |-> Null]]
        /\ UNCHANGED <<tasks, pad>>
  /\ UNCHANGED <<timers, storing, repeatId, keyPress, osKeys, mousePress, osButtons, mask, osPads,
                 jid, permission>>

(***************************************************************************)
(* The pool thread and the others.                                         *)
(***************************************************************************)
Keyboard(s) ==
  /\ "kbd" \in permission[s]
  /\ \E k \in Keys : KeyUp(s, k) \/ \E shift \in BOOLEAN : KeyDown(s, k, shift)

Mouse(s) ==
  /\ "mouse" \in permission[s]
  /\ \/ MoveRel(s) \/ MoveAbs(s) \/ HoldBackLeft(s)
     \/ \E b \in Buttons : ButtonDown(s, b) \/ ButtonUp(s, b)

Controller(s) ==
  /\ "controller" \in permission[s]
  /\ \E c \in Controllers :
       Arrival(s, c) \/ PadGone(s, c) \/ \E down \in BOOLEAN : PadState(s, c, down)

Handle(s) == Keyboard(s) \/ Mouse(s) \/ Controller(s) \/ Ignored(s)

Pool ==
  \/ \E t \in storing : Store(t)
  \/ \E s \in Sessions : Handle(s)
  \/ Reset
  \/ \E n \in Ids : FreePad(n)
  \/ \E t \in timers : RepeatKey(t) \/ ReleaseLeft(t) \/ BackBecomesHome(t)

Ends(s) ==
  \/ CancelRepeat(s) \/ ReadLeft(s) \/ CancelLeft(s) \/ PushReset(s)
  \/ Destroy(s)

Next ==
  \/ Pool
  \/ \E s \in Sessions : SessionStarts(s) \/ Packet(s) \/ ReadRepeat(s) \/ Ends(s)

Spec == Init /\ [][Next]_vars
FairSpec ==
  /\ Spec
  /\ WF_vars(Pool)
  /\ \A s \in Sessions : WF_vars(Ends(s))

(***************************************************************************)
(* Properties.                                                             *)
(***************************************************************************)
\* Every id of the mask has one owner, the gamepad of a session or the task that
\* will free it, and is a gamepad of the operating system ("If this is the final
\* event for a gamepad being removed, free the gamepad").
Held == {n \in Ids : \E s \in Sessions, c \in Controllers : pad[s][c] = n}
Queued == {n \in Ids : \E k \in DOMAIN tasks : tasks[k] = <<"free", n>>}

PadIdsExact ==
  /\ mask = Held \cup Queued /\ Held \cap Queued = {} /\ osPads = mask
  /\ \A s1, s2 \in Sessions, c1, c2 \in Controllers :
       pad[s1][c1] = pad[s2][c2] /\ pad[s1][c1] # NoId => s1 = s2 /\ c1 = c2
  /\ \A k1, k2 \in DOMAIN tasks :
       tasks[k1] = tasks[k2] /\ tasks[k1][1] = "free" => k1 = k2

\* A delayed task repeats a key: at most one, and a new key or the end of a
\* session will find it under key_press_repeat_id, although cancelled tasks leave
\* their id behind and another task may get it.
Repeats == {t \in timers : t.what = "repeat"}

OneRepeat ==
  /\ \A t, u \in Repeats \cup {t \in storing : t.what = "repeat"} : t = u
  /\ \A t \in Repeats : storing # {t} => repeatId = t.id

\* What is down in the operating system is down in the tables: reset knows it. The
\* left button may also be waiting for its release.
Known ==
  /\ osKeys \subseteq keyPress
  /\ osButtons \ {"left"} \subseteq mousePress

\* No key and no button but the left one stays down when the sessions are over
\* ("Reset input on session stop to avoid stuck repeated keys", stream.cpp:2046):
\* whatever they had pressed, the last reset comes after the last packet.
Gone == {"new", "over", "freed"}
NothingHeld ==
  /\ \A s \in Sessions : sess[s] \in Gone
  /\ \A k \in DOMAIN tasks : tasks[k][1] = "free"
  => osKeys = {} /\ osButtons \subseteq {"left"}

\* What NothingHeld rests on: while something is down a session has not yet pushed
\* its reset or one is queued, and behind every packet comes a reset.
Active == {s \in Sessions : sess[s] \notin Gone}
ResetAfter(n) == \E k \in DOMAIN tasks : k > n /\ tasks[k][1] = "reset"

ResetComes ==
  /\ keyPress # {} \/ mousePress # {} => Active # {} \/ ResetAfter(0)
  /\ \A k \in DOMAIN tasks :
       tasks[k][1] = "packet" => tasks[k][2] \in Active \/ ResetAfter(k)

Tasks == ({"packet"} \X Sessions) \cup {<<"reset", Null>>} \cup ({"free"} \X Ids)

TypeOK ==
  /\ tasks \in Seq(Tasks) /\ timers \subseteq Timers /\ storing \subseteq Timers
  /\ \A t, u \in timers : t.id = u.id => t = u
  /\ \A t, u \in storing : t = u
  /\ mask \subseteq Ids /\ pad \in [Sessions -> [Controllers -> Ids \cup {NoId}]]
  /\ sess \in [Sessions -> Gone \cup {"up", "cancelRepeat", "readLeft", "cancelLeft", "reset"}]

DevicesInv == TypeOK /\ PadIdsExact /\ OneRepeat /\ Known /\ ResetComes

\* After the last session the pool runs empty: a key does not repeat for ever,
\* every gamepad is given back.
Quiet == tasks = << >> /\ timers = {} /\ mask = {}
PoolDrains == (\A s \in Sessions : sess[s] \in {"over", "freed"}) ~> Quiet

\* "input->mouse_left_button_timeout can only be nullptr when the last mouse
\* coordinates were absolute" (input.cpp:584): what a relative movement has
\* disabled is enabled by an absolute one only.
EnabledByAbsolute ==
  [][\A s \in Sessions :
       left[s] = Disable /\ left'[s] = Null => tasks # << >> \/ sess'[s] = "freed"]_vars
=============================================================================
