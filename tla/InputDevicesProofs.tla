------------------------ MODULE InputDevicesProofs ------------------------
(***************************************************************************)
(* DevicesInv is inductive for any sessions, keys, gamepads and addresses, *)
(* addresses that are used again included. One lemma per conjunct; the     *)
(* steps of the pool thread and of the sessions touch the list of tasks in *)
(* two ways only, Tail and Append, and the first lemmas say what these do. *)
(***************************************************************************)
EXTENDS InputDevices, TLAPS

\* What the list loses and keeps when its first task is taken.
LEMMA TailIs ==
  ASSUME NEW S, NEW q \in Seq(S), q # << >>
  PROVE  /\ Tail(q) \in Seq(S) /\ Head(q) = q[1] /\ 1 \in DOMAIN q
         /\ Len(Tail(q)) = Len(q) - 1
         /\ \A k \in DOMAIN Tail(q) : k + 1 \in DOMAIN q /\ Tail(q)[k] = q[k + 1]
         /\ \A k \in DOMAIN q : k # 1 => k - 1 \in DOMAIN Tail(q) /\ Tail(q)[k - 1] = q[k]
         /\ DOMAIN q \subseteq Nat \ {0} /\ DOMAIN Tail(q) \subseteq Nat \ {0}
  OBVIOUS

\* What it gains when one is appended.
LEMMA AppendIs ==
  ASSUME NEW S, NEW q \in Seq(S), NEW e \in S
  PROVE  /\ Append(q, e) \in Seq(S) /\ DOMAIN q \subseteq Nat \ {0}
         /\ DOMAIN Append(q, e) = DOMAIN q \cup {Len(q) + 1} /\ Len(q) + 1 \notin DOMAIN q
         /\ Append(q, e)[Len(q) + 1] = e /\ Len(q) \in Nat
         /\ \A k \in DOMAIN q : Append(q, e)[k] = q[k] /\ k <= Len(q)
  OBVIOUS

\* NoId is no id.
LEMMA NoIdIsNone == NoId \notin Ids
<1>1. Ids \subseteq Nat
  <2>1. Cardinality(Ids) - 1 \in Int \/ Ids = 0 .. Cardinality(Ids) - 1
    BY InputDevicesAssumption
  <2>2. \A n \in 0 .. Cardinality(Ids) - 1 : n \in Nat
    OBVIOUS
  <2> QED
    BY <2>2, InputDevicesAssumption
<1> QED
  BY <1>1 DEF NoId

\* The three forms of a step of the list.
Same == tasks' = tasks
Takes(kind) == tasks # << >> /\ Head(tasks)[1] = kind /\ tasks' = Tail(tasks)
Gets(e) == e \in Tasks /\ tasks' = Append(tasks, e)

\* The ids that wait to be freed do not change unless such a task comes or goes.
LEMMA QueuedKept ==
  ASSUME TypeOK, PadIdsExact,
         Same \/ Takes("packet") \/ Takes("reset")
           \/ \E e \in Tasks : e[1] # "free" /\ tasks' = Append(tasks, e)
  PROVE  /\ Queued' = Queued
         /\ \A k1, k2 \in DOMAIN tasks' :
              tasks'[k1] = tasks'[k2] /\ tasks'[k1][1] = "free" => k1 = k2
<1> USE DEF TypeOK, PadIdsExact
<1>1. CASE Same
  BY <1>1 DEF Same, Queued
<1>2. CASE Takes("packet") \/ Takes("reset")
  <2>1. tasks \in Seq(Tasks) /\ tasks # << >> /\ tasks' = Tail(tasks) /\ Head(tasks)[1] # "free"
    BY <1>2 DEF Takes
  <2>2. /\ Head(tasks) = tasks[1]
        /\ \A k \in DOMAIN tasks' : k + 1 \in DOMAIN tasks /\ tasks'[k] = tasks[k + 1]
        /\ \A k \in DOMAIN tasks : k # 1 => k - 1 \in DOMAIN tasks' /\ tasks'[k - 1] = tasks[k]
        /\ DOMAIN tasks' \subseteq Nat
    BY <2>1, TailIs
  <2>3. Queued' = Queued
    <3>1. ASSUME NEW n \in Ids, NEW k \in DOMAIN tasks, tasks[k] = <<"free", n>>
          PROVE  \E j \in DOMAIN tasks' : tasks'[j] = <<"free", n>>
      <4>1. k # 1
        BY <2>1, <2>2, <3>1
      <4> QED
        BY <2>2, <3>1, <4>1
    <3>2. ASSUME NEW n \in Ids, NEW k \in DOMAIN tasks', tasks'[k] = <<"free", n>>
          PROVE  \E j \in DOMAIN tasks : tasks[j] = <<"free", n>>
      BY <2>2, <3>2
    <3> QED
      BY <3>1, <3>2 DEF Queued
  <2>4. ASSUME NEW k1 \in DOMAIN tasks', NEW k2 \in DOMAIN tasks', tasks'[k1] = tasks'[k2],
               tasks'[k1][1] = "free"
        PROVE  k1 = k2
    <3>1. k1 + 1 = k2 + 1
      BY <2>2, <2>4
    <3> QED
      BY <2>2, <3>1
  <2> QED
    BY <2>3, <2>4
<1>3. ASSUME NEW e \in Tasks, e[1] # "free", tasks' = Append(tasks, e)
      PROVE  /\ Queued' = Queued
             /\ \A k1, k2 \in DOMAIN tasks' :
                  tasks'[k1] = tasks'[k2] /\ tasks'[k1][1] = "free" => k1 = k2
  <2>1. /\ DOMAIN tasks' = DOMAIN tasks \cup {Len(tasks) + 1}
        /\ tasks'[Len(tasks) + 1] = e
        /\ \A k \in DOMAIN tasks : tasks'[k] = tasks[k]
    BY <1>3, AppendIs
  <2>2. Queued' = Queued
    <3>1. \A n : e # <<"free", n>>
      BY <1>3
    <3>2. ASSUME NEW n \in Ids
          PROVE  (\E k \in DOMAIN tasks' : tasks'[k] = <<"free", n>>)
                   <=> (\E k \in DOMAIN tasks : tasks[k] = <<"free", n>>)
      <4> DEFINE f == <<"free", n>>
      <4>1. e # f
        BY <3>1
      <4> HIDE DEF f
      <4>2. (\E k \in DOMAIN tasks' : tasks'[k] = f) <=> (\E k \in DOMAIN tasks : tasks[k] = f)
        BY <2>1, <4>1
      <4> QED
        BY <4>2 DEF f
    <3> QED
      BY <3>2 DEF Queued
  <2> QED
    BY <1>3, <2>1, <2>2
<1> QED
  BY <1>1, <1>2, <1>3

\* Steps that leave the gamepads alone and no free task in or out.
LEMMA PadsKept ==
  ASSUME TypeOK, PadIdsExact, UNCHANGED <<mask, pad, osPads>>,
         Same \/ Takes("packet") \/ Takes("reset")
           \/ \E e \in Tasks : e[1] # "free" /\ tasks' = Append(tasks, e)
  PROVE  PadIdsExact'
<1>1. Held' = Held
  BY DEF Held
<1> QED
  BY <1>1, QueuedKept DEF PadIdsExact

\* A controller gets an id nobody has.
LEMMA AllocKeeps ==
  ASSUME TypeOK, PadIdsExact, Takes("packet"), NEW s \in Sessions, NEW c \in Controllers, Alloc(s, c)
  PROVE  PadIdsExact'
<1> USE DEF TypeOK
<1>1. PICK n \in Ids \ mask : mask' = mask \cup {n} /\ osPads' = osPads \cup {n}
                              /\ pad' = [pad EXCEPT ![s][c] = n]
  BY DEF Alloc
<1>2. pad[s][c] = NoId
  BY DEF Alloc
<1>3. \A s2 \in Sessions, c2 \in Controllers :
        pad'[s2][c2] = IF s2 = s /\ c2 = c THEN n ELSE pad[s2][c2]
  BY <1>1
<1>4. \A s2 \in Sessions, c2 \in Controllers : pad[s2][c2] # n
  BY <1>1 DEF PadIdsExact, Held
<1>5. Held' = Held \cup {n}
  BY <1>1, <1>2, <1>3, NoIdIsNone DEF Held
<1>6. n \notin Queued
  BY <1>1 DEF PadIdsExact
<1>7. \A s1, s2 \in Sessions, c1, c2 \in Controllers :
        pad'[s1][c1] = pad'[s2][c2] /\ pad'[s1][c1] # NoId => s1 = s2 /\ c1 = c2
  BY <1>3, <1>4 DEF PadIdsExact
<1> QED
  BY <1>1, <1>5, <1>6, <1>7, QueuedKept DEF PadIdsExact

\* A controller gives its id back.
LEMMA PadGoneKeeps ==
  ASSUME TypeOK, PadIdsExact, Takes("packet"), NEW s \in Sessions, NEW c \in Controllers, PadGone(s, c)
  PROVE  PadIdsExact'
<1> USE DEF TypeOK
<1> DEFINE n == pad[s][c]
<1>1. n \in Ids /\ mask' = mask \ {n} /\ osPads' = osPads \ {n} /\ pad' = [pad EXCEPT ![s][c] = NoId]
  BY DEF PadGone
<1>2. \A s2 \in Sessions, c2 \in Controllers :
        pad'[s2][c2] = IF s2 = s /\ c2 = c THEN NoId ELSE pad[s2][c2]
  BY <1>1
<1>3. Held' = Held \ {n}
  BY <1>1, <1>2, NoIdIsNone DEF Held, PadIdsExact
<1>4. n \in Held
  BY <1>1 DEF Held
<1> QED
  BY <1>1, <1>2, <1>3, <1>4, QueuedKept DEF PadIdsExact

\* A task frees an id.
LEMMA FreePadKeeps ==
  ASSUME TypeOK, PadIdsExact, NEW n \in Ids, FreePad(n)
  PROVE  PadIdsExact'
<1> USE DEF TypeOK
<1>1. /\ tasks # << >> /\ Head(tasks) = <<"free", n>> /\ tasks' = Tail(tasks)
      /\ mask' = mask \ {n} /\ osPads' = osPads \ {n} /\ pad' = pad
  BY DEF FreePad
<1>2. /\ Head(tasks) = tasks[1] /\ 1 \in DOMAIN tasks
      /\ \A k \in DOMAIN tasks' : k + 1 \in DOMAIN tasks /\ tasks'[k] = tasks[k + 1]
      /\ \A k \in DOMAIN tasks : k # 1 => k - 1 \in DOMAIN tasks' /\ tasks'[k - 1] = tasks[k]
      /\ DOMAIN tasks' \subseteq Nat \ {0}
  BY <1>1, TailIs
<1>3. \A k1, k2 \in DOMAIN tasks' :
        tasks'[k1] = tasks'[k2] /\ tasks'[k1][1] = "free" => k1 = k2
  <2> SUFFICES ASSUME NEW k1 \in DOMAIN tasks', NEW k2 \in DOMAIN tasks',
                      tasks'[k1] = tasks'[k2], tasks'[k1][1] = "free"
               PROVE  k1 = k2
    OBVIOUS
  <2>1. k1 + 1 = k2 + 1
    BY <1>2 DEF PadIdsExact
  <2> QED
    BY <1>2, <2>1
<1>4. Queued' = Queued \ {n}
  <2>1. ASSUME NEW m \in Ids, NEW k \in DOMAIN tasks, tasks[k] = <<"free", m>>, m # n
        PROVE  \E j \in DOMAIN tasks' : tasks'[j] = <<"free", m>>
    <3>1. k # 1
      BY <1>1, <1>2, <2>1
    <3> QED
      BY <1>2, <2>1, <3>1
  <2>2. ASSUME NEW m \in Ids, NEW k \in DOMAIN tasks', tasks'[k] = <<"free", m>>
        PROVE  m # n /\ \E j \in DOMAIN tasks : tasks[j] = <<"free", m>>
    <3>1. k + 1 \in DOMAIN tasks /\ tasks[k + 1] = <<"free", m>> /\ k + 1 # 1
      BY <1>2, <2>2
    <3>2. tasks[1] = <<"free", n>> /\ tasks[1][1] = "free"
      BY <1>1, <1>2
    <3> QED
      BY <1>2, <3>1, <3>2 DEF PadIdsExact
  <2> QED
    BY <2>1, <2>2 DEF Queued
<1>5. n \in Queued
  BY <1>1, <1>2 DEF Queued
<1>6. Held' = Held
  BY <1>1 DEF Held
<1> QED
  BY <1>1, <1>3, <1>4, <1>5, <1>6 DEF PadIdsExact

\* A destroyed session hands the ids of its gamepads to tasks.
LEMMA DestroyKeeps ==
  ASSUME TypeOK, PadIdsExact, NEW s \in Sessions, Destroy(s)
  PROVE  PadIdsExact'
<1> USE DEF TypeOK
<1>1. CASE UNCHANGED <<tasks, pad>>
  <2>1. UNCHANGED <<mask, osPads>>
    BY DEF Destroy
  <2> QED
    BY <1>1, <2>1, PadsKept DEF Same
<1>2. ASSUME NEW c \in Controllers, pad[s][c] # NoId, tasks' = Append(tasks, <<"free", pad[s][c]>>),
             pad' = [pad EXCEPT ![s][c] = NoId]
      PROVE  PadIdsExact'
  <2> DEFINE n == pad[s][c]
             e == <<"free", n>>
  <2>1. n \in Ids /\ n \in Held /\ n \notin Queued /\ mask' = mask /\ osPads' = osPads
    BY <1>2 DEF Held, PadIdsExact, Destroy
  <2>2. e \in Tasks
    BY <2>1 DEF Tasks
  <2>3. /\ DOMAIN tasks' = DOMAIN tasks \cup {Len(tasks) + 1}
        /\ tasks'[Len(tasks) + 1] = e
        /\ \A k \in DOMAIN tasks : tasks'[k] = tasks[k]
    BY <1>2, <2>2, AppendIs
  <2>4. \A k \in DOMAIN tasks : tasks[k] # e
    BY <2>1 DEF Queued
  <2>5. \A k1, k2 \in DOMAIN tasks' :
          tasks'[k1] = tasks'[k2] /\ tasks'[k1][1] = "free" => k1 = k2
    BY <2>3, <2>4 DEF PadIdsExact
  <2>6. Queued' = Queued \cup {n}
    <3>1. ASSUME NEW m \in Ids
          PROVE  (\E k \in DOMAIN tasks' : tasks'[k] = <<"free", m>>)
                   <=> m = n \/ \E k \in DOMAIN tasks : tasks[k] = <<"free", m>>
      <4> DEFINE f == <<"free", m>>
      <4>1. e = f <=> m = n
        OBVIOUS
      <4> HIDE DEF f, e
      <4>2. (\E k \in DOMAIN tasks' : tasks'[k] = f) <=> m = n \/ \E k \in DOMAIN tasks : tasks[k] = f
        BY <2>3, <4>1
      <4> QED
        BY <4>2 DEF f
    <3> QED
      BY <2>1, <3>1 DEF Queued
  <2>7. \A s2 \in Sessions, c2 \in Controllers :
          pad'[s2][c2] = IF s2 = s /\ c2 = c THEN NoId ELSE pad[s2][c2]
    BY <1>2
  <2>8. Held' = Held \ {n}
    BY <1>2, <2>1, <2>7, NoIdIsNone DEF Held, PadIdsExact
  <2> QED
    BY <2>1, <2>5, <2>6, <2>7, <2>8 DEF PadIdsExact
<1> QED
  BY <1>1, <1>2 DEF Destroy

\* The handlers take a packet; the rest of the list stays.
LEMMA HandlesTakes == ASSUME NEW s \in Sessions, Handles(s) PROVE Takes("packet")
  BY DEF Handles, Takes

\* Every step of the pool thread keeps the ids exact.
LEMMA PoolPads == TypeOK /\ PadIdsExact /\ Pool => PadIdsExact'
<1> SUFFICES ASSUME TypeOK, PadIdsExact, Pool PROVE PadIdsExact'
  OBVIOUS
<1>1. ASSUME NEW t \in storing, Store(t) PROVE PadIdsExact'
  BY <1>1, PadsKept DEF Store, Same, padVars
<1>2. ASSUME NEW s \in Sessions, Handle(s) PROVE PadIdsExact'
  <2>1. ASSUME Handles(s), UNCHANGED padVars PROVE PadIdsExact'
    BY <2>1, HandlesTakes, PadsKept DEF padVars
  <2>2. CASE Keyboard(s)
    BY <2>1, <2>2 DEF Keyboard, KeyUp, KeyDown
  <2>3. CASE Mouse(s)
    BY <2>1, <2>3 DEF Mouse, MoveRel, MoveAbs, HoldBackLeft, ButtonDown, ButtonUp
  <2>4. ASSUME NEW c \in Controllers, Arrival(s, c) PROVE PadIdsExact'
    BY <2>4, HandlesTakes, AllocKeeps DEF Arrival
  <2>5. ASSUME NEW c \in Controllers, PadGone(s, c) PROVE PadIdsExact'
    BY <2>5, HandlesTakes, PadGoneKeeps DEF PadGone
  <2>6. ASSUME NEW c \in Controllers, NEW down \in BOOLEAN, PadState(s, c, down) PROVE PadIdsExact'
    <3>1. Takes("packet") /\ (Alloc(s, c) \/ UNCHANGED <<mask, pad, osPads>>)
      BY <2>6, HandlesTakes DEF PadState
    <3> QED
      BY <3>1, AllocKeeps, PadsKept
  <2>7. CASE Ignored(s)
    BY <2>1, <2>7 DEF Ignored
  <2> QED
    BY <1>2, <2>2, <2>3, <2>4, <2>5, <2>6, <2>7 DEF Handle, Controller
<1>3. CASE Reset
  <2>1. Takes("reset") /\ UNCHANGED padVars
    BY <1>3 DEF Reset, Takes
  <2> QED
    BY <2>1, PadsKept DEF padVars
<1>4. ASSUME NEW n \in Ids, FreePad(n) PROVE PadIdsExact'
  BY <1>4, FreePadKeeps
<1>5. ASSUME NEW t \in timers, RepeatKey(t) \/ ReleaseLeft(t) \/ BackBecomesHome(t) PROVE PadIdsExact'
  BY <1>5, PadsKept DEF RepeatKey, ReleaseLeft, BackBecomesHome, Fires, Same, padVars
<1> QED
  BY <1>1, <1>2, <1>3, <1>4, <1>5 DEF Pool

\* Every step of a session keeps the ids exact.
LEMMA SessionPads ==
  ASSUME NEW s \in Sessions, TypeOK, PadIdsExact,
         SessionStarts(s) \/ Packet(s) \/ ReadRepeat(s) \/ Ends(s)
  PROVE  PadIdsExact'
<1>1. CASE SessionStarts(s) \/ ReadRepeat(s) \/ CancelRepeat(s) \/ ReadLeft(s) \/ CancelLeft(s)
  BY <1>1, PadsKept DEF SessionStarts, ReadRepeat, CancelRepeat, ReadLeft, CancelLeft, Same, padVars
<1>2. CASE Packet(s)
  <2>1. <<"packet", s>> \in Tasks /\ <<"packet", s>>[1] # "free"
    BY DEF Tasks
  <2> QED
    BY <1>2, <2>1, PadsKept DEF Packet, padVars
<1>3. CASE PushReset(s)
  <2>1. <<"reset", Null>> \in Tasks /\ <<"reset", Null>>[1] # "free"
    BY DEF Tasks
  <2> QED
    BY <1>3, <2>1, PadsKept DEF PushReset, padVars
<1>4. CASE Destroy(s)
  BY <1>4, DestroyKeeps
<1> QED
  BY <1>1, <1>2, <1>3, <1>4 DEF Ends

\* The table of pressed keys covers what is down: handlers change both alike,
\* a key is repeated only while it is in the table.
LEMMA KnownStep == Known /\ Next => Known'
<1> SUFFICES ASSUME Known, Next PROVE Known'
  OBVIOUS
<1> USE DEF Known
<1>0. ASSUME UNCHANGED <<osKeys, keyPress, osButtons, mousePress>> PROVE Known'
  BY <1>0
<1>1. ASSUME NEW t \in storing, Store(t) PROVE Known'
  BY <1>1 DEF Store
<1>2. ASSUME NEW s \in Sessions, Handle(s) PROVE Known'
  <2>1. ASSUME NEW k \in Keys, KeyUp(s, k) PROVE Known'
    BY <2>1 DEF KeyUp, mouseVars
  <2>2. ASSUME NEW k \in Keys, NEW shift \in BOOLEAN, KeyDown(s, k, shift) PROVE Known'
    BY <2>2 DEF KeyDown, Pressed, mouseVars
  <2>3. CASE Mouse(s)
    BY <2>3 DEF Mouse, MoveRel, MoveAbs, HoldBackLeft, ButtonDown, ButtonUp, keyVars
  <2>4. CASE Controller(s) \/ Ignored(s)
    BY <2>4 DEF Controller, Arrival, PadGone, PadState, Ignored, keyVars, mouseVars
  <2> QED
    BY <1>2, <2>1, <2>2, <2>3, <2>4 DEF Handle, Keyboard
<1>3. CASE Reset
  BY <1>3 DEF Reset
<1>4. ASSUME NEW n \in Ids, FreePad(n) PROVE Known'
  BY <1>4 DEF FreePad, keyVars, mouseVars
<1>5. ASSUME NEW t \in timers, RepeatKey(t) PROVE Known'
  BY <1>5 DEF RepeatKey, Pressed, mouseVars
<1>6. ASSUME NEW t \in timers, ReleaseLeft(t) \/ BackBecomesHome(t) PROVE Known'
  BY <1>6 DEF ReleaseLeft, BackBecomesHome, keyVars, mouseVars
<1>7. ASSUME NEW s \in Sessions, SessionStarts(s) \/ Packet(s) \/ ReadRepeat(s) \/ Ends(s) PROVE Known'
  BY <1>0, <1>7 DEF SessionStarts, Packet, ReadRepeat, Ends, CancelRepeat, ReadLeft, CancelLeft,
     PushReset, Destroy, keyVars, mouseVars
<1> QED
  BY <1>1, <1>2, <1>3, <1>4, <1>5, <1>6, <1>7 DEF Next, Pool

\* Two tasks never repeat a key: a new one is pushed when the old one has been
\* cancelled under its id, or by the old one itself.
LEMMA RepeatStep == TypeOK /\ OneRepeat /\ Next => OneRepeat'
<1> SUFFICES ASSUME TypeOK, OneRepeat, Next PROVE OneRepeat'
  OBVIOUS
<1> USE DEF TypeOK, OneRepeat, Repeats
<1>0. ASSUME timers' \subseteq timers, UNCHANGED <<storing, repeatId>> PROVE OneRepeat'
  BY <1>0
<1>1. ASSUME NEW t \in storing, Store(t) PROVE OneRepeat'
  <2>1. storing = {t} /\ storing' = {} /\ timers' = timers
    BY <1>1 DEF Store
  <2>2. CASE t.what = "repeat"
    BY <1>1, <2>1, <2>2 DEF Store
  <2>3. CASE t.what # "repeat"
    <3>1. repeatId' = repeatId /\ \A u \in Repeats : storing # {u}
      BY <1>1, <2>1, <2>3 DEF Store
    <3> QED
      BY <2>1, <3>1
  <2> QED
    BY <2>2, <2>3
<1>2. ASSUME NEW s \in Sessions, Handle(s) PROVE OneRepeat'
  <2>1. ASSUME NEW k \in Keys, KeyUp(s, k) PROVE OneRepeat'
    BY <1>0, <2>1 DEF KeyUp
  <2>2. ASSUME NEW k \in Keys, NEW shift \in BOOLEAN, KeyDown(s, k, shift) PROVE OneRepeat'
    <3>1. storing = {}
      BY <2>2 DEF KeyDown, Handles, PoolReady
    <3>2. \A u \in Without(repeatId) : u.what # "repeat"
      BY <3>1 DEF Without
    <3>3. PICK t : timers' = Without(repeatId) \cup {t} /\ storing' = {t}
      BY <2>2 DEF KeyDown
    <3> QED
      BY <3>2, <3>3
  <2>3. CASE HoldBackLeft(s)
    <3>1. PICK t : t.what = "left" /\ timers' = timers \cup {t} /\ repeatId' = repeatId
      BY <2>3 DEF HoldBackLeft, Timer, keyVars
    <3>2. storing = {} /\ storing' \subseteq {u \in timers' : u.what = "left"}
      BY <2>3 DEF HoldBackLeft, Timer, Handles, PoolReady
    <3> QED
      BY <3>1, <3>2
  <2>4. ASSUME timers' = timers, storing' = storing, repeatId' = repeatId PROVE OneRepeat'
    BY <2>4
  <2>5. CASE Mouse(s) /\ ~HoldBackLeft(s)
    BY <2>4, <2>5 DEF Mouse, MoveRel, MoveAbs, ButtonDown, ButtonUp, keyVars
  <2>6. CASE Ignored(s) \/ \E c \in Controllers : Arrival(s, c) \/ PadGone(s, c)
    BY <2>4, <2>6 DEF Arrival, PadGone, Ignored, keyVars
  <2>7. ASSUME NEW c \in Controllers, NEW down \in BOOLEAN, PadState(s, c, down) PROVE OneRepeat'
    <3>1. /\ UNCHANGED <<storing, repeatId>>
          /\ \A u \in timers' : u \in timers \/ u.what = "back"
      BY <2>7 DEF PadState, Timer, Without, keyVars
    <3>2. storing = {}
      BY <2>7 DEF PadState, Handles, PoolReady
    <3> QED
      BY <3>1, <3>2
  <2> QED
    BY <1>2, <2>1, <2>2, <2>3, <2>5, <2>6, <2>7 DEF Handle, Keyboard, Controller
<1>3. CASE Reset
  BY <1>0, <1>3 DEF Reset
<1>4. ASSUME NEW n \in Ids, FreePad(n) PROVE OneRepeat'
  BY <1>0, <1>4 DEF FreePad, keyVars
<1>5. ASSUME NEW t \in timers, RepeatKey(t) PROVE OneRepeat'
  <2>1. \A u \in timers \ {t} : u.what # "repeat"
    BY <1>5 DEF RepeatKey
  <2>2. storing = {}
    BY <1>5 DEF RepeatKey, Fires, PoolReady
  <2>3. CASE t.key \notin keyPress
    BY <1>5, <2>1, <2>2, <2>3 DEF RepeatKey
  <2>4. CASE t.key \in keyPress
    <3>1. PICK u : timers' = (timers \ {t}) \cup {u} /\ storing' = {u}
      BY <1>5, <2>4 DEF RepeatKey
    <3> QED
      BY <2>1, <3>1
  <2> QED
    BY <2>3, <2>4
<1>6. ASSUME NEW t \in timers, ReleaseLeft(t) \/ BackBecomesHome(t) PROVE OneRepeat'
  BY <1>0, <1>6 DEF ReleaseLeft, BackBecomesHome, keyVars
<1>7. ASSUME NEW s \in Sessions, SessionStarts(s) \/ Packet(s) \/ ReadRepeat(s) \/ Ends(s)
      PROVE  OneRepeat'
  BY <1>0, <1>7 DEF SessionStarts, Packet, ReadRepeat, Ends, CancelRepeat, ReadLeft, CancelLeft,
     PushReset, Destroy, Without, keyVars
<1> QED
  BY <1>1, <1>2, <1>3, <1>4, <1>5, <1>6, <1>7 DEF Next, Pool

\* A reset comes: the forms of a step of the list, with the sessions that are
\* still active.
LEMMA ComesKept ==
  ASSUME TypeOK, ResetComes, Active \subseteq Active',
         keyPress' \subseteq keyPress, mousePress' \subseteq mousePress,
         Same \/ \E e \in Tasks : e[1] = "free" /\ tasks' = Append(tasks, e)
  PROVE  ResetComes'
<1> USE DEF TypeOK, ResetComes, ResetAfter
<1>1. CASE Same
  BY <1>1 DEF Same
<1>2. ASSUME NEW e \in Tasks, e[1] = "free", tasks' = Append(tasks, e) PROVE ResetComes'
  <2>1. /\ DOMAIN tasks' = DOMAIN tasks \cup {Len(tasks) + 1} /\ tasks'[Len(tasks) + 1] = e
        /\ \A k \in DOMAIN tasks : tasks'[k] = tasks[k]
    BY <1>2, AppendIs
  <2> QED
    BY <1>2, <2>1
<1> QED
  BY <1>1, <1>2

LEMMA ComesTaken ==
  ASSUME TypeOK, ResetComes, Active' = Active,
         \/ Takes("packet")
         \/ (Takes("reset") \/ Takes("free")) /\ keyPress' \subseteq keyPress /\ mousePress' \subseteq mousePress
         , Takes("reset") => keyPress' = {} /\ mousePress' = {}
  PROVE  ResetComes'
<1> USE DEF TypeOK
<1>1. /\ tasks # << >> /\ tasks' = Tail(tasks) /\ Head(tasks) = tasks[1] /\ 1 \in DOMAIN tasks
      /\ \A k \in DOMAIN tasks' : k + 1 \in DOMAIN tasks /\ tasks'[k] = tasks[k + 1]
      /\ \A k \in DOMAIN tasks : k # 1 => k - 1 \in DOMAIN tasks' /\ tasks'[k - 1] = tasks[k]
      /\ DOMAIN tasks \subseteq Nat \ {0} /\ DOMAIN tasks' \subseteq Nat \ {0}
  <2>1. tasks \in Seq(Tasks) /\ tasks # << >> /\ tasks' = Tail(tasks)
    BY DEF Takes
  <2> QED
    BY <2>1, TailIs
<1>2. ASSUME NEW n \in Nat, ResetAfter(n), n = 0 => tasks[1][1] # "reset"
      PROVE  \E k \in DOMAIN tasks' : k > n - 1 /\ k > 0 /\ tasks'[k][1] = "reset"
  <2>1. PICK k \in DOMAIN tasks : k > n /\ tasks[k][1] = "reset"
    BY <1>2 DEF ResetAfter
  <2>2. k # 1 /\ k \in Nat
    BY <1>1, <1>2, <2>1
  <2>3. k - 1 \in DOMAIN tasks' /\ tasks'[k - 1] = tasks[k]
    BY <1>1, <2>1, <2>2
  <2>4. k - 1 > n - 1 /\ k - 1 > 0
    <3>1. k - 1 \in Nat \ {0}
      BY <1>1, <2>3
    <3>2. k > n
      BY <2>1
    <3> QED
      BY <2>2, <3>1, <3>2
  <2> QED
    BY <2>1, <2>3, <2>4
<1>3. ASSUME NEW k \in DOMAIN tasks', tasks'[k][1] = "packet"
      PROVE  tasks'[k][2] \in Active' \/ ResetAfter(k)'
  <2>1. k + 1 \in DOMAIN tasks /\ k + 1 \in Nat /\ k \in Nat /\ tasks'[k] = tasks[k + 1]
    BY <1>1
  <2>2. tasks[k + 1][2] \in Active \/ ResetAfter(k + 1)
    BY <1>3, <2>1 DEF ResetComes
  <2>3. CASE ResetAfter(k + 1)
    <3>1. \E j \in DOMAIN tasks' : j > (k + 1) - 1 /\ tasks'[j][1] = "reset"
      BY <1>2, <2>1, <2>3
    <3> QED
      BY <2>1, <3>1 DEF ResetAfter
  <2> QED
    BY <2>1, <2>2, <2>3
<1>4. ASSUME keyPress' # {} \/ mousePress' # {} PROVE Active' # {} \/ ResetAfter(0)'
  <2>1. CASE Takes("packet")
    <3>1. tasks[1][1] = "packet"
      BY <1>1, <2>1 DEF Takes
    <3>2. tasks[1][2] \in Active \/ ResetAfter(1)
      BY <1>1, <3>1 DEF ResetComes
    <3>3. CASE ResetAfter(1)
      BY <1>2, <3>3 DEF ResetAfter
    <3> QED
      BY <3>2, <3>3
  <2>2. CASE Takes("free")
    <3>1. tasks[1][1] # "reset"
      BY <1>1, <2>2 DEF Takes
    <3>2. Active # {} \/ ResetAfter(0)
      BY <1>1, <1>4, <2>2 DEF Takes, ResetComes
    <3>3. CASE ResetAfter(0)
      BY <1>2, <3>1, <3>3 DEF ResetAfter
    <3> QED
      BY <3>2, <3>3
  <2> QED
    BY <1>4, <2>1, <2>2
<1> QED
  BY <1>3, <1>4 DEF ResetComes

LEMMA ResetStep == TypeOK /\ ResetComes /\ Next => ResetComes'
<1> SUFFICES ASSUME TypeOK, ResetComes, Next PROVE ResetComes'
  OBVIOUS
<1>1. ASSUME NEW t \in storing, Store(t) PROVE ResetComes'
  BY <1>1, ComesKept DEF Store, Same, sessVars, Active
<1>2. ASSUME NEW s \in Sessions, Handle(s) PROVE ResetComes'
  <2>1. Takes("packet") /\ sess' = sess
    BY <1>2, HandlesTakes DEF Handle, Keyboard, KeyUp, KeyDown, Mouse, MoveRel, MoveAbs, HoldBackLeft,
       ButtonDown, ButtonUp, Controller, Arrival, PadGone, PadState, Ignored, sessVars
  <2>2. ~Takes("reset")
    BY <2>1 DEF Takes
  <2> QED
    BY <2>1, <2>2, ComesTaken DEF Active
<1>3. CASE Reset
  <2>1. Takes("reset") /\ sess' = sess /\ keyPress' = {} /\ mousePress' = {}
    BY <1>3 DEF Reset, Takes, sessVars
  <2> QED
    BY <2>1, ComesTaken DEF Active
<1>4. ASSUME NEW n \in Ids, FreePad(n) PROVE ResetComes'
  <2>1. Takes("free") /\ ~Takes("reset") /\ sess' = sess /\ keyPress' = keyPress /\ mousePress' = mousePress
    BY <1>4 DEF FreePad, Takes, sessVars, keyVars, mouseVars
  <2> QED
    BY <2>1, ComesTaken DEF Active
<1>5. ASSUME NEW t \in timers, RepeatKey(t) \/ ReleaseLeft(t) \/ BackBecomesHome(t) PROVE ResetComes'
  BY <1>5, ComesKept DEF RepeatKey, ReleaseLeft, BackBecomesHome, Fires, Same, sessVars, keyVars,
     mouseVars, Active
<1>6. ASSUME NEW s \in Sessions,
             SessionStarts(s) \/ ReadRepeat(s) \/ CancelRepeat(s) \/ ReadLeft(s) \/ CancelLeft(s)
      PROVE  ResetComes'
  <2>1. /\ Same /\ keyPress' = keyPress /\ mousePress' = mousePress
        /\ \E to \in {"up", "cancelRepeat", "readLeft", "cancelLeft", "reset"} : sess' = [sess EXCEPT ![s] = to]
    BY <1>6 DEF SessionStarts, ReadRepeat, CancelRepeat, ReadLeft, CancelLeft, EndStep, Same, keyVars, mouseVars
  <2>2. Active \subseteq Active'
    BY <2>1 DEF Active, TypeOK, Gone
  <2> QED
    BY <2>1, <2>2, ComesKept
<1>7. ASSUME NEW s \in Sessions, Packet(s) \/ PushReset(s) PROVE ResetComes'
  <2>1. PICK e \in Tasks : /\ tasks' = Append(tasks, e)
                           /\ e[1] = "reset" \/ (e = <<"packet", s>> /\ s \in Active /\ sess' = sess)
    <3>1. <<"packet", s>> \in Tasks /\ <<"reset", Null>> \in Tasks
      BY DEF Tasks
    <3>2. CASE Packet(s)
      <4>1. tasks' = Append(tasks, <<"packet", s>>) /\ s \in Active /\ sess' = sess
        BY <3>2 DEF Packet, sessVars, Active, Gone
      <4> QED
        BY <3>1, <4>1
    <3>3. CASE PushReset(s)
      <4>1. tasks' = Append(tasks, <<"reset", Null>>) /\ <<"reset", Null>>[1] = "reset"
        BY <3>3 DEF PushReset
      <4> QED
        BY <3>1, <4>1
    <3> QED
      BY <1>7, <3>2, <3>3
  <2>2. /\ DOMAIN tasks' = DOMAIN tasks \cup {Len(tasks) + 1} /\ tasks'[Len(tasks) + 1] = e
        /\ \A k \in DOMAIN tasks : tasks'[k] = tasks[k] /\ k <= Len(tasks)
        /\ Len(tasks) \in Nat /\ DOMAIN tasks \subseteq Nat \ {0}
    BY <2>1, AppendIs DEF TypeOK
  <2>3. keyPress' = keyPress /\ mousePress' = mousePress
    BY <1>7 DEF Packet, PushReset, keyVars, mouseVars
  <2>4. CASE e[1] = "reset"
    <3>1. \A k \in DOMAIN tasks \cup {0} : ResetAfter(k)'
      BY <2>2, <2>4 DEF ResetAfter
    <3> QED
      BY <2>2, <2>4, <3>1 DEF ResetComes
  <2>5. CASE e = <<"packet", s>> /\ s \in Active /\ sess' = sess
    <3>1. Active' = Active
      BY <2>5 DEF Active
    <3>2. \A k : ResetAfter(k) => ResetAfter(k)'
      BY <2>2 DEF ResetAfter
    <3> QED
      BY <2>2, <2>3, <2>5, <3>1, <3>2 DEF ResetComes
  <2> QED
    BY <2>1, <2>4, <2>5
<1>8. ASSUME NEW s \in Sessions, Destroy(s) PROVE ResetComes'
  <2>1. keyPress' = keyPress /\ mousePress' = mousePress
    BY <1>8 DEF Destroy
  <2>2. Active' = Active
    BY <1>8 DEF Destroy, Active, Gone, TypeOK
  <2>3. Same \/ \E e \in Tasks : e[1] = "free" /\ tasks' = Append(tasks, e)
    <3>1. ASSUME NEW c \in Controllers, pad[s][c] # NoId, tasks' = Append(tasks, <<"free", pad[s][c]>>)
          PROVE  \E e \in Tasks : e[1] = "free" /\ tasks' = Append(tasks, e)
      <4>1. pad[s][c] \in Ids
        BY <3>1 DEF TypeOK
      <4>2. <<"free", pad[s][c]>> \in Tasks /\ <<"free", pad[s][c]>>[1] = "free"
        BY <4>1 DEF Tasks
      <4> QED
        BY <3>1, <4>2
    <3>2. CASE tasks' = tasks
      BY <3>2 DEF Same
    <3> QED
      BY <1>8, <3>1, <3>2 DEF Destroy
  <2> QED
    BY <2>1, <2>2, <2>3, ComesKept
<1> QED
  BY <1>1, <1>2, <1>3, <1>4, <1>5, <1>6, <1>7, <1>8 DEF Next, Pool, Ends

\* The types, and that two timers never share an address.
LEMMA TypeStep == TypeOK /\ Next => TypeOK'
<1> SUFFICES ASSUME TypeOK, Next PROVE TypeOK'
  OBVIOUS
<1> USE DEF TypeOK
<1>0. Takes("packet") \/ Takes("reset") \/ Takes("free") => tasks' \in Seq(Tasks)
  <2>1. tasks \in Seq(Tasks)
    OBVIOUS
  <2>2. tasks # << >> => Tail(tasks) \in Seq(Tasks)
    BY <2>1, TailIs
  <2> QED
    BY <2>2 DEF Takes
<1>1. ASSUME NEW t \in storing, Store(t) PROVE TypeOK'
  BY <1>1 DEF Store, padVars, sessVars
<1>2. ASSUME NEW s \in Sessions, Handle(s) PROVE TypeOK'
  <2>0. Handles(s) => tasks' \in Seq(Tasks)
    BY <1>0, HandlesTakes
  <2>1. ASSUME NEW k \in Keys, KeyUp(s, k) PROVE TypeOK'
    BY <2>0, <2>1 DEF KeyUp, padVars, sessVars
  <2>2. ASSUME NEW k \in Keys, NEW shift \in BOOLEAN, KeyDown(s, k, shift) PROVE TypeOK'
    <3> DEFINE syn == Synthetic(s, k, shift)
    <3>1. syn \in BOOLEAN
      BY DEF Synthetic
    <3>2. PICK a \in Addresses \ {t.id : t \in Without(repeatId)} :
            /\ timers' = Without(repeatId) \cup {Timer(a, "repeat", Null, k, syn, Null)}
            /\ storing' = {Timer(a, "repeat", Null, k, syn, Null)}
      BY <2>2 DEF KeyDown
    <3> HIDE DEF syn
    <3>3. Timer(a, "repeat", Null, k, syn, Null) \in Timers
          /\ Timer(a, "repeat", Null, k, syn, Null).id = a
      BY <3>1, <3>2 DEF Timer, Timers
    <3>4. timers' \subseteq Timers /\ storing' \subseteq Timers /\ \A t, u \in storing' : t = u
      BY <3>2, <3>3 DEF Without
    <3>5. \A t, u \in timers' : t.id = u.id => t = u
      BY <3>2, <3>3 DEF Without
    <3> QED
      BY <2>0, <2>2, <3>4, <3>5 DEF KeyDown, padVars, sessVars
  <2>3. CASE HoldBackLeft(s)
    <3>1. PICK a \in Free : /\ timers' = timers \cup {Timer(a, "left", s, Null, FALSE, Null)}
                            /\ storing' = {Timer(a, "left", s, Null, FALSE, Null)}
      BY <2>3 DEF HoldBackLeft
    <3>2. Timer(a, "left", s, Null, FALSE, Null) \in Timers
          /\ Timer(a, "left", s, Null, FALSE, Null).id = a
      BY <3>1 DEF Timer, Timers, Free
    <3>3. \A t, u \in timers' : t.id = u.id => t = u
      BY <3>1, <3>2 DEF Free
    <3> QED
      BY <2>0, <2>3, <3>1, <3>2, <3>3 DEF HoldBackLeft, padVars, sessVars
  <2>4. CASE Mouse(s) /\ ~HoldBackLeft(s)
    BY <2>0, <2>4 DEF Mouse, MoveRel, MoveAbs, ButtonDown, ButtonUp, padVars, sessVars
  <2>5. CASE Ignored(s)
    BY <2>0, <2>5 DEF Ignored, padVars, sessVars
  <2>6. ASSUME NEW c \in Controllers, Alloc(s, c)
        PROVE  mask' \subseteq Ids /\ pad' \in [Sessions -> [Controllers -> Ids \cup {NoId}]]
    BY <2>6 DEF Alloc
  <2>7. ASSUME NEW c \in Controllers, Arrival(s, c) PROVE TypeOK'
    BY <2>0, <2>6, <2>7 DEF Arrival, sessVars
  <2>8. ASSUME NEW c \in Controllers, PadGone(s, c) PROVE TypeOK'
    BY <2>0, <2>8 DEF PadGone, sessVars
  <2>9. ASSUME NEW c \in Controllers, NEW down \in BOOLEAN, PadState(s, c, down) PROVE TypeOK'
    <3>1. mask' \subseteq Ids /\ pad' \in [Sessions -> [Controllers -> Ids \cup {NoId}]]
      BY <2>6, <2>9 DEF PadState
    <3>2. timers' \subseteq Timers /\ \A t, u \in timers' : t.id = u.id => t = u
      <4>1. CASE \E a \in Free : timers' = timers \cup {Timer(a, "back", s, Null, FALSE, c)}
        <5>1. PICK a \in Free : timers' = timers \cup {Timer(a, "back", s, Null, FALSE, c)}
          BY <4>1
        <5>2. Timer(a, "back", s, Null, FALSE, c) \in Timers /\ Timer(a, "back", s, Null, FALSE, c).id = a
          BY <5>1 DEF Timer, Timers, Free
        <5> QED
          BY <5>1, <5>2 DEF Free
      <4>2. CASE timers' \subseteq timers
        BY <4>2
      <4> QED
        BY <2>9, <4>1, <4>2 DEF PadState, Without
    <3> QED
      BY <2>0, <2>9, <3>1, <3>2 DEF PadState, sessVars
  <2> QED
    BY <1>2, <2>1, <2>2, <2>3, <2>4, <2>5, <2>7, <2>8, <2>9 DEF Handle, Keyboard, Controller
<1>3. CASE Reset
  BY <1>0, <1>3 DEF Reset, Takes, padVars, sessVars
<1>4. ASSUME NEW n \in Ids, FreePad(n) PROVE TypeOK'
  BY <1>0, <1>4 DEF FreePad, Takes, sessVars
<1>5. ASSUME NEW t \in timers, RepeatKey(t) PROVE TypeOK'
  <2>1. UNCHANGED <<tasks, mask, pad, sess>>
    BY <1>5 DEF RepeatKey, Fires, sessVars, padVars
  <2>2. CASE t.key \notin keyPress
    BY <1>5, <2>1, <2>2 DEF RepeatKey
  <2>3. CASE t.key \in keyPress
    <3>1. PICK a \in Free : /\ timers' = (timers \ {t}) \cup {[t EXCEPT !.id = a]}
                            /\ storing' = {[t EXCEPT !.id = a]}
      BY <1>5, <2>3 DEF RepeatKey
    <3> DEFINE w == [t EXCEPT !.id = a]
    <3>2. w \in Timers /\ w.id = a
      BY <3>1 DEF Timers, Free
    <3>3. \A u \in timers : u.id # a
      BY <3>1 DEF Free
    <3>4. timers' = (timers \ {t}) \cup {w} /\ storing' = {w}
      BY <3>1
    <3> HIDE DEF w
    <3>5. \A u, v \in timers' : u.id = v.id => u = v
      BY <3>2, <3>3, <3>4
    <3> QED
      BY <2>1, <3>2, <3>4, <3>5
  <2> QED
    BY <2>2, <2>3
<1>6. ASSUME NEW t \in timers, ReleaseLeft(t) \/ BackBecomesHome(t) PROVE TypeOK'
  BY <1>6 DEF ReleaseLeft, BackBecomesHome, Fires, sessVars, padVars
<1>7. ASSUME NEW s \in Sessions,
             SessionStarts(s) \/ ReadRepeat(s) \/ CancelRepeat(s) \/ ReadLeft(s) \/ CancelLeft(s)
      PROVE  TypeOK'
  BY <1>7 DEF SessionStarts, ReadRepeat, CancelRepeat, ReadLeft, CancelLeft, EndStep, Without, padVars, Gone
<1>8. ASSUME NEW s \in Sessions, Packet(s) \/ PushReset(s) PROVE TypeOK'
  <2>1. tasks' \in Seq(Tasks)
    <3>1. <<"packet", s>> \in Tasks /\ <<"reset", Null>> \in Tasks
      BY DEF Tasks
    <3>2. Append(tasks, <<"packet", s>>) \in Seq(Tasks) /\ Append(tasks, <<"reset", Null>>) \in Seq(Tasks)
      BY <3>1, AppendIs
    <3> QED
      BY <1>8, <3>2 DEF Packet, PushReset
  <2> QED
    BY <1>8, <2>1 DEF Packet, PushReset, EndStep, padVars, sessVars, Gone
<1>9. ASSUME NEW s \in Sessions, Destroy(s) PROVE TypeOK'
  <2>1. ASSUME NEW n \in Ids PROVE Append(tasks, <<"free", n>>) \in Seq(Tasks)
    <3>1. <<"free", n>> \in Tasks
      BY DEF Tasks
    <3> QED
      BY <3>1, AppendIs
  <2>2. UNCHANGED <<timers, storing, mask>>
    BY <1>9 DEF Destroy
  <2>3. ASSUME NEW c \in Controllers, pad[s][c] # NoId, tasks' = Append(tasks, <<"free", pad[s][c]>>),
               pad' = [pad EXCEPT ![s][c] = NoId], UNCHANGED sess
        PROVE  TypeOK'
    <3>1. tasks' \in Seq(Tasks)
      BY <2>1, <2>3
    <3>2. pad' \in [Sessions -> [Controllers -> Ids \cup {NoId}]]
      BY <2>3
    <3> QED
      BY <2>2, <2>3, <3>1, <3>2
  <2>4. CASE sess' = [sess EXCEPT ![s] = "freed"] /\ UNCHANGED <<tasks, pad>>
    BY <2>2, <2>4 DEF Gone
  <2> QED
    BY <1>9, <2>3, <2>4 DEF Destroy
<1> QED
  BY <1>1, <1>2, <1>3, <1>4, <1>5, <1>6, <1>7, <1>8, <1>9 DEF Next, Pool, Ends

\* The initial states satisfy the invariant.
LEMMA InitInv == Init => DevicesInv
<1> SUFFICES ASSUME Init PROVE DevicesInv
  OBVIOUS
<1> USE DEF Init
<1>1. TypeOK
  BY DEF TypeOK, Gone
<1>2. PadIdsExact
  BY NoIdIsNone DEF PadIdsExact, Held, Queued
<1>3. OneRepeat /\ Known /\ ResetComes
  BY DEF OneRepeat, Repeats, Known, ResetComes
<1> QED
  BY <1>1, <1>2, <1>3 DEF DevicesInv

LEMMA NextInv == DevicesInv /\ [Next]_vars => DevicesInv'
<1> SUFFICES ASSUME DevicesInv, [Next]_vars PROVE DevicesInv'
  OBVIOUS
<1>1. CASE Next
  <2>1. PadIdsExact'
    BY <1>1, PoolPads, SessionPads DEF DevicesInv, Next
  <2> QED
    BY <1>1, <2>1, TypeStep, RepeatStep, KnownStep, ResetStep DEF DevicesInv
<1>2. CASE UNCHANGED vars
  BY <1>2 DEF DevicesInv, TypeOK, PadIdsExact, Held, Queued, OneRepeat, Repeats, Known, ResetComes,
     ResetAfter, Active, vars, keyVars, mouseVars, padVars, sessVars
<1> QED
  BY <1>1, <1>2

\* The invariant of the shared devices holds always.
THEOREM DevicesInvariance == Spec => []DevicesInv
  BY InitInv, NextInv, PTL DEF Spec

\* Every gamepad id in use has one owner.
THEOREM PadIds == Spec => []PadIdsExact
<1>1. DevicesInv => PadIdsExact
  BY DEF DevicesInv
<1> QED
  BY <1>1, DevicesInvariance, PTL

\* At most one task repeats a key and it is found under key_press_repeat_id.
THEOREM RepeatOnce == Spec => []OneRepeat
<1>1. DevicesInv => OneRepeat
  BY DEF DevicesInv
<1> QED
  BY <1>1, DevicesInvariance, PTL

\* No key stays down when all sessions are over and their resets have run.
THEOREM NoKeyStuck == Spec => []NothingHeld
<1>1. DevicesInv => NothingHeld
  <2> SUFFICES ASSUME DevicesInv, \A s \in Sessions : sess[s] \in Gone,
                      \A k \in DOMAIN tasks : tasks[k][1] = "free"
               PROVE  osKeys = {} /\ osButtons \subseteq {"left"}
    BY DEF NothingHeld
  <2>1. Active = {} /\ ~ResetAfter(0)
    BY DEF Active, ResetAfter
  <2>2. keyPress = {} /\ mousePress = {}
    BY <2>1 DEF DevicesInv, ResetComes
  <2> QED
    BY <2>2 DEF DevicesInv, Known
<1> QED
  BY <1>1, DevicesInvariance, PTL
=============================================================================
