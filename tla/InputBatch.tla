----------------------------- MODULE InputBatch -----------------------------
(***************************************************************************)
(* The input queue of a session, src/src/input.cpp: the control thread     *)
(* appends a packet and pushes a task for it (passthrough), the one thread *)
(* of the task pool takes the first packet, merges later ones into it      *)
(* (batch) and hands the result to the operating system                    *)
(* (passthrough_next_message).                                             *)
(*                                                                         *)
(* A packet is a record: its kind (the magic, with the kinds that are      *)
(* never merged as "mouse_button", "key", "battery"), and what the batch   *)
(* function of its kind looks at: ctrl (controllerNumber), pointer         *)
(* (pointerId), event (eventType), state (the reference size, the buttons, *)
(* the tool or the sensor), mask (activeGamepadMask), and val: the amounts *)
(* of a relative packet, one per axis, or the position otherwise.          *)
(*                                                                         *)
(* Bound: a packet is received only while the queue and the tasks of the   *)
(* pool are fewer than MaxQueue each, without limit in the code.           *)
(***************************************************************************)
EXTENDS Integers, Sequences

CONSTANTS
  Clients,      (* sets of packets: what a client of some make sends        *)
  Permissions,  (* the input permissions of the client: controller, mouse,  *)
                (* kbd, touch, pen                                          *)
  Short,        (* the numbers are [-Short, Short): 2^15 in the code        *)
  MaxQueue      (* bound of the model                                       *)

Relative == {"mouse_rel", "scroll", "hscroll"}
Kinds == Relative \cup {"mouse_abs", "controller", "touch", "pen",
  "controller_touch", "motion", "mouse_button", "key", "battery", "arrival"}

Packets == UNION Clients

None == [kind |-> "none"]  \* no packet

AllPermissions == {"controller", "mouse", "kbd", "touch", "pen"}

ASSUME InputBatchAssumption ==
  /\ \A p \in Packets : p.kind \in Kinds
  /\ Permissions \subseteq AllPermissions
  /\ MaxQueue \in Nat /\ Short \in Nat \ {0}

VARIABLES
  client,   (* the packets this client may send                             *)
  queue,    (* input_queue                                                  *)
  tasks,    (* tasks of passthrough_next_message in the pool                *)
  cpc,      (* control thread: "idle", or "push": packet queued, task not   *)
  wpc,      (* pool thread: "idle", "batch" (holds the lock), "send"        *)
  entry,    (* the packet the pool thread works on                          *)
  i,        (* its iterator into the queue                                  *)
  os,       (* per device the last packet the operating system has seen     *)
  last      (* the run the last packet it has seen belongs to               *)

vars == <<client, queue, tasks, cpc, wpc, entry, i, os, last>>

Moves == {"move", "hover"}

(***************************************************************************)
(* What merging may not touch: the device a packet is of, and the state it *)
(* puts it in beyond a position.                                           *)
(***************************************************************************)
Dev(p) ==
  CASE p.kind \in {"controller", "battery", "arrival"} -> <<p.kind, p.ctrl>>
    [] p.kind = "touch" -> <<p.kind, p.pointer>>
    [] p.kind = "controller_touch" -> <<p.kind, p.ctrl, p.pointer>>
    [] p.kind = "motion" -> <<p.kind, p.ctrl, p.state>>
    [] OTHER -> <<p.kind>>

\* Packets in a row of one run may be merged past each other: they are of one
\* kind, with the same active controllers, and for touch all of them movements.
Run(p) ==
  CASE p.kind = "controller" -> <<p.kind, p.mask>>
    [] p.kind = "touch" -> <<p.kind, p.event \in Moves>>
    [] OTHER -> <<p.kind>>

Devices == {Dev(p) : p \in Packets}

(***************************************************************************)
(* The batch functions: "terminate", "skip" (not_batchable), "batched".    *)
(***************************************************************************)
Overflows(dest, src) ==
  \A k \in DOMAIN src.val : dest.val[k] + src.val[k] \notin -Short .. Short - 1

BatchAbs(dest, src) == IF dest.state # src.state THEN "terminate" ELSE "batched"

\* Mutant: the check for another controller lets a change of the active ones pass.
BatchControllerFirst(dest, src) ==
  IF dest.ctrl # src.ctrl THEN "skip"
  ELSE IF dest.mask # src.mask \/ dest.state # src.state THEN "terminate"
  ELSE "batched"
\* Mutant: packets of another controller are merged too, and buttons not compared.
BatchControllerAny(dest, src) ==
  IF dest.mask # src.mask THEN "terminate" ELSE "batched"
BatchController(dest, src) ==
  IF dest.mask # src.mask THEN "terminate"
  ELSE IF dest.ctrl # src.ctrl THEN "skip"
  ELSE IF dest.state # src.state THEN "terminate"
  ELSE "batched"

BatchTouch(dest, src) ==
  IF dest.event \notin Moves \/ src.event \notin Moves THEN "terminate"
  ELSE IF dest.pointer # src.pointer THEN "skip"
  ELSE IF dest.event # src.event THEN "terminate"
  ELSE "batched"

BatchPen(dest, src) ==
  IF dest.event \notin Moves \/ dest.event # src.event \/ dest.state # src.state
  THEN "terminate" ELSE "batched"

BatchControllerTouch(dest, src) ==
  IF dest.event \notin Moves THEN "terminate"
  ELSE IF dest.ctrl # src.ctrl THEN "skip"
  ELSE BatchTouch(dest, src)

BatchMotion(dest, src) ==
  IF dest.ctrl # src.ctrl \/ dest.state # src.state THEN "skip" ELSE "batched"

\* Sums are merged only when every one of them overflows: the results of
\* __builtin_add_overflow are read the wrong way round.
Batch(dest, src) ==
  IF dest.kind # src.kind THEN "terminate"
  ELSE CASE dest.kind \in Relative -> IF Overflows(dest, src) THEN "batched" ELSE "terminate"
         [] dest.kind = "mouse_abs" -> BatchAbs(dest, src)
         [] dest.kind = "controller" -> BatchController(dest, src)
         [] dest.kind = "touch" -> BatchTouch(dest, src)
         [] dest.kind = "pen" -> BatchPen(dest, src)
         [] dest.kind = "controller_touch" -> BatchControllerTouch(dest, src)
         [] dest.kind = "motion" -> BatchMotion(dest, src)
         [] OTHER -> "terminate"

Wrap(n) == ((n + Short) % (2 * Short)) - Short

\* The merged packet: the sum, wrapped to its width, or the later packet.
Merged(dest, src) ==
  IF dest.kind \in Relative
  THEN [kind |-> dest.kind,
        val |-> [k \in DOMAIN src.val |-> Wrap(dest.val[k] + src.val[k])]]
  ELSE src

(***************************************************************************)
(* The two threads.                                                        *)
(***************************************************************************)
Init ==
  /\ client \in Clients
  /\ queue = << >> /\ tasks = 0
  /\ cpc = "idle" /\ wpc = "idle" /\ entry = None /\ i = 1
  /\ os = [d \in Devices |-> None] /\ last = << >>

PermissionOf(p) ==
  CASE p.kind \in {"controller", "arrival", "controller_touch", "motion", "battery"} -> "controller"
    [] p.kind \in {"mouse_rel", "mouse_abs", "mouse_button", "scroll", "hscroll"} -> "mouse"
    [] p.kind = "key" -> "kbd"
    [] OTHER -> p.kind

\* passthrough on the control thread: the queue lock is held for the append only.
Receive(p) ==
  /\ p \in client
  /\ cpc = "idle" /\ wpc # "batch"
  /\ Len(queue) < MaxQueue /\ tasks < MaxQueue
  /\ Permissions = AllPermissions \/ PermissionOf(p) \in Permissions
  /\ queue' = Append(queue, p) /\ cpc' = "push"
  /\ UNCHANGED <<client, tasks, wpc, entry, i, os, last>>

\* Mutant: a task is pushed only when none is pending.
PushOnce ==
  /\ cpc = "push"
  /\ tasks' = (IF tasks = 0 THEN 1 ELSE tasks) /\ cpc' = "idle"
  /\ UNCHANGED <<client, queue, wpc, entry, i, os, last>>
Push ==
  /\ cpc = "push"
  /\ tasks' = tasks + 1 /\ cpc' = "idle"
  /\ UNCHANGED <<client, queue, wpc, entry, i, os, last>>

\* passthrough_next_message takes the first packet and the queue lock.
Pop ==
  /\ wpc = "idle" /\ tasks > 0 /\ tasks' = tasks - 1
  /\ IF queue = << >>
     THEN UNCHANGED <<queue, wpc, entry, i>>
     ELSE /\ entry' = Head(queue) /\ queue' = Tail(queue)
          /\ wpc' = "batch" /\ i' = 1
  /\ UNCHANGED <<client, cpc, os, last>>

Without(s, k) == SubSeq(s, 1, k - 1) \o SubSeq(s, k + 1, Len(s))

\* One round of the loop over the rest of the queue.
BatchNext ==
  /\ wpc = "batch"
  /\ \/ /\ i \in DOMAIN queue /\ Batch(entry, queue[i]) = "batched"
        /\ entry' = Merged(entry, queue[i]) /\ queue' = Without(queue, i)
        /\ UNCHANGED <<wpc, i>>
     \/ /\ i \in DOMAIN queue /\ Batch(entry, queue[i]) = "skip"
        /\ i' = i + 1
        /\ UNCHANGED <<queue, wpc, entry>>
     \/ /\ i \in DOMAIN queue => Batch(entry, queue[i]) = "terminate"
        /\ wpc' = "send" /\ i' = 1
        /\ UNCHANGED <<queue, entry>>
  /\ UNCHANGED <<client, tasks, cpc, os, last>>

\* The passthrough of the packet, without a lock.
Send ==
  /\ wpc = "send"
  /\ os' = [os EXCEPT ![Dev(entry)] = entry] /\ last' = Run(entry)
  /\ wpc' = "idle" /\ entry' = None
  /\ UNCHANGED <<client, queue, tasks, cpc, i>>

ControlThread == Push \/ \E p \in Packets : Receive(p)
PoolThread == Pop \/ BatchNext \/ Send

Next == ControlThread \/ PoolThread

Spec == Init /\ [][Next]_vars
FairSpec == Spec /\ WF_vars(PoolThread) /\ WF_vars(Push)

(***************************************************************************)
(* Properties.                                                             *)
(***************************************************************************)
\* What the operating system has not seen yet, in order.
Remaining == (IF wpc = "idle" THEN << >> ELSE <<entry>>) \o queue

TypeOK ==
  /\ client \in Clients /\ queue \in Seq(client)
  /\ tasks \in Nat /\ cpc \in {"idle", "push"} /\ wpc \in {"idle", "batch", "send"}
  /\ i \in 1 .. Len(queue) + 1
  /\ wpc # "idle" => entry.kind \in Relative \/ entry \in client
  /\ DOMAIN os = Devices

\* The state a packet puts its device in, and the packets that are never merged.
StateOf(p) ==
  CASE p.kind = "controller" -> <<p.mask, p.state>>
    [] p.kind \in {"touch", "controller_touch"} -> <<p.event>>
    [] p.kind = "pen" -> <<p.event, p.state>>
    [] p.kind = "mouse_abs" -> <<p.state>>
    [] OTHER -> << >>

Discrete(p) ==
  \/ p.kind \in {"mouse_button", "key", "battery", "arrival"}
  \/ p.kind \in {"touch", "controller_touch", "pen"} /\ p.event \notin Moves

\* The packet of its device before packet k, in s or already with the system.
Before(seen, s, k) ==
  LET same == {j \in 1 .. k - 1 : Dev(s[j]) = Dev(s[k])}
  IN  IF same = {} THEN seen[Dev(s[k])]
      ELSE s[CHOOSE j \in same : \A j2 \in same : j2 <= j]

\* Packet k of s is more than another position: it is of a kind or event that is
\* never merged, begins another run, or changes the state of its device.
IsChange(seen, run, s, k) ==
  \/ Discrete(s[k])
  \/ Run(s[k]) # (IF k = 1 THEN run ELSE Run(s[k - 1]))
  \/ \E before \in {Before(seen, s, k)} :
       before = None \/ (before # None /\ StateOf(before) # StateOf(s[k]))

\* The elements of s at the marked places.
Marked(s, marks) ==
  LET M[k \in 0 .. Len(s)] ==
        IF k = 0 THEN << >>
        ELSE IF k \in marks THEN Append(M[k - 1], s[k]) ELSE M[k - 1]
  IN  M[Len(s)]

\* The changes in s for a system that has seen what is given: of whom, into which state.
ChangesOf(seen, run, s) ==
  Marked([k \in 1 .. Len(s) |-> <<Dev(s[k]), StateOf(s[k])>>],
         {k \in 1 .. Len(s) : IsChange(seen, run, s, k)})

\* The changes still to be delivered, in order.
Changes == ChangesOf(os, last, Remaining)

\* Merging neither loses, adds nor reorders a change: the changes to deliver
\* leave at the front, one at a time, and enter at the back. Clicks fall where
\* the pointer was, a touch goes down before it moves ("Don't batch beyond state
\* changing events", input.cpp:1322), a controller that goes away has had its
\* buttons.
ChangesInOrder ==
  [][LET now == Changes
         next == Changes'
     IN  \/ next = now
         \/ now # << >> /\ next = Tail(now)
         \/ \E p \in client : next = Append(now, <<Dev(p), StateOf(p)>>)]_vars

\* The last packet sent for a device is the last the operating system will see
\* of it: merging may drop earlier positions, never the final one ("Take the
\* latest state"), with other devices between the packets it merges.
LastOf(d) ==  \* as a set of one
  LET of == {k \in DOMAIN Remaining : Dev(Remaining[k]) = d}
  IN  IF of = {} THEN {os[d]} ELSE {Remaining[k] : k \in {k \in of : \A j \in of : j <= k}}

FinalKept ==
  [][\A d \in Devices : d[1] \notin Relative /\ Len(queue') <= Len(queue) => LastOf(d)' = LastOf(d)]_vars

\* No packet stays behind without a task that will take it: a task per packet,
\* but for the one the control thread is about to push ("If all entries have
\* already been processed, nothing to do": there may be more tasks).
NotStranded == Len(queue) <= tasks + (IF cpc = "push" THEN 1 ELSE 0)

\* What FinalKept and NotStranded rest on: the packets the loop has passed are
\* of other devices.
Passed ==
  wpc = "batch" => \A k \in 1 .. i - 1 : Batch(entry, queue[k]) = "skip"

InputInv == TypeOK /\ NotStranded /\ Passed

\* When the client falls silent all it has sent is delivered.
DrainsWhenQuiet ==
  <>[][~ \E p \in Packets : Receive(p)]_vars => <>[](Remaining = << >>)

\* Relative movements add up: what is delivered is what was sent, axis by axis
\* ("Batching is safe as long as the result doesn't overflow a 16-bit integer",
\* input.cpp:1211).
SumKept ==
  [][wpc = "batch" /\ wpc' = "batch" /\ entry' # entry /\ entry.kind \in Relative
       => \A k \in DOMAIN entry.val :
            entry'.val[k] = entry.val[k] + queue[i].val[k]]_vars
=============================================================================
