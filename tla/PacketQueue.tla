---------------------------- MODULE PacketQueue ----------------------------
(***************************************************************************)
(* The queue of encoded video packets: one queue_t (thread_safe.h) for     *)
(* every session, which the encoder threads, the broadcast thread of       *)
(* stream.cpp, end_broadcast and the probing of encoders find by name in   *)
(* mail::man and keep alive by their handles. The audio queue is used the  *)
(* same way, except by probes.                                             *)
(*                                                                         *)
(* Every method of queue_t and every lookup is one step, as each runs      *)
(* under its mutex. The mutex of broadcast, held from the last release to  *)
(* the end of end_broadcast, is the guard of Start.                        *)
(***************************************************************************)
EXTENDS Naturals, Sequences

CONSTANTS
  Sessions,
  NoSession,    (* channel_data of a probe: nullptr                        *)
  Sender,       (* the thread of videoBroadcastThread                      *)
  Ender,        (* the thread inside end_broadcast                         *)
  Prober,       (* the thread inside validate_config                       *)
  Capacity,     (* _max_elements: 32 in the code                           *)
  Environment   (* what the surroundings may do: a subset of AllEnvironment *)

(***************************************************************************)
(* "late": videoBroadcastThread is scheduled only after the session that   *)
(* started it has begun to encode, or is over. "overlap": a client is      *)
(* probed for while another one starts or the last one ends. "opus": an    *)
(* encoder fails and stops the queue (audio.cpp:121, the audio queue only). *)
(***************************************************************************)
AllEnvironment == {"late", "overlap", "opus"}

Threads == Sessions \cup {Sender, Ender, Prober}

ASSUME PacketQueueAssumption ==
  /\ Capacity \in Nat \ {0}
  /\ {Sender, Ender, Prober} \cap Sessions = {}
  /\ Sender # Ender /\ Sender # Prober /\ Ender # Prober
  /\ NoSession \notin Threads
  /\ Environment \subseteq AllEnvironment

VARIABLES
  entry,     (* mail::man's entry for the name: "absent", "live" or, while  *)
             (* the last handle is being destroyed, "expired"              *)
  open,      (* _continue                                                  *)
  items,     (* _queue: the session of each packet                         *)
  holders,   (* the threads that have a handle                             *)
  null,      (* a null pointer was used: the host is gone                  *)
  bshut,     (* mail::broadcast_shutdown is raised                         *)
  cur,       (* the session of the packet the sender works on              *)
  pc         (* where each thread is; for a session, its encoder thread    *)

vars == <<entry, open, items, holders, null, bshut, cur, pc>>
queueVars == <<entry, open, items, holders, null>>

\* The sessions in the RTSP server's slots, and those with a broadcast_ref.
Slots == {s \in Sessions : pc[s] \in {"ready", "encode", "cleanup"}}
Refs == {s \in Sessions : pc[s] \in {"ready", "encode", "cleanup", "erased", "freed"}}

Init ==
  /\ entry = "absent" /\ open = FALSE /\ items = <<>> /\ holders = {} /\ null = FALSE
  /\ bshut = FALSE /\ cur = NoSession
  /\ pc = [t \in Threads |-> IF t \in Sessions THEN "new" ELSE "idle"]

Goto(t, l) == pc' = [pc EXCEPT ![t] = l]

(***************************************************************************)
(* thread_safe.h: mail_raw_t and queue_t                                   *)
(***************************************************************************)

\* mail_raw_t::queue(): the entry's queue, a new one, or lock() of a dead one.
Lookup(t) ==
  /\ entry' = IF entry = "absent" THEN "live" ELSE entry
  /\ open' = IF entry = "absent" THEN TRUE ELSE open
  /\ holders' = IF entry = "expired" THEN holders ELSE holders \cup {t}
  /\ null' = (entry = "expired")
  /\ UNCHANGED items

\* A handle is destroyed; with the last one the queue, and then ~post_t() runs.
Drop(t, next) ==
  /\ holders' = holders \ {t}
  /\ IF holders = {t}
     THEN entry' = "expired" /\ items' = <<>> /\ Goto(t, "cleanup")
     ELSE Goto(t, next) /\ UNCHANGED <<entry, items>>
  /\ UNCHANGED null

\* mail_raw_t::cleanup()
Cleanup(t, next) ==
  /\ pc[t] = "cleanup"
  /\ entry' = "absent"
  /\ Goto(t, next)
  /\ UNCHANGED <<open, items, holders, null, bshut, cur>>

Peek == open /\ items # <<>>

\* queue_t::raise(): a queue that is full forgets everything first.
RaisePacket(s) ==
  items' = IF ~open THEN items
           ELSE IF Len(items) = Capacity THEN <<s>> ELSE Append(items, s)

(***************************************************************************)
(* A session: session::start, its encoder thread (encode_run runs again    *)
(* for every display), join and destruction                                *)
(***************************************************************************)

Start(s) ==
  /\ pc[s] = "new" /\ pc[Ender] = "idle"
  /\ pc[Prober] = "idle" \/ "overlap" \in Environment
  /\ pc' = [pc EXCEPT ![s] = "ready",
                      ![Sender] = IF Refs = {} THEN "created" ELSE @]
  /\ UNCHANGED <<queueVars, bshut, cur>>

SenderIsPrompt == pc[Sender] # "created" \/ "late" \in Environment

EncodeBegin(s) ==
  /\ pc[s] = "ready" /\ SenderIsPrompt
  /\ Lookup(s) /\ Goto(s, "encode")
  /\ UNCHANGED <<bshut, cur>>

Encode(s) ==
  /\ pc[s] = "encode"
  /\ RaisePacket(s)
  /\ UNCHANGED <<entry, open, holders, null, bshut, cur, pc>>

EncodeEnd(s) ==
  /\ pc[s] = "encode"
  /\ open' \in {open} \cup (IF "opus" \in Environment THEN {FALSE} ELSE {})
  /\ Drop(s, "ready")
  /\ UNCHANGED <<bshut, cur>>

\* stop, join of the video thread, and the session leaves the slots.
Join(s) ==
  /\ pc[s] = "ready"
  /\ Goto(s, "erased")
  /\ UNCHANGED <<queueVars, bshut, cur>>

\* ~session_t(): the members after broadcast_ref, then broadcast_ref itself.
Free(s) ==
  /\ pc[s] = "erased"
  /\ Goto(s, "freed")
  /\ UNCHANGED <<queueVars, bshut, cur>>

Release(s) ==
  /\ pc[s] = "freed"
  /\ pc' = [pc EXCEPT ![s] = "gone", ![Ender] = IF Refs = {s} THEN "raise" ELSE @]
  /\ UNCHANGED <<queueVars, bshut, cur>>

Session(s) ==
  \/ Start(s) \/ EncodeBegin(s) \/ Encode(s) \/ EncodeEnd(s)
  \/ Cleanup(s, "ready") \/ Join(s) \/ Free(s) \/ Release(s)

(***************************************************************************)
(* videoBroadcastThread                                                    *)
(***************************************************************************)

SenderBegin ==
  /\ pc[Sender] = "created"
  /\ Lookup(Sender) /\ Goto(Sender, "pop")
  /\ UNCHANGED <<bshut, cur>>

SenderPop ==
  /\ pc[Sender] = "pop"
  /\ \/ /\ ~open
        /\ Goto(Sender, "leave") /\ UNCHANGED <<items, cur>>
     \/ /\ Peek
        /\ items' = Tail(items)
        /\ IF bshut THEN Goto(Sender, "leave") /\ UNCHANGED cur
                    ELSE Goto(Sender, "send") /\ cur' = Head(items)
  /\ UNCHANGED <<entry, open, holders, null, bshut>>

SenderSend ==
  /\ pc[Sender] = "send"
  /\ cur' = NoSession /\ null' = (cur = NoSession)
  /\ Goto(Sender, "pop")
  /\ UNCHANGED <<entry, open, items, holders, bshut>>

SenderLeave ==
  /\ pc[Sender] = "leave"
  /\ bshut' = TRUE
  /\ Goto(Sender, "drop")
  /\ UNCHANGED <<queueVars, cur>>

SenderDrop ==
  /\ pc[Sender] = "drop"
  /\ Drop(Sender, "over")
  /\ UNCHANGED <<open, bshut, cur>>

SenderSteps ==
  SenderBegin \/ SenderPop \/ SenderSend \/ SenderLeave \/ SenderDrop \/ Cleanup(Sender, "over")

(***************************************************************************)
(* end_broadcast                                                           *)
(***************************************************************************)

EndRaise ==
  /\ pc[Ender] = "raise" /\ SenderIsPrompt
  /\ bshut' = TRUE /\ Goto(Ender, "lookup")
  /\ UNCHANGED <<queueVars, cur>>

EndLookup ==
  /\ pc[Ender] = "lookup"
  /\ Lookup(Ender) /\ Goto(Ender, "stop")
  /\ UNCHANGED <<bshut, cur>>

\* Mutant: the threads are joined without being woken up.
EndUnstopped ==
  /\ pc[Ender] = "stop"
  /\ Goto(Ender, "reset")
  /\ UNCHANGED <<queueVars, bshut, cur>>

EndStop ==
  /\ pc[Ender] = "stop"
  /\ open' = FALSE /\ Goto(Ender, "reset")
  /\ UNCHANGED <<entry, items, holders, null, bshut, cur>>

\* Mutant: video_packets.reset() is forgotten and the handle kept.
EndKeepsHandle ==
  /\ pc[Ender] = "reset"
  /\ Goto(Ender, "join")
  /\ UNCHANGED <<queueVars, bshut, cur>>

EndReset ==
  /\ pc[Ender] = "reset"
  /\ Drop(Ender, "join")
  /\ UNCHANGED <<open, bshut, cur>>

EndJoin ==
  /\ pc[Ender] = "join" /\ pc[Sender] = "over"
  /\ bshut' = FALSE
  /\ pc' = [pc EXCEPT ![Ender] = "idle", ![Sender] = "idle"]
  /\ UNCHANGED <<queueVars, cur>>

EnderSteps ==
  EndRaise \/ EndLookup \/ EndStop \/ EndReset \/ Cleanup(Ender, "join") \/ EndJoin

(***************************************************************************)
(* validate_config, from launch and resume when there is no session        *)
(***************************************************************************)

ProbeBegin ==
  /\ pc[Prober] = "idle" /\ Slots = {}
  /\ (Refs = {} /\ pc[Ender] = "idle") \/ "overlap" \in Environment
  /\ Goto(Prober, "lookup")
  /\ UNCHANGED <<queueVars, bshut, cur>>

ProbeLookup ==
  /\ pc[Prober] = "lookup"
  /\ Lookup(Prober) /\ Goto(Prober, "encode")
  /\ UNCHANGED <<bshut, cur>>

ProbeEncode ==
  /\ pc[Prober] = "encode"
  /\ IF Peek THEN Goto(Prober, "pop") /\ UNCHANGED items
             ELSE RaisePacket(NoSession) /\ UNCHANGED pc
  /\ UNCHANGED <<entry, open, holders, null, bshut, cur>>

\* pop() waits; what it returns of a stopped queue is dereferenced.
ProbePop ==
  /\ pc[Prober] = "pop" /\ (~open \/ Peek)
  /\ null' = ~open
  /\ items' = IF open THEN Tail(items) ELSE items
  /\ Goto(Prober, "drop")
  /\ UNCHANGED <<entry, open, holders, bshut, cur>>

ProbeDrop ==
  /\ pc[Prober] = "drop"
  /\ Drop(Prober, "idle")
  /\ UNCHANGED <<open, bshut, cur>>

ProberSteps ==
  ProbeLookup \/ ProbeEncode \/ ProbePop \/ ProbeDrop \/ Cleanup(Prober, "idle")

----------------------------------------------------------------------------

Next ==
  /\ ~null
  /\ \/ \E s \in Sessions : Session(s)
     \/ SenderSteps \/ EnderSteps \/ ProbeBegin \/ ProberSteps

Spec == Init /\ [][Next]_vars

\* Threads go on; a session may stay, and nobody has to probe.
Fairness ==
  /\ WF_vars(~null /\ SenderSteps)
  /\ WF_vars(~null /\ EnderSteps)
  /\ WF_vars(~null /\ ProberSteps)
  /\ \A s \in Sessions : WF_vars(~null /\ (Cleanup(s, "ready") \/ Free(s) \/ Release(s)))

FairSpec == Spec /\ Fairness

----------------------------------------------------------------------------
(* Properties                                                              *)

(***************************************************************************)
(* stream.cpp:1329: while nobody ends the context, its sender waits at a   *)
(* queue that is open: never at the one an earlier end_broadcast stopped,  *)
(* on which it would end at once and take every new session with it.       *)
(***************************************************************************)
SenderServes ==
  pc[Sender] \in {"pop", "send", "leave"} /\ pc[Ender] = "idle" /\ ~null =>
    open /\ Sender \in holders

(***************************************************************************)
(* stream.cpp:1823: "Minimize delay stopping video/audio threads": who     *)
(* releases the last reference comes back from end_broadcast, which joins  *)
(* the sender with the mutex of broadcast held.                            *)
(***************************************************************************)
EndReturns == pc[Ender] # "idle" ~> pc[Ender] = "idle" \/ null

(***************************************************************************)
(* thread_safe.h:531: a lookup answers with lock() of whatever the entry   *)
(* points to, also between the destruction of a queue and cleanup(), and   *)
(* no caller looks at the answer before using it. It fails: a sender that  *)
(* finds broadcast_shutdown raised destroys the queue while end_broadcast  *)
(* looks for it (stream.cpp:1818-1824).                                    *)
(***************************************************************************)
NoNullPointer == ~null

(***************************************************************************)
(* stream.cpp:1359: every packet the sender takes has a session. It fails  *)
(* when a probe runs beside a context ("overlap"): both use one queue.     *)
(***************************************************************************)
PacketsHaveSession == pc[Sender] = "send" => cur # NoSession

(***************************************************************************)
(* stream.cpp:1358: the packet the sender works on is of a session that    *)
(* still exists. It fails: nothing removes the packets of one that goes.   *)
(***************************************************************************)
SendsToTheLiving == pc[Sender] = "send" => cur \in Sessions /\ pc[cur] \notin {"freed", "gone"}

(***************************************************************************)
(* The inductive invariant behind SenderServes, and behind                 *)
(* PacketsHaveSession, where no encoder stops the queue and nobody probes  *)
(* beside a context.                                                       *)
(***************************************************************************)

TypeOK ==
  /\ entry \in {"absent", "live", "expired"}
  /\ open \in BOOLEAN /\ null \in BOOLEAN /\ bshut \in BOOLEAN
  /\ items \in Seq(Sessions \cup {NoSession}) /\ Len(items) <= Capacity
  /\ holders \subseteq Threads
  /\ cur \in Sessions \cup {NoSession}
  /\ pc \in [Threads -> {"new", "ready", "encode", "cleanup", "erased", "freed", "gone", "idle", "created",
                         "pop", "send", "leave", "drop", "over", "raise", "lookup", "stop", "reset", "join"}]

\* Which steps belong to which thread.
StepsInv ==
  /\ \A s \in Sessions : pc[s] \in {"new", "ready", "encode", "cleanup", "erased", "freed", "gone"}
  /\ pc[Sender] \in {"idle", "created", "pop", "send", "leave", "drop", "cleanup", "over"}
  /\ pc[Ender] \in {"idle", "raise", "lookup", "stop", "reset", "cleanup", "join"}
  /\ pc[Prober] \in {"idle", "lookup", "encode", "pop", "drop", "cleanup"}

\* Between a lookup and the end of its handle a thread has one; with the last
\* one goes the queue, and whoever destroyed it removes the entry.
HoldingSteps == {"encode", "pop", "send", "leave", "drop", "stop", "reset"}
HandlesInv ==
  /\ ~null => holders = {t \in Threads : pc[t] \in HoldingSteps}
  /\ entry = "live" <=> holders # {}
  /\ entry = "expired" => \E t \in Threads : pc[t] = "cleanup"
  /\ \A t \in Threads : pc[t] = "cleanup" =>
       entry = "expired" /\ \A u \in Threads : pc[u] = "cleanup" => u = t

\* A context has references, then an end; a probe finds neither.
ContextInv ==
  /\ pc[Prober] # "idle" => Refs = {} /\ pc[Ender] = "idle"
  /\ pc[Ender] # "idle" => Refs = {}
  /\ pc[Sender] # "idle" <=> Refs # {} \/ pc[Ender] # "idle"

\* Only end_broadcast stops the queue, and drops its handle next.
OpenInv == entry = "live" /\ pc[Ender] \in {"idle", "raise", "lookup", "stop"} => open

\* The packets of a probe go with its handle.
PacketsInv ==
  /\ pc[Prober] \notin {"encode", "pop", "drop"} => items \in Seq(Sessions)
  /\ PacketsHaveSession

QueueInv == TypeOK /\ StepsInv /\ HandlesInv /\ ContextInv /\ OpenInv /\ PacketsInv
=============================================================================
