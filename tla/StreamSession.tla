--------------------------- MODULE StreamSession ---------------------------
(***************************************************************************)
(* The life of the streaming sessions of the host: src/src/stream.cpp      *)
(* (session::alloc/start/stop/graceful_stop/join, the control broadcast    *)
(* thread, the two threads of a session, start_broadcast/end_broadcast)    *)
(* together with the part of src/src/rtsp.cpp that owns the sessions       *)
(* (_session_slots: insert, remove, clear, find_session) and the reference *)
(* counted broadcast context (safe::shared_t of src/src/thread_safe.h).    *)
(*                                                                         *)
(* Threads: the RTSP thread (ANNOUNCE, then clear), the HTTP threads       *)
(* (session_count, terminate_sessions, graceful stop of one session), the  *)
(* main thread (rtsp server stop), the control thread of the broadcast     *)
(* context, and a video and an audio thread per session.                   *)
(*                                                                         *)
(* Bound: every element of Sessions is one session_t, allocated once.      *)
(***************************************************************************)
EXTENDS Integers, FiniteSets

CONSTANTS
  Sessions,     (* the session_t objects that may be allocated              *)
  Kinds,        (* the threads of a session: "video", and "audio" unless a  *)
                (* run leaves it out to be smaller                          *)
  HttpThreads,  (* the threads of the HTTP, HTTPS and configuration servers *)
  NoSession,    (* the null session pointer                                 *)
  Nobody,       (* the owner of a mutex that is free                        *)
  CounterMod,   (* running_sessions is an atomic_uint: it counts modulo     *)
  Environment   (* what the surroundings may do, a subset of EnvEvents      *)

EnvEvents == {"app_exit", "cancel", "graceful", "shutdown", "bind_error"}

ASSUME StreamAssumption ==
  /\ IsFiniteSet(Sessions)
  /\ NoSession \notin Sessions
  /\ "video" \in Kinds /\ Kinds \subseteq {"video", "audio"}
  /\ CounterMod \in Nat \ {0, 1}
  /\ Environment \subseteq EnvEvents
  /\ HttpThreads \cap {"rtsp", "main", Nobody} = {}
  /\ Nobody \notin {"rtsp", "main"}

Threads == HttpThreads \cup {"rtsp", "main"}
Holders == Kinds \cup {"session"}    \* who holds a broadcast_ctx reference

VARIABLES
  life,        (* "fresh", "alive" after alloc, "freed" after ~session_t     *)
  state,       (* session_t::state                                           *)
  shutdownEv,  (* session_t::shutdown_event has been raised                  *)
  controlEnd,  (* session_t::controlEnd has been raised                      *)
  peer,        (* control.peer: "none", "connected", "gone" (disconnected)   *)
  av,          (* progress of the video and audio thread of a session        *)
  refs,        (* the ptr_t of broadcast that are not null                   *)
  count,       (* shared_t::_count                                           *)
  ctx,         (* broadcast_ctx_t: "down", "up", "ending" (in end_broadcast) *)
  sessions,    (* control_server_t::_sessions                                *)
  cpc,         (* control thread: where it is in its loop                    *)
  ctodo,       (* control thread: sessions not visited yet in this pass      *)
  awaiting,    (* control thread: has_session_awaiting_peer                  *)
  slots,       (* rtsp_server_t::_session_slots                              *)
  slotLock,    (* the owner of the mutex of _session_slots                   *)
  pc, op,      (* per thread: next step, and the operation it belongs to     *)
  cur,         (* per thread: the session it works on                        *)
  all, todo,   (* per thread: argument and iterator of clear                 *)
  running,     (* running_sessions                                           *)
  streaming,   (* streaming_will_start ran after the last streaming_will_stop*)
  app,         (* proc::proc.running() != 0                                  *)
  bshut,       (* mail::broadcast_shutdown is raised                         *)
  gshut        (* mail::shutdown is raised                                   *)

sessionVars == <<life, state, shutdownEv, controlEnd, peer>>
refVars     == <<refs, count, ctx, bshut>>
ctlVars     == <<sessions, cpc, ctodo, awaiting>>
slotVars    == <<slots, slotLock>>
threadVars  == <<pc, op, cur, all, todo>>
countVars   == <<running, streaming>>
envVars     == <<app, gshut>>
vars == <<sessionVars, av, refVars, ctlVars, slotVars, threadVars, countVars, envVars>>

(***************************************************************************)
(* Helpers.                                                                *)
(***************************************************************************)

Goto(t, l) == pc' = [pc EXCEPT ![t] = l]

\* Mutant: stop also acts on a session that start has not finished yet.
StopAnyState(s) ==
  /\ state' = [state EXCEPT ![s] = "STOPPING"]
  /\ shutdownEv' = [shutdownEv EXCEPT ![s] = TRUE]

\* session::stop: RUNNING becomes STOPPING and the shutdown event is raised;
\* in any other state nothing happens (STARTING is never stored by the code).
Stop(s) ==
  IF state[s] = "RUNNING"
  THEN /\ state' = [state EXCEPT ![s] = "STOPPING"]
       /\ shutdownEv' = [shutdownEv EXCEPT ![s] = TRUE]
  ELSE UNCHANGED <<state, shutdownEv>>

\* Mutant: a copy of the ptr_t that does not count.
TakeRefUncounted(h) == refs' = refs \cup {h} /\ count' = count

\* A ptr_t of broadcast is made and released.
TakeRef(h) == refs' = refs \cup {h} /\ count' = count + 1
DropRef(h) == refs' = refs \ {h} /\ count' = count - 1

\* Mutant: find_session hands out a plain pointer.
KeepsNothing(u, s) == FALSE

\* Thread u keeps s alive by a shared_ptr of its own (clear uses the slot's).
Keeps(u, s) == cur[u] = s /\ op[u] \in {"announce", "stop"}

\* What clear(false) cleans up.
Ended(s) == state[s] = "STOPPING"

\* Mutants: join waits for the threads only; for the control stream only.
ThreadsOver(s) == \A k \in Kinds : av[s][k] = "done"
ControlOver(s) == controlEnd[s]

\* What join waits for: the video thread, the audio thread, then controlEnd (all
\* three, once over, stay over).
Over(s) == ThreadsOver(s) /\ ControlOver(s)

\* Mutants: a counter that stops at zero; callbacks while a session is left.
UncountSaturating == IF running = 0 THEN 0 ELSE running - 1
FewLeft(n) == n <= 1

Uncount == (running - 1) % CounterMod
NoneLeft(n) == n = 0

\* Mutant: the end of end_broadcast leaves the event raised.
KeepBroadcastShutdown == UNCHANGED bshut

ResetBroadcastShutdown == bshut' = FALSE

\* Mutant: the control thread forgets the session without telling join.
ForgetControl(s) == UNCHANGED controlEnd

EndControl(s) == controlEnd' = [controlEnd EXCEPT ![s] = TRUE]

\* Mutant: only sessions with a peer time out.
PeerTimesOut(s, late) == late /\ peer[s] # "none"

\* now > pingTimeout, for every session of the list.
TimesOut(s, late) == late

\* Where a thread goes on once it has let go of its session.
Return(t) ==
  /\ Goto(t, CASE op[t] = "announce" -> "tick"
               [] op[t] = "stop"     -> "idle"
               [] OTHER              -> "scan")
  /\ op' = [op EXCEPT ![t] = IF @ \in {"announce", "stop"} THEN "none" ELSE @]
  /\ cur' = [cur EXCEPT ![t] = NoSession]

\* Thread t drops its shared_ptr (clear: the slot's); the last one out of the
\* slots and the other threads runs ~session_t.
Drop(t, s) ==
  IF s \in slots' \/ \E u \in Threads \ {t} : Keeps(u, s)
  THEN Return(t)
  ELSE Goto(t, "release") /\ UNCHANGED <<op, cur>>

\* The mutex of _sessions is held by the control thread.
SessionsLocked == cpc \in {"sweep", "exit"}

ControlAlive == cpc \notin {"none", "done"}

Init ==
  /\ life = [s \in Sessions |-> "fresh"]
  /\ state = [s \in Sessions |-> "STOPPED"]
  /\ shutdownEv = [s \in Sessions |-> FALSE]
  /\ controlEnd = [s \in Sessions |-> FALSE]
  /\ peer = [s \in Sessions |-> "none"]
  /\ av = [s \in Sessions |-> [k \in Kinds |-> "none"]]
  /\ refs = {} /\ count = 0 /\ ctx = "down" /\ bshut = FALSE
  /\ sessions = {} /\ cpc = "none" /\ ctodo = {} /\ awaiting = FALSE
  /\ slots = {} /\ slotLock = Nobody
  /\ pc = [t \in Threads |-> IF t = "rtsp" THEN "iterate" ELSE "idle"]
  /\ op = [t \in Threads |-> "none"]
  /\ cur = [t \in Threads |-> NoSession]
  /\ all = [t \in Threads |-> FALSE]
  /\ todo = [t \in Threads |-> {}]
  /\ running = 0 /\ streaming = FALSE
  /\ app = TRUE /\ gshut = FALSE

(***************************************************************************)
(* ANNOUNCE on the RTSP thread: alloc, insert, start.                      *)
(***************************************************************************)

\* One turn of the RTSP loop runs one handler, or waits 500 ms for one; then
\* broadcast_shutdown decides how much is cleared ("lock": clear is entered).
RtspTimeout ==
  /\ pc["rtsp"] = "iterate"
  /\ Goto("rtsp", "tick")
  /\ UNCHANGED <<sessionVars, av, refVars, ctlVars, slotVars, op, cur, all, todo, countVars, envVars>>

RtspPeek ==
  /\ pc["rtsp"] = "tick"
  /\ all' = [all EXCEPT !["rtsp"] = bshut]
  /\ Goto("rtsp", "lock")
  /\ UNCHANGED <<sessionVars, av, refVars, ctlVars, slotVars, op, cur, todo, countVars, envVars>>

Announce(s) ==
  /\ pc["rtsp"] = "iterate" /\ slotLock = Nobody
  /\ life[s] = "fresh"
  /\ life' = [life EXCEPT ![s] = "alive"]
  /\ slots' = slots \cup {s}
  /\ Goto("rtsp", "ref")
  /\ op' = [op EXCEPT !["rtsp"] = "announce"]
  /\ cur' = [cur EXCEPT !["rtsp"] = s]
  /\ UNCHANGED <<state, shutdownEv, controlEnd, peer, av, refVars, ctlVars,
                 slotLock, all, todo, countVars, envVars>>

\* session.broadcast_ref = broadcast.ref(): the first reference constructs the
\* context and starts its threads; the mutex of shared_t is held meanwhile, and
\* all through end_broadcast.
StartRef ==
  LET s == cur["rtsp"] IN
  /\ pc["rtsp"] = "ref" /\ ctx # "ending"
  /\ \/ /\ TakeRef(<<s, "session">>)
        /\ IF count = 0
           THEN ctx' = "up" /\ cpc' = "top"
           ELSE UNCHANGED <<ctx, cpc>>
        /\ Goto("rtsp", "push")
     \/ \* start_broadcast could not bind a port
        /\ "bind_error" \in Environment /\ count = 0
        /\ Goto("rtsp", "remove")
        /\ UNCHANGED <<refs, count, ctx, cpc>>
  /\ UNCHANGED <<sessionVars, av, bshut, sessions, ctodo, awaiting, slotVars, op, cur, all, todo,
                 countVars, envVars>>

\* The failed session leaves the slots; cmd_announce drops its own pointer.
StartFailed ==
  LET s == cur["rtsp"] IN
  /\ pc["rtsp"] = "remove" /\ slotLock = Nobody
  /\ slots' = slots \ {s}
  /\ Drop("rtsp", s)
  /\ UNCHANGED <<sessionVars, av, refVars, ctlVars, slotLock, all, todo, countVars, envVars>>

StartPush ==
  /\ pc["rtsp"] = "push" /\ ~SessionsLocked
  /\ sessions' = sessions \cup {cur["rtsp"]}
  /\ Goto("rtsp", "arm")
  /\ UNCHANGED <<sessionVars, av, refVars, cpc, ctodo, awaiting, slotVars, op, cur, all, todo,
                 countVars, envVars>>

\* pingTimeout is set, then the two threads are created, audio first.
StartThread(k, from, to) ==
  /\ pc["rtsp"] = from
  /\ av' = [av EXCEPT ![cur["rtsp"]] = [j \in Kinds |-> IF j = k THEN "start" ELSE @[j]]]
  /\ Goto("rtsp", to)
  /\ UNCHANGED <<sessionVars, refVars, ctlVars, slotVars, op, cur, all, todo, countVars, envVars>>

StartThreads == StartThread("audio", "arm", "video") \/ StartThread("video", "video", "run")

StartRunning ==
  /\ pc["rtsp"] = "run"
  /\ state' = [state EXCEPT ![cur["rtsp"]] = "RUNNING"]
  /\ Goto("rtsp", "inc")
  /\ UNCHANGED <<life, shutdownEv, controlEnd, peer, av, refVars, ctlVars, slotVars,
                 op, cur, all, todo, countVars, envVars>>

StartCount ==
  /\ pc["rtsp"] = "inc"
  /\ running' = (running + 1) % CounterMod
  /\ Goto("rtsp", IF running' = 1 THEN "first" ELSE "started")
  /\ UNCHANGED <<sessionVars, av, refVars, ctlVars, slotVars, op, cur, all, todo, streaming, envVars>>

StartFirst ==
  /\ pc["rtsp"] = "first"
  /\ streaming' = TRUE
  /\ Goto("rtsp", "started")
  /\ UNCHANGED <<sessionVars, av, refVars, ctlVars, slotVars, op, cur, all, todo, running, envVars>>

\* cmd_announce returns and drops its pointer to the session.
AnnounceReturn ==
  /\ pc["rtsp"] = "started"
  /\ UNCHANGED slotVars
  /\ Drop("rtsp", cur["rtsp"])
  /\ UNCHANGED <<sessionVars, av, refVars, ctlVars, all, todo, countVars, envVars>>

(***************************************************************************)
(* clear(all) with the mutex of _session_slots held: the RTSP thread after *)
(* every handler, HTTP threads in session_count and terminate_sessions,    *)
(* the main thread and the RTSP thread when the host shuts down.           *)
(***************************************************************************)

ClearLock(t, o, a) ==
  /\ slotLock = Nobody
  /\ slotLock' = t
  /\ op' = [op EXCEPT ![t] = o]
  /\ all' = [all EXCEPT ![t] = a]
  /\ todo' = [todo EXCEPT ![t] = slots]
  /\ Goto(t, "scan")
  /\ UNCHANGED <<sessionVars, av, refVars, ctlVars, slots, cur, countVars, envVars>>

RtspClear == pc["rtsp"] = "lock" /\ ClearLock("rtsp", "clear", all["rtsp"])
RtspFinal == pc["rtsp"] = "idle" /\ ClearLock("rtsp", "final", TRUE)
MainStop  == pc["main"] = "idle" /\ gshut /\ ClearLock("main", "final", TRUE)
HttpCount(t)  == pc[t] = "idle" /\ ClearLock(t, "clear", FALSE)
HttpCancel(t) == pc[t] = "idle" /\ "cancel" \in Environment /\ ClearLock(t, "clear", TRUE)

ClearVisit(t) ==
  /\ pc[t] = "scan"
  /\ \E s \in todo[t] :
       /\ todo' = [todo EXCEPT ![t] = @ \ {s}]
       /\ IF all[t] \/ Ended(s)
          THEN /\ Stop(s)
               /\ cur' = [cur EXCEPT ![t] = s]
               /\ Goto(t, "join")
          ELSE UNCHANGED <<state, shutdownEv, cur, pc>>
  /\ UNCHANGED <<life, controlEnd, peer, av, refVars, ctlVars, slotVars, op, all,
                 countVars, envVars>>

\* The RTSP thread looks at the shutdown event before its next turn; once out
\* of its loop ("idle") it clears a last time.
ClearReturn(t) ==
  /\ pc[t] = "scan" /\ todo[t] = {}
  /\ slotLock' = Nobody
  /\ Goto(t, IF op[t] = "final" THEN "stopped"
             ELSE IF t = "rtsp" /\ ~gshut THEN "iterate" ELSE "idle")
  /\ op' = [op EXCEPT ![t] = "none"]
  /\ cur' = [cur EXCEPT ![t] = NoSession]
  /\ all' = [all EXCEPT ![t] = FALSE]
  /\ UNCHANGED <<sessionVars, av, refVars, ctlVars, slots, todo, countVars, envVars>>

\* join has waited; the session is uncounted.
Join(t) ==
  /\ pc[t] = "join" /\ Over(cur[t])
  /\ running' = Uncount
  /\ Goto(t, IF NoneLeft(running') THEN "last" ELSE "erase")
  /\ UNCHANGED <<sessionVars, av, refVars, ctlVars, slotVars, op, cur, all, todo, streaming, envVars>>

\* std::thread::join of a thread that was not created throws; the mutex is
\* unlocked by unwinding, the session stays in the slots. The HTTP server goes
\* on with the next request; the exception ends the process on the main thread.
JoinThrows(t) ==
  /\ pc[t] = "join" /\ av[cur[t]]["video"] = "none"
  /\ slotLock' = Nobody
  /\ Goto(t, IF t \in HttpThreads THEN "idle" ELSE "aborted")
  /\ op' = [op EXCEPT ![t] = "none"]
  /\ cur' = [cur EXCEPT ![t] = NoSession]
  /\ todo' = [todo EXCEPT ![t] = {}]
  /\ all' = [all EXCEPT ![t] = FALSE]
  /\ UNCHANGED <<sessionVars, av, refVars, ctlVars, slots, countVars, envVars>>

\* The last session is gone: the application is paused (or the display
\* configuration reverted) and the platform told.
JoinLast(t) ==
  /\ pc[t] = "last"
  /\ streaming' = FALSE
  /\ Goto(t, "erase")
  /\ UNCHANGED <<sessionVars, av, refVars, ctlVars, slotVars, op, cur, all, todo, running, envVars>>

ClearErase(t) ==
  LET s == cur[t] IN
  /\ pc[t] = "erase"
  /\ slots' = slots \ {s}
  /\ Drop(t, s)
  /\ UNCHANGED <<sessionVars, av, refVars, ctlVars, slotLock, all, todo, countVars, envVars>>

(***************************************************************************)
(* ~session_t releases its reference; the last reference ends the context. *)
(***************************************************************************)

Release(t) ==
  LET s == cur[t] IN
  /\ pc[t] = "release"
  /\ life' = [life EXCEPT ![s] = "freed"]
  /\ peer' = [peer EXCEPT ![s] = "gone"]
  /\ IF <<s, "session">> \in refs
     THEN /\ DropRef(<<s, "session">>)
          /\ IF count = 1
             THEN /\ ctx' = "ending" /\ bshut' = TRUE
                  /\ Goto(t, "ending") /\ cur' = [cur EXCEPT ![t] = NoSession]
                  /\ UNCHANGED op
             ELSE UNCHANGED <<ctx, bshut>> /\ Return(t)
     ELSE UNCHANGED refVars /\ Return(t)
  /\ UNCHANGED <<state, shutdownEv, controlEnd, av, ctlVars, slotVars, all, todo, countVars, envVars>>

\* end_broadcast has joined the threads of the context; the event is reset and
\* the context destroyed.
EndBroadcast(t) ==
  /\ pc[t] = "ending" /\ cpc = "done"
  /\ ctx' = "down" /\ ResetBroadcastShutdown
  /\ sessions' = {} /\ cpc' = "none" /\ ctodo' = {} /\ awaiting' = FALSE
  /\ Return(t)
  /\ UNCHANGED <<sessionVars, av, refs, count, slotVars, all, todo, countVars, envVars>>

(***************************************************************************)
(* find_session and graceful_stop on an HTTP thread.                       *)
(***************************************************************************)

GracefulFind(t, s) ==
  /\ pc[t] = "idle" /\ "graceful" \in Environment
  /\ slotLock = Nobody /\ s \in slots
  /\ op' = [op EXCEPT ![t] = "stop"]
  /\ cur' = [cur EXCEPT ![t] = s]
  /\ Goto(t, "cas")
  /\ UNCHANGED <<sessionVars, av, refVars, ctlVars, slotVars, all, todo, countVars, envVars>>

\* The termination message goes to the peer, if there is one.
GracefulStop(t) ==
  LET s == cur[t] IN
  /\ pc[t] = "cas"
  /\ Stop(s)
  /\ Goto(t, IF state[s] = "RUNNING" THEN "raise" ELSE "drop")
  /\ UNCHANGED <<life, controlEnd, peer, av, refVars, ctlVars, slotVars, op, cur, all,
                 todo, countVars, envVars>>

GracefulRaise(t) ==
  /\ pc[t] = "raise"
  /\ controlEnd' = [controlEnd EXCEPT ![cur[t]] = TRUE]
  /\ Goto(t, "drop")
  /\ UNCHANGED <<life, state, shutdownEv, peer, av, refVars, ctlVars, slotVars, op,
                 cur, all, todo, countVars, envVars>>

GracefulDrop(t) ==
  /\ pc[t] = "drop"
  /\ UNCHANGED slotVars
  /\ Drop(t, cur[t])
  /\ UNCHANGED <<sessionVars, av, refVars, ctlVars, all, todo, countVars, envVars>>

(***************************************************************************)
(* The video and audio threads of a session.                               *)
(***************************************************************************)

AvUnchanged == UNCHANGED <<life, controlEnd, peer, ctlVars, slotVars, threadVars,
                           countVars, envVars>>

SetAv(s, k, to) == av' = [av EXCEPT ![s] = [@ EXCEPT ![k] = to]]

AvRef(s, k) ==
  /\ av[s][k] = "start" /\ ctx # "ending"
  /\ TakeRef(<<s, k>>)
  /\ SetAv(s, k, "ping")
  /\ UNCHANGED <<state, shutdownEv, ctx, bshut>> /\ AvUnchanged

\* recv_ping returns with the ping of the client.
AvPing(s, k) ==
  /\ av[s][k] = "ping"
  /\ SetAv(s, k, "capture")
  /\ UNCHANGED <<state, shutdownEv, refVars>> /\ AvUnchanged

\* recv_ping times out (nothing else cuts it short), or capture ends: because of
\* the shutdown event, or on an error of its own. Then the locals of the thread
\* go: its reference is released, and fail_guard stops the session.
AvExit(s, k) ==
  /\ av[s][k] \in {"ping", "capture"}
  /\ DropRef(<<s, k>>)
  /\ Stop(s)
  /\ SetAv(s, k, "done")
  /\ UNCHANGED <<ctx, bshut>> /\ AvUnchanged

(***************************************************************************)
(* The control thread of the broadcast context.                            *)
(***************************************************************************)

CtlUnchanged == UNCHANGED <<life, av, refVars, slotVars, threadVars, countVars, envVars>>

CtlTop ==
  /\ cpc = "top"
  /\ IF gshut \/ bshut
     THEN cpc' = "exit"
     ELSE cpc' = "sweep"
  /\ ctodo' = sessions /\ awaiting' = FALSE
  /\ UNCHANGED <<state, shutdownEv, controlEnd, peer, sessions>> /\ CtlUnchanged

\* One session of the list: stop it when its pingTimeout has passed (late), then
\* remove it when it is STOPPING, else remember whether it still waits for its
\* peer.
CtlVisit(s, late) ==
  /\ cpc = "sweep" /\ s \in ctodo /\ ~gshut /\ ~bshut
  /\ ctodo' = ctodo \ {s}
  /\ IF TimesOut(s, late) THEN Stop(s) ELSE UNCHANGED <<state, shutdownEv>>
  /\ IF state'[s] = "STOPPING"
     THEN /\ sessions' = sessions \ {s}
          /\ EndControl(s)
          /\ UNCHANGED awaiting
     ELSE /\ awaiting' = (awaiting \/ peer[s] = "none")
          /\ UNCHANGED <<sessions, controlEnd>>
  /\ UNCHANGED <<peer, cpc>> /\ CtlUnchanged

CtlSweepEnd ==
  /\ cpc = "sweep" /\ (ctodo = {} \/ gshut \/ bshut)
  /\ cpc' = "decide"
  /\ UNCHANGED <<state, shutdownEv, controlEnd, peer, sessions, ctodo, awaiting>>
  /\ CtlUnchanged

\* No application and nobody waited for: the loop is left. The exit pass over
\* the list starts when its mutex is taken.
CtlBreak ==
  /\ cpc = "decide" /\ ~app /\ ~awaiting
  /\ cpc' = "exit" /\ ctodo' = sessions
  /\ UNCHANGED <<state, shutdownEv, controlEnd, peer, sessions, awaiting>> /\ CtlUnchanged

\* Otherwise iterate handles at most one ENet event. Every event of a known session moves its
\* ping timeout; a message changes nothing else here.
CtlIterates == cpc = "decide" /\ (app \/ awaiting)

CtlConnect(s) ==
  /\ CtlIterates /\ s \in sessions /\ peer[s] = "none"
  /\ peer' = [peer EXCEPT ![s] = "connected"]
  /\ cpc' = "top"
  /\ UNCHANGED <<state, shutdownEv, controlEnd, sessions, ctodo, awaiting>> /\ CtlUnchanged

CtlDisconnect(s) ==
  /\ CtlIterates /\ s \in sessions /\ peer[s] = "connected"
  /\ peer' = [peer EXCEPT ![s] = "gone"]
  /\ Stop(s)
  /\ cpc' = "top"
  /\ UNCHANGED <<controlEnd, sessions, ctodo, awaiting>> /\ CtlUnchanged

\* No event within 150 ms, or a message of a client.
CtlNoEvent ==
  /\ CtlIterates
  /\ cpc' = "top"
  /\ UNCHANGED <<state, shutdownEv, controlEnd, peer, sessions, ctodo, awaiting>>
  /\ CtlUnchanged

\* After the loop every remaining session gets a termination message and both
\* its events; its state and its place in the list stay.
CtlExitVisit(s) ==
  /\ cpc = "exit" /\ s \in ctodo
  /\ ctodo' = ctodo \ {s}
  /\ shutdownEv' = [shutdownEv EXCEPT ![s] = TRUE]
  /\ controlEnd' = [controlEnd EXCEPT ![s] = TRUE]
  /\ UNCHANGED <<state, peer, sessions, cpc, awaiting>> /\ CtlUnchanged

CtlExitEnd ==
  /\ cpc = "exit" /\ ctodo = {}
  /\ cpc' = "done"
  /\ UNCHANGED <<state, shutdownEv, controlEnd, peer, sessions, ctodo, awaiting>>
  /\ CtlUnchanged

(***************************************************************************)
(* The surroundings: the application, the global shutdown.                 *)
(***************************************************************************)

\* The application ends by itself or is terminated; a launch starts one.
AppChange ==
  /\ "app_exit" \in Environment
  /\ app' = ~app
  /\ UNCHANGED <<sessionVars, av, refVars, ctlVars, slotVars, threadVars, countVars, gshut>>

Shutdown ==
  /\ "shutdown" \in Environment /\ ~gshut
  /\ gshut' = TRUE
  /\ UNCHANGED <<sessionVars, av, refVars, ctlVars, slotVars, threadVars, countVars, app>>

Rtsp ==
  \/ RtspPeek \/ RtspTimeout \/ StartRef \/ StartFailed \/ StartPush \/ StartThreads
  \/ StartRunning \/ StartCount \/ StartFirst \/ AnnounceReturn \/ RtspClear \/ RtspFinal
  \/ \E s \in Sessions : Announce(s)

Clear(t) ==
  \/ ClearVisit(t) \/ ClearReturn(t) \/ Join(t) \/ JoinThrows(t) \/ JoinLast(t)
  \/ ClearErase(t) \/ Release(t) \/ EndBroadcast(t)

Http(t) ==
  \/ HttpCount(t) \/ HttpCancel(t)
  \/ GracefulStop(t) \/ GracefulRaise(t) \/ GracefulDrop(t)
  \/ \E s \in Sessions : GracefulFind(t, s)

Av(s, k) == AvRef(s, k) \/ AvPing(s, k) \/ AvExit(s, k)

Control ==
  \/ CtlTop \/ CtlSweepEnd \/ CtlBreak \/ CtlNoEvent \/ CtlExitEnd
  \/ \E s \in Sessions : \/ \E late \in BOOLEAN : CtlVisit(s, late)
                         \/ CtlConnect(s) \/ CtlDisconnect(s) \/ CtlExitVisit(s)

Next ==
  /\ \A t \in Threads : pc[t] # "aborted"
  /\ \/ Rtsp \/ MainStop \/ Control \/ AppChange \/ Shutdown
     \/ \E t \in Threads : Clear(t)
     \/ \E t \in HttpThreads : Http(t)
     \/ \E s \in Sessions, k \in Kinds : Av(s, k)

Spec == Init /\ [][Next]_vars

(***************************************************************************)
(* Fairness: every thread keeps running and time passes; clients, users,   *)
(* the application and the HTTP requests owe nothing. A mutex is granted   *)
(* in the end to a thread that keeps asking for it.                        *)
(***************************************************************************)
RtspLocks == StartPush \/ StartFailed \/ RtspClear \/ RtspFinal
RtspSteps == \/ RtspTimeout \/ RtspPeek \/ StartRef \/ StartThreads \/ StartRunning
             \/ StartCount \/ StartFirst \/ AnnounceReturn
HttpSteps(t) == GracefulStop(t) \/ GracefulRaise(t) \/ GracefulDrop(t)

\* A video or audio thread starts; recv_ping times out; capture ends when the
\* shutdown event is raised.
AvSteps(s, k) == AvRef(s, k) \/ ((av[s][k] = "ping" \/ shutdownEv[s]) /\ AvExit(s, k))

\* A client that never connected sends nothing that could move its pingTimeout.
PingTimesOut(s) == peer[s] = "none" /\ CtlVisit(s, TRUE)

Fairness ==
  /\ WF_vars(RtspSteps) /\ SF_vars(RtspLocks) /\ SF_vars(MainStop) /\ WF_vars(Control)
  /\ \A t \in Threads : WF_vars(Clear(t))
  /\ \A t \in HttpThreads : WF_vars(HttpSteps(t))
  /\ \A s \in Sessions : SF_vars(PingTimesOut(s)) /\ \A k \in Kinds : WF_vars(AvSteps(s, k))

FairSpec == Spec /\ Fairness

(***************************************************************************)
(* Properties.                                                             *)
(***************************************************************************)

TypeOK ==
  /\ life \in [Sessions -> {"fresh", "alive", "freed"}]
  /\ state \in [Sessions -> {"STOPPED", "STOPPING", "RUNNING"}]
  /\ shutdownEv \in [Sessions -> BOOLEAN]
  /\ controlEnd \in [Sessions -> BOOLEAN]
  /\ peer \in [Sessions -> {"none", "connected", "gone"}]
  /\ av \in [Sessions -> [Kinds -> {"none", "start", "ping", "capture", "done"}]]
  /\ refs \subseteq Sessions \X Holders
  /\ count \in Nat
  /\ ctx \in {"down", "up", "ending"}
  /\ sessions \subseteq Sessions
  /\ cpc \in {"none", "top", "sweep", "decide", "exit", "done"}
  /\ ctodo \subseteq Sessions
  /\ awaiting \in BOOLEAN
  /\ slots \subseteq Sessions
  /\ slotLock \in Threads \cup {Nobody}
  /\ pc \in [Threads -> {"idle", "iterate", "tick", "lock", "ref", "push", "remove", "arm", "video", "run",
                         "inc", "first", "started", "scan", "join", "last", "erase", "release",
                         "ending", "cas", "raise", "drop", "stopped", "aborted"}]
  /\ op \in [Threads -> {"none", "announce", "clear", "final", "stop"}]
  /\ cur \in [Threads -> Sessions \cup {NoSession}]
  /\ all \in [Threads -> BOOLEAN]
  /\ todo \in [Threads -> SUBSET Sessions]
  /\ running \in 0 .. CounterMod - 1
  /\ streaming \in BOOLEAN
  /\ app \in BOOLEAN /\ bshut \in BOOLEAN /\ gshut \in BOOLEAN

\* The context is up exactly while the counter of shared_t says that somebody
\* uses it, and the counter is the number of references held: no user ever sees
\* end_broadcast begin, whatever order sessions and threads come and go in.
RefCountExact ==
  /\ count = Cardinality(refs)
  /\ ctx = "up" <=> count > 0

\* A thread of a session that touches the sockets or queues of the context, and
\* a session that counts as started, find the context up.
ContextOutlivesUsers ==
  \A s \in Sessions :
    \/ ctx = "up"
    \/ /\ \A k \in Kinds : av[s][k] \in {"none", "done"}
       /\ state[s] = "RUNNING" => life[s] = "freed"

\* ~session_t runs only when the session's threads are over, the slots have
\* forgotten it, no reference of it is left and no thread works on it.
FreedIsQuiet ==
  \A s \in Sessions : life[s] = "freed" =>
    /\ \A k \in Kinds : av[s][k] \in {"none", "done"}
    /\ s \notin slots
    /\ \A h \in Holders : <<s, h>> \notin refs
    /\ \A t \in Threads : cur[t] # s

\* broadcast_shutdown is seen only while its own context ends: the reset at the
\* end of end_broadcast comes before the next context's control thread looks.
BroadcastShutdownOnlyAtEnd == bshut => ctx = "ending" /\ refs = {}

Broadcast == INSTANCE SharedRef WITH Handles <- Sessions \X Holders, users <- refs, object <- ctx

\* The sessions and their threads share broadcast as shared_t promises: whichever of
\* them is the first or the last, there is one context at a time, constructed by its
\* first user and ended by its last (stream.cpp:2092, 1909, 1930; thread_safe.h:350).
BroadcastIsShared == Broadcast!Spec

\* The RTSP thread clears every session when it sees broadcast_shutdown; by then
\* there is none, so no session of a new context is taken down with an old one.
BroadcastEndClearsNoSession ==
  op["rtsp"] = "clear" /\ all["rtsp"] => todo["rtsp"] = {}

\* running_sessions is the number of sessions counted by start and not yet
\* uncounted by join, modulo its width, even when join overtakes start.
Counted   == {s \in Sessions : state[s] # "STOPPED" /\ ~(pc["rtsp"] = "inc" /\ cur["rtsp"] = s)}
Uncounted == {s \in Sessions : av[s]["video"] = "done" /\
                (s \notin slots \/ \E t \in Threads : cur[t] = s /\ pc[t] \in {"last", "erase"})}
CounterExact == running = (Cardinality(Counted) - Cardinality(Uncounted)) % CounterMod

\* The unconditional store of RUNNING at the end of start never revives a
\* session that somebody stopped before.
StopIsFinal == [][\A s \in Sessions : state[s] = "STOPPING" => state'[s] = "STOPPING"]_vars

\* streaming_will_start and streaming_will_stop alternate with the counter:
\* outside of the callbacks the platform is prepared iff a session is counted.
PlatformCallbacksPaired ==
  pc["rtsp"] # "first" /\ (\A t \in Threads : pc[t] # "last") => (streaming <=> running # 0)

\* No session that the control thread may still visit has been destroyed: the
\* list holds "All active sessions" (stream.cpp:324) and nothing else.
ListedIsAlive ==
  ControlAlive => \A s \in IF cpc = "exit" THEN ctodo ELSE sessions : life[s] = "alive"

\* clear(true) leaves no session: "If true, clear all sessions" (rtsp.cpp).
ClearAllClears ==
  [][\A t \in Threads :
       all[t] /\ op[t] \in {"clear", "final"} /\ op'[t] = "none" => slots' = {}]_vars

\* A running session whose client has not connected yet has a control thread
\* to connect to, or has been told to shut down.
PendingSessionHasControl ==
  \A s \in Sessions : state[s] = "RUNNING" /\ peer[s] = "none" /\ ~shutdownEv[s] => ControlAlive

\* Every session that stops is joined and destroyed.
StopsAreJoined == \A s \in Sessions : state[s] = "STOPPING" ~> life[s] = "freed"

\* A session whose client never opens the control stream is stopped.
UnconnectedIsStopped ==
  \A s \in Sessions : (state[s] = "RUNNING" /\ peer[s] = "none") ~> (peer[s] # "none" \/ state[s] = "STOPPING")

(***************************************************************************)
(* The inductive invariant behind RefCountExact, ContextOutlivesUsers,     *)
(* FreedIsQuiet, StopIsFinal and the two properties of broadcast_shutdown. *)
(***************************************************************************)
AnnouncePcs == {"ref", "push", "remove", "arm", "video", "run", "inc", "first", "started"}
ClearPcs    == {"scan", "join", "last", "erase"}
StopPcs     == {"cas", "raise", "drop"}
RestPcs     == {"idle", "iterate", "tick", "lock", "stopped", "aborted"}
Unstarted   == {"ref", "remove", "push", "arm", "video"}

\* Each step belongs to its operation; a thread between operations has no session.
PcInv ==
  \A t \in Threads :
    /\ pc[t] \in AnnouncePcs => t = "rtsp" /\ op[t] = "announce"
    /\ op[t] = "announce" => t = "rtsp"
    /\ pc[t] \in ClearPcs => op[t] \in {"clear", "final"}
    /\ pc[t] \in StopPcs => op[t] = "stop"
    /\ pc[t] \in {"release", "ending"} => op[t] # "none"
    /\ pc[t] \in RestPcs => op[t] = "none"
    /\ IF pc[t] \in RestPcs \cup {"scan", "ending"} THEN cur[t] = NoSession
       ELSE cur[t] \in Sessions

\* clear works under the mutex of the slots, on sessions of the slots.
LockInv ==
  \A t \in Threads :
    /\ op[t] \in {"clear", "final"} => slotLock = t /\ todo[t] \subseteq slots
    /\ pc[t] \in {"join", "last", "erase"} => cur[t] \in slots \ todo[t]

\* Sessions in the slots or held by a thread are alive; a session about to be
\* destroyed is known to nobody else.
LifeInv ==
  /\ \A s \in slots : life[s] = "alive"
  /\ \A t \in Threads : cur[t] \in Sessions => life[cur[t]] = "alive"
  /\ \A t \in Threads : pc[t] = "release" =>
       cur[t] \notin slots /\ \A u \in Threads \ {t} : cur[u] # cur[t]

\* Threads of a session run only while the slots know it.
AvInv ==
  /\ \A s \in Sessions \ slots, k \in Kinds : av[s][k] \in {"none", "done"}
  /\ \A s \in Sessions, k \in Kinds : life[s] = "fresh" => av[s][k] = "none"
  /\ \A t \in Threads : pc[t] \in {"last", "erase"} => \A k \in Kinds : av[cur[t]][k] = "done"
  /\ pc["rtsp"] \in Unstarted => av[cur["rtsp"]]["video"] = "none" /\ cur["rtsp"] \in slots
  /\ pc["rtsp"] \in Unstarted \ {"video"} => \A k \in Kinds : av[cur["rtsp"]][k] = "none"

\* A session keeps its initial state until start stores RUNNING.
StateInv ==
  /\ \A s \in Sessions : life[s] = "fresh" => state[s] = "STOPPED"
  /\ pc["rtsp"] \in Unstarted \cup {"run"} => state[cur["rtsp"]] = "STOPPED"

\* Who holds a reference.
RefInv ==
  /\ \A s \in Sessions, k \in Kinds :
       /\ <<s, k>> \in refs <=> av[s][k] \in {"ping", "capture"}
       /\ av[s][k] \in {"start", "ping", "capture"} => <<s, "session">> \in refs
  /\ \A s \in Sessions : <<s, "session">> \in refs => life[s] = "alive"
  /\ pc["rtsp"] \in {"ref", "remove"} => <<cur["rtsp"], "session">> \notin refs
  /\ pc["rtsp"] \in AnnouncePcs \ {"ref", "remove"} => <<cur["rtsp"], "session">> \in refs
  /\ \A s \in Sessions : state[s] = "RUNNING" => <<s, "session">> \in refs \/ life[s] = "freed"
  /\ \A s \in slots : \/ <<s, "session">> \in refs
                      \/ pc["rtsp"] \in {"ref", "remove"} /\ cur["rtsp"] = s

\* The counter, the context and the event that ends it.
CountInv ==
  /\ IsFiniteSet(refs) /\ count = Cardinality(refs)
  /\ ctx = "up" <=> refs # {}
  /\ bshut <=> ctx = "ending"
  /\ \A t \in Threads : pc[t] = "ending" => ctx = "ending"
  /\ \A t, u \in Threads : pc[t] = "ending" /\ pc[u] = "ending" => t = u
  /\ all["rtsp"] /\ (pc["rtsp"] = "lock" \/ op["rtsp"] = "clear") => slots = {}

IInv == TypeOK /\ PcInv /\ LockInv /\ LifeInv /\ AvInv /\ StateInv /\ RefInv /\ CountInv

\* The invariant behind CounterExact: start counts a session it has set running.
CounterInv ==
  /\ pc["rtsp"] = "inc" => state[cur["rtsp"]] # "STOPPED"
  /\ CounterExact

(***************************************************************************)
(* The invariant behind ListedIsAlive while no session is stopped          *)
(* gracefully: then only the control thread lets join return, once it has  *)
(* taken the session out of what it may still visit.                       *)
(***************************************************************************)
Visitable == IF cpc = "exit" THEN ctodo ELSE IF ControlAlive THEN sessions ELSE {}

ListInv ==
  /\ \A s \in Visitable : s \in slots /\ ~controlEnd[s]
  /\ cpc \in {"sweep", "exit"} => ctodo \subseteq sessions
  /\ ctx = "down" => sessions = {}
  /\ \A s \in Sessions : life[s] = "fresh" => s \notin sessions /\ ~controlEnd[s]
  /\ pc["rtsp"] \in {"ref", "remove", "push"} => cur["rtsp"] \notin sessions /\ ~controlEnd[cur["rtsp"]]
  /\ \A t \in Threads : pc[t] \in {"last", "erase"} => controlEnd[cur[t]]
  /\ \A t \in Threads : pc[t] \notin StopPcs

(***************************************************************************)
(* The invariant behind PlatformCallbacksPaired while only the RTSP thread *)
(* clears: a session is counted and uncounted by one thread, in order.     *)
(***************************************************************************)
PairInv ==
  /\ ~gshut /\ pc["main"] = "idle"
  /\ \A s \in Sessions : av[s]["video"] # "none" =>
       state[s] # "STOPPED" \/ (pc["rtsp"] = "run" /\ cur["rtsp"] = s)
  /\ pc["rtsp"] \in AnnouncePcs \ {"remove"} => cur["rtsp"] \in slots
  /\ pc["rtsp"] = "first" => running = 1
  /\ pc["rtsp"] = "last" => running = 0
  /\ PlatformCallbacksPaired
=============================================================================
