------------------------------ MODULE Capture ------------------------------
(***************************************************************************)
(* Video capture, src/src/video.cpp: one capture thread fills images and   *)
(* hands each to every session; the thread of a session (capture_async,    *)
(* encode_run) takes its newest image and encodes it with the display the  *)
(* capture thread has open. When the display has to be opened again, the   *)
(* capture thread asks the sessions to let go of it, waits until it is the *)
(* only owner, and opens another one.                                      *)
(*                                                                         *)
(* The sessions share the capture thread through a reference count         *)
(* (shared_t): the first starts it, the last stops its queue and joins it. *)
(* Images and displays live as long as somebody points to them. Those of   *)
(* some back ends keep their display alive: an image is <<display, n>> or  *)
(* <<None, n>>.                                                            *)
(*                                                                         *)
(* Bounds: PoolSize is capture_buffer_size, 12 in the code; the ids of     *)
(* displays and images are reused when nobody holds them any more. Which   *)
(* display is opened and when images are trimmed are left to chance. The   *)
(* queue of 30 new sessions is never full.                                 *)
(***************************************************************************)
EXTENDS Naturals, FiniteSets

CONSTANTS
  Sessions,   (* the threads that call video::capture                       *)
  InputOnly,  (* those with config.input_only                               *)
  Displays,   (* display_t objects                                          *)
  ImageIds,   (* img_t objects of one display                               *)
  PoolSize,   (* capture_buffer_size                                        *)
  ImagesHold, (* the images of this back end keep their display alive       *)
  None        (* nullptr                                                    *)

ASSUME CaptureAssumption ==
  /\ InputOnly \subseteq Sessions /\ None \notin Sessions
  /\ None \notin Displays /\ None \notin (Displays \cup {None}) \X ImageIds
  /\ PoolSize \in Nat \ {0} /\ ImagesHold \in BOOLEAN

Images == (Displays \cup {None}) \X ImageIds

VARIABLES
  pc,        (* per session: where its thread is                            *)
  holders,   (* the sessions with a reference of capture_thread_async       *)
  joining,   (* the session that waits for the capture thread under _lock   *)
  queueUp,   (* capture_ctx_queue is running                                *)
  queue,     (* capture_ctx_queue: the sessions the thread does not know    *)
  ctxs,      (* capture_ctxs                                                *)
  cpc,       (* where the capture thread is                                 *)
  reinit,    (* reinit_event                                                *)
  disp,      (* disp, of the capture thread                                 *)
  wp,        (* display_wp: the display it points to                        *)
  pool,      (* imgs: the allocated ones                                    *)
  filling,   (* the image the back end writes                               *)
  shutdown,  (* per session: mail::shutdown                                 *)
  running,   (* per session: images->running()                              *)
  image,     (* per session: the image that waits in images                 *)
  work,      (* per session: the image its encoder reads                    *)
  held,      (* per session: its shared_ptr of the display                  *)
  first      (* per session: frame_nr is still 1                            *)

queueVars   == <<queueUp, queue, ctxs>>
captureVars == <<cpc, reinit, disp, wp, pool, filling>>
sessionVars == <<shutdown, running, image, work, held, first>>
vars == <<pc, holders, joining, queueVars, captureVars, sessionVars>>

Init ==
  /\ pc = [s \in Sessions |-> "ref"] /\ holders = {} /\ joining = None
  /\ queueUp = FALSE /\ queue = {} /\ ctxs = {}
  /\ cpc = "none" /\ reinit = FALSE /\ disp = None /\ wp = None
  /\ pool = {} /\ filling = None
  /\ shutdown = [s \in Sessions |-> FALSE] /\ running = [s \in Sessions |-> TRUE]
  /\ image = [s \in Sessions |-> None] /\ work = [s \in Sessions |-> None]
  /\ held = [s \in Sessions |-> None] /\ first = [s \in Sessions |-> TRUE]

(***************************************************************************)
(* Owners.                                                                 *)
(***************************************************************************)
\* The images somebody but the pool points to.
Used == {image[s] : s \in Sessions} \cup {work[s] : s \in Sessions} \cup {filling}
Live == pool \cup (Used \ {None})

\* The owners of a display; their number is its use_count.
Owners(d) ==
  (IF disp = d THEN {None} ELSE {}) \cup {s \in Sessions : held[s] = d}
    \cup {i \in Live : i[1] = d}

Expired == wp = None \/ Owners(wp) = {}

\* platf::display: a new object, at an address of its own.
Opened ==
  LET free == {d \in Displays : Owners(d) = {}}
  IN  /\ free # {}
      /\ disp' = CHOOSE d \in free : TRUE
      /\ wp' = disp'

\* What waits for a session is gone with the session and its context.
WithoutDone(im) ==
  [s \in Sessions |-> IF pc'[s] = "done" /\ s \notin ctxs' \cup queue' THEN None ELSE im[s]]

Goes(s, from, to) == pc[s] = from /\ pc' = [pc EXCEPT ![s] = to]

(***************************************************************************)
(* A session up to its first display.                                      *)
(***************************************************************************)
\* Mutant: a reference is taken without the mutex of shared_t.
NoLock == TRUE
\* Whoever waits for the end of the capture thread holds the mutex.
Unlocked == joining = None

\* capture_thread_async.ref(): the first starts the capture thread.
Ref(s) ==
  /\ Goes(s, "ref", "raise") /\ Unlocked
  /\ holders' = holders \cup {s}
  /\ IF holders = {}
     THEN /\ queueUp' = TRUE /\ queue' = {} /\ ctxs' = {}
          /\ cpc' = "init" /\ reinit' = FALSE /\ wp' = None
          /\ UNCHANGED <<disp, pool, filling>>
     ELSE UNCHANGED <<queueVars, captureVars>>
  /\ UNCHANGED <<joining, sessionVars>>

\* The queue takes nothing when it has been stopped; then the session ends.
RaiseContext(s) ==
  /\ Goes(s, "raise", IF queueUp THEN "loop" ELSE "leave")
  /\ queue' = IF queueUp THEN queue \cup {s} ELSE queue
  /\ UNCHANGED <<holders, joining, queueUp, ctxs, captureVars, sessionVars>>

\* The head of the loop: nothing happens while the display is opened again.
Loop(s) ==
  /\ \/ (shutdown[s] \/ ~running[s]) /\ Goes(s, "loop", "leave")
     \/ ~shutdown[s] /\ running[s] /\ ~reinit /\ Goes(s, "loop", "expired")
  /\ UNCHANGED <<holders, joining, queueVars, captureVars, sessionVars>>

LookAtDisplay(s) ==
  /\ Goes(s, "expired", IF Expired THEN "loop" ELSE "lock")
  /\ UNCHANGED <<holders, joining, queueVars, captureVars, sessionVars>>

\* The lock of display_wp keeps others from assigning it, not the display from
\* going away: then a null pointer is dereferenced.
LockDisplay(s) ==
  /\ Goes(s, "lock", IF Expired THEN "crashed" ELSE "device")
  /\ held' = [held EXCEPT ![s] = IF Expired THEN None ELSE wp]
  /\ UNCHANGED <<holders, joining, queueVars, captureVars,
                 shutdown, running, image, work, first>>

\* The end of the body of the loop: the display is released.
LetGo(s, from, to) == Goes(s, from, to) /\ held' = [held EXCEPT ![s] = None]

\* make_encode_device ends the session when it fails, make_encode_session and the
\* dummy image only this round.
MakeEncoder(s) ==
  /\ \/ Goes(s, "device", IF s \in InputOnly THEN "encode" ELSE "top") /\ UNCHANGED held
     \/ LetGo(s, "device", "leave")
     \/ LetGo(s, "device", "loop")
  /\ UNCHANGED <<holders, joining, queueVars, captureVars,
                 shutdown, running, image, work, first>>

(***************************************************************************)
(* encode_run.                                                             *)
(***************************************************************************)
MustLeave(s) == shutdown[s] \/ ~running[s] \/ (reinit /\ ~first[s])

\* The head of the loop. An IDR frame that is asked for does not wait for an image.
Top(s) ==
  /\ \/ MustLeave(s) /\ LetGo(s, "top", "loop")
     \/ /\ ~MustLeave(s) /\ UNCHANGED held
        /\ Goes(s, "top", "pop") \/ (image[s] = None /\ Goes(s, "top", "encode"))
  /\ UNCHANGED <<holders, joining, queueVars, captureVars,
                 shutdown, running, image, work, first>>

\* images->pop(max_frametime): the newest image, or none in time.
Pop(s) ==
  /\ \/ /\ running[s] /\ image[s] # None /\ Goes(s, "pop", "convert")
        /\ work' = [work EXCEPT ![s] = image[s]] /\ image' = [image EXCEPT ![s] = None]
        /\ UNCHANGED held
     \/ /\ running[s] /\ image[s] = None /\ Goes(s, "pop", "encode")
        /\ UNCHANGED <<work, image, held>>
     \/ ~running[s] /\ LetGo(s, "pop", "loop") /\ UNCHANGED <<work, image>>
  /\ UNCHANGED <<holders, joining, queueVars, captureVars, shutdown, running, first>>

\* The image is converted, or came too early, or cannot be converted.
Convert(s) ==
  /\ work' = [work EXCEPT ![s] = None]
  /\ \/ \E to \in {"encode", "top"} : Goes(s, "convert", to) /\ UNCHANGED held
     \/ LetGo(s, "convert", "loop")
  /\ UNCHANGED <<holders, joining, queueVars, captureVars,
                 shutdown, running, image, first>>

\* encode(frame_nr++, ...), which may fail.
Encode(s) ==
  /\ first' = [first EXCEPT ![s] = FALSE]
  /\ \/ Goes(s, "encode", IF s \in InputOnly THEN "idle" ELSE "top") /\ UNCHANGED held
     \/ LetGo(s, "encode", "loop")
  /\ UNCHANGED <<holders, joining, queueVars, captureVars,
                 shutdown, running, image, work>>

\* An input-only session has encoded the dummy image and waits.
Idle(s) ==
  /\ shutdown[s] \/ ~running[s] \/ reinit
  /\ LetGo(s, "idle", "loop")
  /\ UNCHANGED <<holders, joining, queueVars, captureVars,
                 shutdown, running, image, work, first>>

(***************************************************************************)
(* The end of a session: first the reference goes, with the last one the   *)
(* capture thread, and only then are the images stopped.                   *)
(***************************************************************************)
Leave(s) ==
  /\ holders' = holders \ {s}
  /\ IF holders = {s}
     THEN Goes(s, "leave", "join") /\ queueUp' = FALSE /\ joining' = s
     ELSE Goes(s, "leave", "stop") /\ UNCHANGED <<queueUp, joining>>
  /\ UNCHANGED <<queue, ctxs, captureVars, sessionVars>>

Joined(s) ==
  /\ Goes(s, "join", "stop") /\ cpc = "dead"
  /\ cpc' = "none" /\ joining' = None /\ queue' = {} /\ wp' = None /\ reinit' = FALSE
  /\ UNCHANGED <<holders, queueUp, ctxs, disp, pool, filling,
                 shutdown, running, work, held, first>>
  /\ image' = WithoutDone(image)

StopImages(s) ==
  /\ Goes(s, "stop", "done")
  /\ running' = [running EXCEPT ![s] = FALSE] /\ shutdown' = [shutdown EXCEPT ![s] = TRUE]
  /\ UNCHANGED <<holders, joining, queueVars>>
  /\ image' = WithoutDone(image)
  /\ UNCHANGED <<captureVars, work, held, first>>

\* session::stop, or the video thread of a session that cannot go on.
RaiseShutdown(s) ==
  /\ ~shutdown[s] /\ pc[s] # "done"
  /\ shutdown' = [shutdown EXCEPT ![s] = TRUE]
  /\ UNCHANGED <<pc, holders, joining, queueVars, captureVars,
                 running, image, work, held, first>>

(***************************************************************************)
(* The capture thread.                                                     *)
(***************************************************************************)
CaptureGoes(from, to) == cpc = from /\ cpc' = to

PopInitial ==
  /\ \/ /\ queueUp /\ CaptureGoes("init", "open")
        /\ \E s \in queue : ctxs' = {s} /\ queue' = queue \ {s}
     \/ ~queueUp /\ CaptureGoes("init", "endQueue") /\ UNCHANGED <<ctxs, queue>>
  /\ UNCHANGED <<pc, holders, joining, queueUp, reinit, disp, wp, pool, filling,
                 sessionVars>>

Open ==
  /\ \/ CaptureGoes("open", "capture") /\ Opened
     \/ CaptureGoes("open", "endQueue") /\ UNCHANGED <<disp, wp>>
  /\ UNCHANGED <<pc, holders, joining, queueVars, reinit, pool, filling, sessionVars>>

\* Mutant: an image is free when no encoder reads it.
UnusedButWaiting == pool \ {work[s] : s \in Sessions}
\* The images only the pool points to: use_count() == 1.
Unused == pool \ Used

\* pull_free_image: an unused image or a new one; some unused ones are trimmed.
\* While there is neither the thread sleeps and looks again.
Pull ==
  /\ cpc = "capture" /\ filling = None /\ queueUp
  /\ \/ \E i \in Unused : filling' = i /\ \E trimmed \in SUBSET (Unused \ {i}) : pool' = pool \ trimmed
     \/ /\ Unused = {} /\ Cardinality(pool) < PoolSize
        /\ LET fresh == {i \in Images \ Live : i[1] = IF ImagesHold THEN disp ELSE None}
           IN  fresh # {} /\ filling' = (CHOOSE i \in fresh : TRUE) /\ pool' = pool \cup {filling'}
  /\ UNCHANGED <<pc, holders, joining, queueVars, cpc, reinit, disp, wp, sessionVars>>

\* push_captured_image: the image, when there is one, replaces what waits for the
\* sessions that still run. Then new sessions are taken in, or a switch of the
\* display (asked) is.
Push(captured, asked) ==
  LET left == {s \in ctxs : running[s]}
  IN  /\ cpc = "capture" /\ (captured => filling # None)
      /\ IF queueUp
         THEN /\ ctxs' = left \cup queue /\ queue' = {}
              /\ cpc' = IF asked THEN "reinit" ELSE "capture"
         ELSE ctxs' = left /\ cpc' = "endQueue" /\ UNCHANGED queue
      /\ filling' = None
      /\ UNCHANGED <<pc, holders, joining, queueUp, reinit, disp, wp, pool,
                     shutdown, running, work, held, first>>
      /\ image' = WithoutDone([s \in Sessions |->
                    IF captured /\ s \in left THEN filling ELSE image[s]])

\* The back end gives up by itself, or has no image because the queue was stopped.
Status ==
  /\ \/ CaptureGoes("capture", "reinit") \/ CaptureGoes("capture", "endQueue")
  /\ filling' = None
  /\ UNCHANGED <<pc, holders, joining, queueVars, reinit, disp, wp, pool, sessionVars>>

NoImage ==
  /\ CaptureGoes("capture", "endQueue") /\ filling = None /\ ~queueUp
  /\ UNCHANGED <<pc, holders, joining, queueVars, reinit, disp, wp, pool, filling,
                 sessionVars>>

RaiseReinit ==
  /\ CaptureGoes("reinit", "wait") /\ reinit' = TRUE /\ pool' = {}
  /\ UNCHANGED <<pc, holders, joining, queueVars, disp, wp, filling, sessionVars>>

\* Mutant: the images that wait for the sessions are not freed.
WaitOnly ==
  /\ cpc = "wait" /\ Cardinality(Owners(disp)) = 1 /\ cpc' = "drop"
  /\ UNCHANGED <<pc, holders, joining, queueVars, image, reinit, disp, wp, pool, filling,
                 shutdown, running, work, held, first>>
\* Until the thread is the only owner of the display it frees the images that wait.
Wait ==
  /\ cpc = "wait"
  /\ IF Cardinality(Owners(disp)) = 1
     THEN cpc' = "drop" /\ UNCHANGED <<queueVars, image, pc>>
     ELSE /\ ctxs' = {s \in ctxs : running[s]}
          /\ UNCHANGED <<cpc, pc, queueUp, queue>>
          /\ image' = WithoutDone([s \in Sessions |-> IF s \in ctxs' THEN None ELSE image[s]])
  /\ UNCHANGED <<holders, joining, reinit, disp, wp, pool, filling,
                 shutdown, running, work, held, first>>

\* The display is released, unless nobody needs another one.
DropDisplay ==
  /\ \/ queueUp /\ CaptureGoes("drop", "reopen") /\ disp' = None /\ UNCHANGED reinit
     \/ /\ ~queueUp /\ CaptureGoes("drop", "endQueue")
        /\ reinit' = (reinit /\ disp = None) /\ UNCHANGED disp
  /\ UNCHANGED <<pc, holders, joining, queueVars, wp, pool, filling, sessionVars>>

\* Opened with the configuration of the first context, whether there is one or not.
Reopen ==
  /\ \/ CaptureGoes("reopen", "reset") /\ Opened
     \/ CaptureGoes("reopen", "drop") /\ UNCHANGED <<disp, wp>>
  /\ UNCHANGED <<pc, holders, joining, queueVars, reinit, pool, filling, sessionVars>>

ResetReinit ==
  /\ CaptureGoes("reset", IF queueUp THEN "capture" ELSE "endQueue") /\ reinit' = FALSE
  /\ UNCHANGED <<pc, holders, joining, queueVars, disp, wp, pool, filling, sessionVars>>

\* Mutant: the queue stays open.
EndQueueOpen ==
  /\ CaptureGoes("endQueue", "endImages") /\ pool' = {} /\ disp' = None
  /\ UNCHANGED <<pc, holders, joining, queueVars, reinit, wp, filling, sessionVars>>
\* The images and the display go, then the fail guard runs: no new session ...
EndQueue ==
  /\ CaptureGoes("endQueue", "endImages") /\ pool' = {} /\ disp' = None
  /\ queueUp' = FALSE
  /\ UNCHANGED <<pc, holders, joining, queue, ctxs, reinit, wp, filling, sessionVars>>

\* ... and the end for those that are there.
EndImages ==
  /\ CaptureGoes("endImages", "dead") /\ ctxs' = {}
  /\ running' = [s \in Sessions |-> running[s] /\ s \notin ctxs \cup queue]
  /\ UNCHANGED <<pc, holders, joining, queueUp, queue, reinit, disp, wp, pool, filling,
                 shutdown, work, held, first>>
  /\ image' = WithoutDone(image)

(***************************************************************************)
(* The whole.                                                              *)
(***************************************************************************)
Session(s) ==
  \/ Ref(s) \/ RaiseContext(s) \/ Loop(s) \/ LookAtDisplay(s)
  \/ LockDisplay(s) \/ MakeEncoder(s) \/ Top(s) \/ Pop(s) \/ Convert(s) \/ Encode(s) \/ Idle(s)
  \/ Leave(s) \/ Joined(s) \/ StopImages(s)

CaptureThread ==
  \/ PopInitial \/ Open \/ Pull \/ NoImage \/ RaiseReinit \/ Wait \/ DropDisplay \/ Reopen
  \/ ResetReinit \/ EndQueue \/ EndImages
  \/ \E captured, asked \in BOOLEAN : Push(captured, asked)

Alive == \A s \in Sessions : pc[s] # "crashed"

Next ==
  /\ Alive
  /\ \/ CaptureThread \/ Status
     \/ \E s \in Sessions : Session(s) \/ RaiseShutdown(s)

Spec == Init /\ [][Next]_vars
FairSpec ==
  /\ Spec
  /\ WF_vars(Alive /\ CaptureThread)
  /\ \A s \in Sessions : WF_vars(Alive /\ Session(s))

(***************************************************************************)
(* Properties.                                                             *)
(***************************************************************************)
\* The image the back end writes is neither waiting for a session nor being read by
\* an encoder, whatever was trimmed, replaced, dropped or left over by an end.
ImageExclusive ==
  filling # None => \A s \in Sessions : image[s] # filling /\ work[s] # filling

\* "Wait for the other shared_ptr's of display to be destroyed": the wait for the
\* sessions comes to its end, those without a frame and those that end included.
WaitEnds == cpc = "wait" ~> cpc # "wait" \/ ~Alive

\* A session that is told to end ends, the last one with the capture thread.
SessionEnds == \A s \in Sessions : shutdown[s] ~> pc[s] = "done" \/ ~Alive

\* "Stop all sessions listening to this thread": when the capture thread is gone, the
\* images of every session are stopped, also of those it had not yet taken in.
Streaming == {"loop", "expired", "lock", "device", "top", "pop", "convert", "encode", "idle"}
NoneListensToTheDead == cpc = "dead" => \A s \in Sessions : pc[s] \in Streaming => ~running[s]

Thread == INSTANCE SharedRef WITH
  Handles <- Sessions, users <- holders,
  object <- IF joining # None THEN "ending" ELSE IF cpc = "none" THEN "down" ELSE "up"

\* The sessions share the capture thread as shared_t promises: one is started by the
\* first, and a session that comes while the last one joins it waits and starts its own
\* (video.cpp:2379, thread_safe.h:350).
CaptureIsShared == Thread!Spec

\* What NoneListensToTheDead rests on: who holds the reference, that the capture
\* thread lives as long as somebody does, and that it knows or will find everyone.
HoldersExact ==
  /\ \A s \in Sessions : s \in holders <=> pc[s] \in Streaming \cup {"raise", "leave", "crashed"}
  /\ \A s \in Sessions : pc[s] = "join" => joining = s
  /\ joining # None => holders = {}
  /\ cpc = "none" <=> holders = {} /\ joining = None

EveryoneIsKnown ==
  /\ cpc = "init" => ctxs = {}
  /\ cpc \in {"endImages", "dead"} => ~queueUp
  /\ cpc # "dead" =>
       \A s \in Sessions : pc[s] \in Streaming /\ running[s] => s \in ctxs \cup queue

TypeOK ==
  /\ pc \in [Sessions -> Streaming \cup {"ref", "raise", "leave", "join", "stop", "done", "crashed"}]
  /\ holders \subseteq Sessions /\ joining \in Sessions \cup {None}
  /\ queue \subseteq Sessions /\ ctxs \subseteq Sessions
  /\ running \in [Sessions -> BOOLEAN] /\ shutdown \in [Sessions -> BOOLEAN]
  /\ pool \subseteq Images /\ filling \in Images \cup {None}
  /\ image \in [Sessions -> Images \cup {None}] /\ work \in [Sessions -> Images \cup {None}]
  /\ held \in [Sessions -> Displays \cup {None}]
  /\ disp \in Displays \cup {None} /\ wp \in Displays \cup {None}

CaptureInv == TypeOK /\ HoldersExact /\ EveryoneIsKnown /\ NoneListensToTheDead /\ ImageExclusive

\* "Release the display before reenumerating displays, since some capture backends
\* only support a single display session" (video.cpp:1374): when the next display is
\* opened, nobody holds one.
OneDisplay == cpc = "reopen" => \A s \in Sessions : held[s] = None
=============================================================================
