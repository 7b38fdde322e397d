--------------------------- MODULE CaptureProofs ---------------------------
(***************************************************************************)
(* CaptureInv is inductive for any sessions, displays, images and size of  *)
(* the pool. The conjuncts about images (ImageExclusive) and those about   *)
(* threads (HoldersExact, EveryoneIsKnown, NoneListensToTheDead) need each *)
(* other's types only, so they are proved apart.                           *)
(***************************************************************************)
EXTENDS Capture, TLAPS

\* The steps of the sessions and of the capture thread that only move a thread along.
Moves(s) ==
  \/ Loop(s) \/ LookAtDisplay(s) \/ LockDisplay(s) \/ MakeEncoder(s) \/ Top(s) \/ Encode(s) \/ Idle(s)

\* Types.
LEMMA TypeStep == TypeOK /\ Next => TypeOK'
<1> SUFFICES ASSUME TypeOK, Next PROVE TypeOK'
  OBVIOUS
<1> USE DEF TypeOK, Goes, LetGo, Streaming
<1>0. WithoutDone(image) \in [Sessions -> Images \cup {None}]
  BY DEF WithoutDone
<1>1. ASSUME NEW s \in Sessions, Ref(s) \/ RaiseContext(s) \/ Leave(s) \/ RaiseShutdown(s) PROVE TypeOK'
  BY <1>1 DEF Ref, RaiseContext, Leave, RaiseShutdown, queueVars, captureVars, sessionVars
<1>2. ASSUME NEW s \in Sessions, Moves(s) PROVE TypeOK'
  <2>1. CASE Loop(s) \/ LookAtDisplay(s)
    BY <2>1 DEF Loop, LookAtDisplay, queueVars, captureVars, sessionVars
  <2>2. CASE LockDisplay(s)
    BY <2>2 DEF LockDisplay, queueVars, captureVars
  <2>3. CASE MakeEncoder(s) \/ Top(s) \/ Encode(s) \/ Idle(s)
    BY <2>3 DEF MakeEncoder, Top, Encode, Idle, queueVars, captureVars
  <2> QED
    BY <1>2, <2>1, <2>2, <2>3 DEF Moves
<1>3. ASSUME NEW s \in Sessions, Pop(s) \/ Convert(s) PROVE TypeOK'
  BY <1>3 DEF Pop, Convert, queueVars, captureVars
<1>4. ASSUME NEW s \in Sessions, Joined(s) \/ StopImages(s) PROVE TypeOK'
  BY <1>0, <1>4 DEF Joined, StopImages, queueVars, captureVars
<1>5. CASE PopInitial \/ NoImage \/ RaiseReinit \/ DropDisplay \/ ResetReinit \/ EndQueue \/ Status
  BY <1>5 DEF PopInitial, NoImage, RaiseReinit, DropDisplay, ResetReinit,
     EndQueue, Status, CaptureGoes, queueVars, sessionVars
<1>10. CASE Open \/ Reopen
  <2>1. Opened => disp' \in Displays /\ wp' \in Displays
    BY DEF Opened
  <2> QED
    BY <1>10, <2>1 DEF Open, Reopen, CaptureGoes, queueVars, sessionVars
<1>6. CASE Pull
  BY <1>6 DEF Pull, Unused, queueVars, sessionVars
<1>7. ASSUME NEW captured \in BOOLEAN, NEW asked \in BOOLEAN, Push(captured, asked) PROVE TypeOK'
  <2>1. image' \in [Sessions -> Images \cup {None}]
    BY <1>7 DEF Push, WithoutDone
  <2> QED
    BY <1>7, <2>1 DEF Push
<1>8. CASE Wait
  <2>1. image' \in [Sessions -> Images \cup {None}]
    BY <1>8 DEF Wait, WithoutDone
  <2> QED
    BY <1>8, <2>1 DEF Wait, queueVars
<1>9. CASE EndImages
  BY <1>0, <1>9 DEF EndImages
<1> QED
  BY <1>1, <1>2, <1>3, <1>4, <1>5, <1>6, <1>7, <1>8, <1>9, <1>10 DEF Next, Session, CaptureThread, Moves
\* Images: what the back end writes was taken from those that nobody has.
LEMMA ImagesStep == TypeOK /\ ImageExclusive /\ Next => ImageExclusive'
<1> SUFFICES ASSUME TypeOK, ImageExclusive, Next PROVE ImageExclusive'
  OBVIOUS
<1> USE DEF ImageExclusive
<1>1. CASE UNCHANGED <<filling, image, work>>
  BY <1>1
<1>2. ASSUME filling' \in {filling, None}, work' = work,
             \A s \in Sessions : image'[s] \in {image[s], None}
      PROVE  ImageExclusive'
  BY <1>2
<1>3. ASSUME NEW s \in Sessions, Pop(s) \/ Convert(s) PROVE ImageExclusive'
  BY <1>3 DEF Pop, Convert, captureVars, TypeOK
<1>4. \A s \in Sessions : WithoutDone(image)[s] \in {image[s], None}
  BY DEF WithoutDone
<1>5. ASSUME NEW s \in Sessions, Joined(s) \/ StopImages(s) PROVE ImageExclusive'
  BY <1>2, <1>4, <1>5 DEF Joined, StopImages, captureVars
<1>6. CASE Pull
  <2>1. filling' \in Images /\ filling' \notin Used
    <3>1. CASE \E i \in Unused : filling' = i
      BY <3>1 DEF Unused, TypeOK
    <3>2. CASE \E i \in Images \ Live : filling' = i
      BY <3>2, CaptureAssumption DEF Live, Images
    <3>3. ASSUME NEW fresh, fresh = {i \in Images \ Live : i[1] = IF ImagesHold THEN disp ELSE None},
                 fresh # {}, filling' = CHOOSE i \in fresh : TRUE
          PROVE  \E i \in Images \ Live : filling' = i
      BY <3>3
    <3> QED
      BY <1>6, <3>1, <3>2, <3>3 DEF Pull
  <2>2. image' = image /\ work' = work
    BY <1>6 DEF Pull, sessionVars
  <2> QED
    BY <2>1, <2>2 DEF Used
<1>7. ASSUME NEW captured \in BOOLEAN, NEW asked \in BOOLEAN, Push(captured, asked) PROVE ImageExclusive'
  BY <1>7 DEF Push
<1>8. CASE Wait
  <2>1. filling' = filling /\ work' = work /\ \A s \in Sessions : image'[s] \in {image[s], None}
    BY <1>8 DEF Wait, WithoutDone
  <2> QED
    BY <1>2, <2>1
<1>9. CASE EndImages
  BY <1>2, <1>4, <1>9 DEF EndImages
<1>10. ASSUME NEW s \in Sessions,
              Ref(s) \/ RaiseContext(s) \/ Leave(s) \/ RaiseShutdown(s) \/ Moves(s)
       PROVE  UNCHANGED <<filling, image, work>>
  BY <1>10 DEF Ref, RaiseContext, Leave, RaiseShutdown, Moves, Loop, LookAtDisplay, LockDisplay,
     MakeEncoder, Top, Encode, Idle, captureVars, sessionVars
<1>11. CASE PopInitial \/ Open \/ NoImage \/ RaiseReinit \/ DropDisplay \/ Reopen \/ ResetReinit \/ EndQueue
  BY <1>11 DEF PopInitial, Open, NoImage, RaiseReinit, DropDisplay, Reopen, ResetReinit,
     EndQueue, sessionVars
<1>12. CASE Status
  BY <1>2, <1>12 DEF Status, sessionVars
<1> QED
  BY <1>1, <1>3, <1>5, <1>6, <1>7, <1>8, <1>9, <1>10, <1>11, <1>12 DEF Next, Session, CaptureThread, Moves

\* Threads: while somebody holds the reference there is a capture thread, and until it
\* has stopped them it knows the sessions or has them in its queue.
Threads == HoldersExact /\ EveryoneIsKnown /\ NoneListensToTheDead

\* A step of a session within its loop, or of the capture thread within its own.
LEMMA ThreadsKept ==
  ASSUME TypeOK, Threads, UNCHANGED <<holders, joining, queueUp>>,
         cpc' = cpc \/ (cpc \notin {"none", "dead"} /\ cpc' \notin {"none", "init", "endImages", "dead"}),
         \A s \in Sessions :
           \/ pc'[s] = pc[s]
           \/ pc[s] \in Streaming /\ pc'[s] \in Streaming \cup {"leave", "crashed"},
         \A s \in Sessions : running'[s] => running[s],
         cpc = "init" => ctxs' = ctxs,
         \A s \in Sessions : running'[s] /\ s \in ctxs \cup queue => s \in ctxs' \cup queue'
  PROVE  Threads'
<1>1. HoldersExact'
  BY DEF Threads, HoldersExact, TypeOK, Streaming
<1>2. EveryoneIsKnown'
  BY DEF Threads, EveryoneIsKnown, TypeOK, Streaming
<1>3. NoneListensToTheDead'
  BY DEF Threads, NoneListensToTheDead, Streaming
<1> QED
  BY <1>1, <1>2, <1>3 DEF Threads

LEMMA ThreadsStep == TypeOK /\ Threads /\ Next => Threads'
<1> SUFFICES ASSUME TypeOK, Threads, Next PROVE Threads'
  OBVIOUS
<1>0. None \notin Sessions
  BY CaptureAssumption
<1>1. ASSUME NEW s \in Sessions, Ref(s) PROVE Threads'
  <2>1. CASE holders = {}
    BY <1>0, <1>1, <2>1 DEF Ref, Unlocked, Goes, Threads, HoldersExact, EveryoneIsKnown, NoneListensToTheDead,
       TypeOK, Streaming, sessionVars
  <2>2. CASE holders # {}
    BY <1>0, <1>1, <2>2 DEF Ref, Unlocked, Goes, Threads, HoldersExact, EveryoneIsKnown, NoneListensToTheDead,
       TypeOK, Streaming, sessionVars, queueVars, captureVars
  <2> QED
    BY <2>1, <2>2
<1>2. ASSUME NEW s \in Sessions, RaiseContext(s) PROVE Threads'
  BY <1>0, <1>2 DEF RaiseContext, Goes, Threads, HoldersExact, EveryoneIsKnown, NoneListensToTheDead,
     TypeOK, Streaming, sessionVars, captureVars
<1>3. ASSUME NEW s \in Sessions, Moves(s) PROVE Threads'
  <2>1. /\ UNCHANGED <<holders, joining, queueUp, queue, ctxs, cpc, running>>
        /\ \E to \in Streaming \cup {"leave", "crashed"} : pc[s] \in Streaming /\ pc' = [pc EXCEPT ![s] = to]
    BY <1>3 DEF Moves, Loop, LookAtDisplay, LockDisplay, MakeEncoder, Top, Encode, Idle, Goes, LetGo,
       Streaming, queueVars, captureVars, sessionVars
  <2>2. \A r \in Sessions : pc'[r] = pc[r] \/ (pc[r] \in Streaming /\ pc'[r] \in Streaming \cup {"leave", "crashed"})
    BY <2>1 DEF TypeOK
  <2> QED
    BY <2>1, <2>2, ThreadsKept
<1>4. ASSUME NEW s \in Sessions, Pop(s) \/ Convert(s) PROVE Threads'
  <2>1. /\ UNCHANGED <<holders, joining, queueUp, queue, ctxs, cpc, running>>
        /\ \E to \in Streaming : pc[s] \in Streaming /\ pc' = [pc EXCEPT ![s] = to]
    BY <1>4 DEF Pop, Convert, Goes, LetGo, Streaming, queueVars, captureVars
  <2>2. \A r \in Sessions : pc'[r] = pc[r] \/ (pc[r] \in Streaming /\ pc'[r] \in Streaming \cup {"leave", "crashed"})
    BY <2>1 DEF TypeOK
  <2> QED
    BY <2>1, <2>2, ThreadsKept
<1>5. ASSUME NEW s \in Sessions, Leave(s) PROVE Threads'
  BY <1>0, <1>5 DEF Leave, Goes, Threads, HoldersExact, EveryoneIsKnown, NoneListensToTheDead,
     TypeOK, Streaming, sessionVars, captureVars
<1>6. ASSUME NEW s \in Sessions, Joined(s) PROVE Threads'
  BY <1>0, <1>6 DEF Joined, Goes, Threads, HoldersExact, EveryoneIsKnown, NoneListensToTheDead,
     TypeOK, Streaming
<1>7. ASSUME NEW s \in Sessions, StopImages(s) PROVE Threads'
  BY <1>0, <1>7 DEF StopImages, Goes, Threads, HoldersExact, EveryoneIsKnown, NoneListensToTheDead,
     TypeOK, Streaming, queueVars, captureVars
<1>8. ASSUME NEW s \in Sessions, RaiseShutdown(s) PROVE Threads'
  BY <1>8, ThreadsKept DEF RaiseShutdown, queueVars, captureVars
<1>9. CASE PopInitial
  BY <1>9 DEF PopInitial, CaptureGoes, Threads, HoldersExact, EveryoneIsKnown, NoneListensToTheDead,
     TypeOK, sessionVars
<1>10. CASE Open \/ Pull \/ NoImage \/ RaiseReinit \/ DropDisplay \/ Reopen \/ ResetReinit \/ Status
  <2>1. /\ UNCHANGED <<holders, joining, queueUp, queue, ctxs, pc, running>>
        /\ cpc \notin {"none", "dead", "init"}
        /\ cpc' \notin {"none", "init", "endImages", "dead"}
    BY <1>10 DEF Open, Pull, NoImage, RaiseReinit, DropDisplay, Reopen, ResetReinit, Status,
       CaptureGoes, queueVars, sessionVars
  <2> QED
    BY <2>1, ThreadsKept
<1>11. ASSUME NEW captured \in BOOLEAN, NEW asked \in BOOLEAN, Push(captured, asked) PROVE Threads'
  <2>1. /\ UNCHANGED <<holders, joining, queueUp, pc, running>> /\ cpc = "capture"
        /\ cpc' \in {"capture", "reinit", "endQueue"}
        /\ \A s \in Sessions : running[s] /\ s \in ctxs \cup queue => s \in ctxs' \cup queue'
    BY <1>11 DEF Push
  <2> QED
    BY <2>1, ThreadsKept
<1>12. CASE Wait
  <2>1. /\ UNCHANGED <<holders, joining, queueUp, pc, running>> /\ cpc = "wait"
        /\ cpc' \in {"wait", "drop"}
        /\ \A s \in Sessions : running[s] /\ s \in ctxs \cup queue => s \in ctxs' \cup queue'
    BY <1>12 DEF Wait, queueVars
  <2> QED
    BY <2>1, ThreadsKept
<1>13. CASE EndQueue
  BY <1>13 DEF EndQueue, CaptureGoes, Threads, HoldersExact, EveryoneIsKnown, NoneListensToTheDead,
     sessionVars
<1>14. CASE EndImages
  BY <1>14 DEF EndImages, CaptureGoes, Threads, HoldersExact, EveryoneIsKnown, NoneListensToTheDead
<1> QED
  BY <1>1, <1>2, <1>3, <1>4, <1>5, <1>6, <1>7, <1>8, <1>9, <1>10, <1>11, <1>12, <1>13, <1>14
  DEF Next, Session, CaptureThread, Moves

LEMMA InitInv == Init => CaptureInv
BY CaptureAssumption
DEF Init, CaptureInv, TypeOK, HoldersExact, EveryoneIsKnown, NoneListensToTheDead, ImageExclusive, Streaming

LEMMA StepInv == CaptureInv /\ [Next]_vars => CaptureInv'
<1> SUFFICES ASSUME CaptureInv, [Next]_vars PROVE CaptureInv'
  OBVIOUS
<1>1. CASE Next
  BY <1>1, TypeStep, ImagesStep, ThreadsStep DEF CaptureInv, Threads
<1>2. CASE UNCHANGED vars
  BY <1>2 DEF vars, queueVars, captureVars, sessionVars, CaptureInv, TypeOK, HoldersExact,
     EveryoneIsKnown, NoneListensToTheDead, ImageExclusive
<1> QED
  BY <1>1, <1>2

\* CaptureInv holds in every state of every behaviour, for any number of sessions that
\* come and go, displays that are opened again and images that are shared.
THEOREM CaptureInvariance == Spec => []CaptureInv
<1>1. Init => CaptureInv
  BY InitInv
<1>2. CaptureInv /\ [Next]_vars => CaptureInv'
  BY StepInv
<1> QED
  BY <1>1, <1>2, PTL DEF Spec

\* The image the back end writes is nobody else's (captureThread, use_count() == 1).
THEOREM ImagesExclusive == Spec => []ImageExclusive
<1>1. CaptureInv => ImageExclusive
  BY DEF CaptureInv
<1> QED
  BY <1>1, CaptureInvariance, PTL

\* No session waits for the images of a capture thread that is gone (the fail guard of
\* captureThread against capture_async).
THEOREM DeadIsNoticed == Spec => []NoneListensToTheDead
<1>1. CaptureInv => NoneListensToTheDead
  BY DEF CaptureInv
<1> QED
  BY <1>1, CaptureInvariance, PTL

(***************************************************************************)
(* CaptureIsShared: what shared_t promises. Ref, Leave and Joined are the  *)
(* steps of SharedRef; no other step moves holders, joining, or cpc from   *)
(* or to "none".                                                           *)
(***************************************************************************)

\* The reference count of the capture thread, as SharedRef names it.
Object == IF joining # None THEN "ending" ELSE IF cpc = "none" THEN "down" ELSE "up"

\* A thread exists exactly while a session holds a reference or waits for its end.
LEMMA ObjectFacts ==
  ASSUME CaptureInv
  PROVE  /\ joining = None => Object = IF holders = {} THEN "down" ELSE "up"
         /\ joining # None => Object = "ending" /\ holders = {}
BY DEF CaptureInv, HoldersExact, Object

\* Every step is one of SharedRef, or keeps the references and the state of the thread.
LEMMA SharedStep ==
  ASSUME CaptureInv, Next
  PROVE  Thread!Next \/ UNCHANGED <<holders, Object>>
<1>0. None \notin Sessions
  BY CaptureAssumption
<1>1. ASSUME NEW s \in Sessions, Ref(s) PROVE Thread!Next
  <2>1. s \notin holders /\ joining = None /\ joining' = None /\ holders' = holders \cup {s}
    BY <1>1 DEF Ref, Goes, Unlocked, CaptureInv, HoldersExact, Streaming
  <2>2. cpc' # "none"
    BY <1>1, <2>1 DEF Ref, captureVars, CaptureInv, HoldersExact
  <2>3. Thread!Acquire(s)
    BY <2>1, <2>2, ObjectFacts DEF Thread!Acquire, Object
  <2>4. QED
    BY <2>1, <2>3 DEF Thread!Next
<1>2. ASSUME NEW s \in Sessions, Leave(s) PROVE Thread!Next
  <2>1. s \in holders /\ joining = None /\ cpc' = cpc /\ cpc # "none" /\ holders' = holders \ {s}
    BY <1>2 DEF Leave, Goes, captureVars, CaptureInv, HoldersExact
  <2>2. joining' = IF holders' = {} THEN s ELSE None
    BY <1>2, <2>1 DEF Leave
  <2>3. Thread!Release(s)
    BY <1>0, <2>1, <2>2 DEF Thread!Release
  <2>4. QED
    BY <2>1, <2>3 DEF Thread!Next
<1>3. ASSUME NEW s \in Sessions, Joined(s) PROVE Thread!Next
  <2>1. joining # None /\ joining' = None /\ cpc' = "none" /\ holders' = holders
    BY <1>0, <1>3 DEF Joined, Goes, CaptureInv, HoldersExact
  <2>2. QED
    BY <2>1 DEF Thread!Next, Thread!Destroyed
<1>4. ASSUME NEW s \in Sessions,
             RaiseContext(s) \/ Moves(s) \/ Pop(s) \/ Convert(s) \/ StopImages(s) \/ RaiseShutdown(s)
      PROVE  UNCHANGED <<holders, Object>>
  BY <1>4 DEF RaiseContext, Moves, Loop, LookAtDisplay, LockDisplay, MakeEncoder, Top, Encode, Idle, Pop,
     Convert, StopImages, RaiseShutdown, captureVars, Object
<1>5. CASE CaptureThread \/ Status
  <2>1. UNCHANGED <<holders, joining>> /\ cpc # "none" /\ cpc' # "none"
    BY <1>5 DEF CaptureThread, PopInitial, Open, Pull, NoImage, RaiseReinit, Wait, DropDisplay, Reopen,
       ResetReinit, EndQueue, EndImages, Push, Status, CaptureGoes
  <2>2. QED
    BY <2>1 DEF Object
<1>6. QED
  BY <1>1, <1>2, <1>3, <1>4, <1>5 DEF Next, Session, Moves

\* The sessions share the capture thread as SharedRef says (video.cpp:2379,
\* thread_safe.h:350): nobody starts a second one beside it or finds one that ends.
THEOREM SharedCapture == Spec => CaptureIsShared
<1>1. Init => Thread!Init
  BY DEF Init, Thread!Init
<1>2. CaptureInv /\ [Next]_vars => [Thread!Next]_<<holders, Object>>
  <2>1. UNCHANGED vars => UNCHANGED <<holders, Object>>
    BY DEF vars, captureVars, Object
  <2>2. QED
    BY <2>1, SharedStep
<1>3. QED
  BY <1>1, <1>2, CaptureInvariance, PTL DEF Spec, CaptureIsShared, Thread!Spec, Object
=============================================================================
