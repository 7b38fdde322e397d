------------------------ MODULE StreamSessionProofs ------------------------
(***************************************************************************)
(* Proofs about StreamSession, for every number of sessions and HTTP       *)
(* threads and every behaviour of the surroundings: IInv is inductive, and *)
(* type correctness, the exactness of the reference count and of the       *)
(* counter of sessions, the quiet destruction of sessions, the finality of *)
(* stop and the two properties of broadcast_shutdown follow from it.       *)
(*                                                                         *)
(* The callbacks of the platform (CallbacksPaired) and the list of the     *)
(* control thread (ListedAreAlive) have invariants of their own over IInv, *)
(* and hold only for the surroundings their theorems name.                 *)
(*                                                                         *)
(* One lemma per action, one step per conjunct of IInv.                    *)
(***************************************************************************)
EXTENDS StreamSession, FiniteSetTheorems, TLAPS

USE DEF Threads, Holders

(***************************************************************************)
(* Facts about the constants and helpers.                                  *)
(***************************************************************************)

\* The names of the model are told apart; the counter has a width.
LEMMA Distinct ==
  /\ NoSession \notin Sessions
  /\ "video" \in Kinds /\ "session" \notin Kinds
  /\ Nobody \notin Threads /\ "rtsp" \notin HttpThreads /\ "main" \notin HttpThreads
  /\ CounterMod \in Nat \ {0}
  BY StreamAssumption DEF StreamAssumption

USE Distinct

\* The unsigned counter of running sessions stays within its width.
LEMMA RunningRange ==
  ASSUME NEW n \in 0 .. CounterMod - 1
  PROVE  /\ (n + 1) % CounterMod \in 0 .. CounterMod - 1
         /\ (n - 1) % CounterMod \in 0 .. CounterMod - 1
  BY StreamAssumption DEF StreamAssumption

\* The steps of a thread.
Labels == {"idle", "iterate", "tick", "lock", "ref", "push", "remove", "arm", "video", "run",
           "inc", "first", "started", "scan", "join", "last", "erase", "release",
           "ending", "cas", "raise", "drop", "stopped", "aborted"}

\* A step changes the state of sessions only from RUNNING to STOPPING.
OnlyStops ==
  \A x \in Sessions : state'[x] = state[x] \/ (state[x] = "RUNNING" /\ state'[x] = "STOPPING")

\* session::stop does nothing but stop.
LEMMA StopFacts ==
  ASSUME TypeOK, NEW s \in Sessions, Stop(s)
  PROVE  /\ state' \in [Sessions -> {"STOPPED", "STOPPING", "RUNNING"}]
         /\ shutdownEv' \in [Sessions -> BOOLEAN]
         /\ OnlyStops
<1>1. CASE state[s] = "RUNNING"
  <2>1. /\ state \in [Sessions -> {"STOPPED", "STOPPING", "RUNNING"}]
        /\ shutdownEv \in [Sessions -> BOOLEAN]
    BY DEF TypeOK
  <2>2. state' = [state EXCEPT ![s] = "STOPPING"] /\ shutdownEv' = [shutdownEv EXCEPT ![s] = TRUE]
    BY <1>1 DEF Stop
  <2>3. QED
    BY <1>1, <2>1, <2>2 DEF OnlyStops
<1>2. CASE state[s] # "RUNNING"
  BY <1>2 DEF Stop, TypeOK, OnlyStops
<1>3. QED
  BY <1>1, <1>2

\* A thread inside of an operation works on a session.
LEMMA CurSession ==
  ASSUME IInv, NEW t \in Threads, pc[t] \notin RestPcs \cup {"scan", "ending"}
  PROVE  cur[t] \in Sessions
  BY DEF IInv, PcInv

\* StateInv survives a step that only stops sessions and does not touch ANNOUNCE.
LEMMA StateInvFrame ==
  ASSUME IInv, OnlyStops, life' = life,
         pc'["rtsp"] \in Unstarted \cup {"run"} =>
           pc["rtsp"] \in Unstarted \cup {"run"} /\ cur'["rtsp"] = cur["rtsp"]
  PROVE  StateInv'
<1>1. ASSUME NEW s \in Sessions, state[s] = "STOPPED"
      PROVE  state'[s] = "STOPPED"
  BY <1>1 DEF OnlyStops
<1>2. pc["rtsp"] \in Unstarted \cup {"run"} => cur["rtsp"] \in Sessions
  BY CurSession DEF Unstarted, RestPcs
<1>3. QED
  BY <1>1, <1>2 DEF IInv, StateInv

\* RefInv survives a step that only stops sessions and takes them out of the slots.
LEMMA RefInvFrame ==
  ASSUME TypeOK, RefInv, OnlyStops, av' = av, refs' = refs, life' = life, slots' \subseteq slots,
         pc["rtsp"] \in AnnouncePcs \/ pc'["rtsp"] \in AnnouncePcs =>
           pc'["rtsp"] = pc["rtsp"] /\ cur'["rtsp"] = cur["rtsp"]
  PROVE  RefInv'
<1>1. pc'["rtsp"] \in {"ref", "remove"} <=> pc["rtsp"] \in {"ref", "remove"}
  BY DEF AnnouncePcs
<1>2. pc'["rtsp"] \in {"ref", "remove"} => <<cur'["rtsp"], "session">> \notin refs'
  BY <1>1 DEF RefInv, AnnouncePcs
<1>3. pc'["rtsp"] \in AnnouncePcs \ {"ref", "remove"} => <<cur'["rtsp"], "session">> \in refs'
  BY DEF RefInv
<1>4. ASSUME NEW s \in slots'
      PROVE  <<s, "session">> \in refs' \/ (pc'["rtsp"] \in {"ref", "remove"} /\ cur'["rtsp"] = s)
  BY <1>1 DEF RefInv, AnnouncePcs
<1>5. ASSUME NEW s \in Sessions, state'[s] = "RUNNING"
      PROVE  <<s, "session">> \in refs' \/ life'[s] = "freed"
  <2>1. state[s] = "RUNNING"
    BY <1>5 DEF OnlyStops
  <2>2. QED
    BY <2>1 DEF RefInv
<1>6. QED
  BY <1>2, <1>3, <1>4, <1>5 DEF RefInv

(***************************************************************************)
(* The steps.                                                              *)
(***************************************************************************)

LEMMA RtspTimeoutStep ==
  ASSUME IInv, RtspTimeout
  PROVE  IInv'
<1> USE DEF RtspTimeout, Goto, sessionVars, refVars, ctlVars, slotVars, countVars, envVars
<1>1. TypeOK' BY DEF IInv, TypeOK
<1>2. PcInv' BY DEF IInv, TypeOK, PcInv, AnnouncePcs, ClearPcs, StopPcs, RestPcs
<1>3. LockInv' BY DEF IInv, TypeOK, LockInv
<1>4. LifeInv' BY DEF IInv, TypeOK, LifeInv
<1>5. AvInv' BY DEF IInv, TypeOK, AvInv, Unstarted
<1>6. StateInv' BY DEF IInv, TypeOK, StateInv, Unstarted
<1>7. RefInv' BY DEF IInv, TypeOK, RefInv, AnnouncePcs
<1>8. CountInv' BY DEF IInv, TypeOK, CountInv
<1>9. QED
  BY <1>1, <1>2, <1>3, <1>4, <1>5, <1>6, <1>7, <1>8 DEF IInv

LEMMA RtspPeekStep ==
  ASSUME IInv, RtspPeek
  PROVE  IInv'
<1> USE DEF RtspPeek, Goto, sessionVars, refVars, ctlVars, slotVars, countVars, envVars
<1>1. TypeOK' BY DEF IInv, TypeOK
<1>2. PcInv' BY DEF IInv, TypeOK, PcInv, AnnouncePcs, ClearPcs, StopPcs, RestPcs
<1>3. LockInv' BY DEF IInv, TypeOK, LockInv
<1>4. LifeInv' BY DEF IInv, TypeOK, LifeInv
<1>5. AvInv' BY DEF IInv, TypeOK, AvInv, Unstarted
<1>6. StateInv' BY DEF IInv, TypeOK, StateInv, Unstarted
<1>7. RefInv' BY DEF IInv, TypeOK, RefInv, AnnouncePcs
<1>8. CountInv'
  <2>1. bshut => slots = {}
    BY DEF IInv, RefInv, CountInv
  <2>2. QED
    BY <2>1 DEF IInv, TypeOK, PcInv, CountInv, RestPcs
<1>9. QED
  BY <1>1, <1>2, <1>3, <1>4, <1>5, <1>6, <1>7, <1>8 DEF IInv

LEMMA AnnounceStep ==
  ASSUME IInv, NEW s \in Sessions, Announce(s)
  PROVE  IInv'
<1> USE DEF Announce, Goto, refVars, ctlVars, countVars, envVars
<1>1. TypeOK' BY DEF IInv, TypeOK
<1>2. PcInv' BY DEF IInv, TypeOK, PcInv, AnnouncePcs, ClearPcs, StopPcs, RestPcs
<1>3. LockInv' BY DEF IInv, TypeOK, LockInv
<1>4. LifeInv' BY DEF IInv, TypeOK, LifeInv
<1>5. AvInv' BY DEF IInv, TypeOK, AvInv, Unstarted
<1>6. StateInv' BY DEF IInv, TypeOK, StateInv, Unstarted
<1>7. RefInv' BY DEF IInv, TypeOK, RefInv, AnnouncePcs
<1>8. CountInv' BY DEF IInv, TypeOK, CountInv
<1>9. QED
  BY <1>1, <1>2, <1>3, <1>4, <1>5, <1>6, <1>7, <1>8 DEF IInv

LEMMA StartRefStep ==
  ASSUME IInv, StartRef
  PROVE  IInv'
<1> USE DEF StartRef, TakeRef, Goto, sessionVars, slotVars, countVars, envVars
<1>1. TypeOK'
  <2>1. pc' \in [Threads -> Labels] /\ count' \in Nat
    BY DEF IInv, TypeOK, Labels
  <2>2. refs' \subseteq Sessions \X Holders
    <3>1. cur["rtsp"] \in Sessions
      BY CurSession DEF RestPcs
    <3>2. <<cur["rtsp"], "session">> \in Sessions \X Holders
      BY <3>1
    <3>3. refs' \subseteq refs \cup {<<cur["rtsp"], "session">>}
      OBVIOUS
    <3>4. refs \subseteq Sessions \X Holders
      BY DEF IInv, TypeOK
    <3> HIDE DEF StartRef, TakeRef, Goto, Holders
    <3>5. QED
      BY <3>2, <3>3, <3>4
  <2>3. ctx' \in {"down", "up", "ending"} /\ cpc' \in {"none", "top", "sweep", "decide", "exit", "done"}
    BY DEF IInv, TypeOK
  <2>4. UNCHANGED <<sessionVars, av, bshut, sessions, ctodo, awaiting, slotVars, op, cur, all, todo,
                    countVars, envVars>>
    OBVIOUS
  <2> HIDE DEF StartRef, TakeRef, Goto
  <2>5. QED
    BY <2>1, <2>2, <2>3, <2>4 DEF IInv, TypeOK, Labels
<1>2. PcInv' BY DEF IInv, TypeOK, PcInv, AnnouncePcs, ClearPcs, StopPcs, RestPcs
<1>3. LockInv' BY DEF IInv, TypeOK, LockInv
<1>4. LifeInv' BY DEF IInv, TypeOK, LifeInv
<1>5. AvInv' BY DEF IInv, TypeOK, AvInv, Unstarted
<1>6. StateInv' BY DEF IInv, TypeOK, StateInv, Unstarted
<1>7. RefInv' BY DEF IInv, TypeOK, LifeInv, RefInv, AnnouncePcs
<1>8. CountInv'
  <2>1. IsFiniteSet(refs') /\ count' = Cardinality(refs')
    BY FS_AddElement DEF IInv, RefInv, CountInv
  <2>2. (ctx = "up" <=> refs # {})' /\ (bshut <=> ctx = "ending")'
    BY FS_EmptySet DEF IInv, RefInv, CountInv
  <2>3. QED
    BY <2>1, <2>2 DEF IInv, TypeOK, PcInv, CountInv, RestPcs, AnnouncePcs
<1>9. QED
  BY <1>1, <1>2, <1>3, <1>4, <1>5, <1>6, <1>7, <1>8 DEF IInv

LEMMA StartFailedStep ==
  ASSUME IInv, StartFailed
  PROVE  IInv'
<1> USE DEF StartFailed, Drop, Keeps, Return, Goto, sessionVars, refVars, ctlVars, countVars,
    envVars
<1>1. TypeOK' BY DEF IInv, TypeOK
<1>2. PcInv' BY DEF IInv, TypeOK, PcInv, AnnouncePcs, ClearPcs, StopPcs, RestPcs
<1>3. LockInv' BY DEF IInv, TypeOK, PcInv, LockInv, RestPcs, ClearPcs
<1>4. LifeInv' BY DEF IInv, TypeOK, PcInv, LockInv, LifeInv, RestPcs, ClearPcs, AnnouncePcs,
      StopPcs
<1>5. AvInv' BY DEF IInv, TypeOK, AvInv, Unstarted
<1>6. StateInv' BY DEF IInv, TypeOK, StateInv, Unstarted
<1>7. RefInv' BY DEF IInv, TypeOK, RefInv, AnnouncePcs
<1>8. CountInv' BY DEF IInv, TypeOK, CountInv
<1>9. QED
  BY <1>1, <1>2, <1>3, <1>4, <1>5, <1>6, <1>7, <1>8 DEF IInv

LEMMA StartPushStep ==
  ASSUME IInv, StartPush
  PROVE  IInv'
<1> USE DEF StartPush, SessionsLocked, Goto, sessionVars, refVars, slotVars, countVars,
    envVars
<1>1. TypeOK' BY DEF IInv, TypeOK, PcInv, RestPcs
<1>2. PcInv' BY DEF IInv, TypeOK, PcInv, AnnouncePcs, ClearPcs, StopPcs, RestPcs
<1>3. LockInv' BY DEF IInv, TypeOK, LockInv
<1>4. LifeInv' BY DEF IInv, TypeOK, LifeInv
<1>5. AvInv' BY DEF IInv, TypeOK, AvInv, Unstarted
<1>6. StateInv' BY DEF IInv, TypeOK, StateInv, Unstarted
<1>7. RefInv' BY DEF IInv, TypeOK, RefInv, AnnouncePcs
<1>8. CountInv' BY DEF IInv, TypeOK, CountInv
<1>9. QED
  BY <1>1, <1>2, <1>3, <1>4, <1>5, <1>6, <1>7, <1>8 DEF IInv

LEMMA StartThreadsStep ==
  ASSUME IInv, StartThreads
  PROVE  IInv'
<1> USE DEF StartThreads, StartThread, Goto, sessionVars, refVars, ctlVars, slotVars,
    countVars, envVars
<1>1. TypeOK'
  <2>1. cur["rtsp"] \in Sessions
    BY CurSession DEF RestPcs
  <2>2. CASE StartThread("audio", "arm", "video")
    <3>1. av' \in [Sessions -> [Kinds -> {"none", "start", "ping", "capture", "done"}]]
      BY <2>1, <2>2 DEF IInv, TypeOK
    <3>2. QED
      BY <2>2, <3>1 DEF IInv, TypeOK
  <2>3. CASE StartThread("video", "video", "run")
    <3>1. av' \in [Sessions -> [Kinds -> {"none", "start", "ping", "capture", "done"}]]
      BY <2>1, <2>3 DEF IInv, TypeOK
    <3>2. QED
      BY <2>3, <3>1 DEF IInv, TypeOK
  <2>4. QED
    BY <2>2, <2>3
<1>2. PcInv' BY DEF IInv, TypeOK, PcInv, AnnouncePcs, ClearPcs, StopPcs, RestPcs
<1>3. LockInv' BY DEF IInv, TypeOK, LockInv
<1>4. LifeInv' BY DEF IInv, TypeOK, LifeInv
<1>5. AvInv'
  <2>1. CASE StartThread("audio", "arm", "video")
    BY <2>1 DEF IInv, TypeOK, PcInv, LifeInv, LockInv, AvInv, Unstarted, RestPcs, AnnouncePcs, ClearPcs
  <2>2. CASE StartThread("video", "video", "run")
    BY <2>2 DEF IInv, TypeOK, PcInv, LifeInv, LockInv, AvInv, Unstarted, RestPcs, AnnouncePcs, ClearPcs
  <2>3. QED
    BY <2>1, <2>2
<1>6. StateInv' BY DEF IInv, TypeOK, StateInv, Unstarted
<1>7. RefInv'
  <2>1. CASE StartThread("audio", "arm", "video")
    BY <2>1 DEF IInv, TypeOK, RefInv, AvInv, Unstarted, AnnouncePcs
  <2>2. CASE StartThread("video", "video", "run")
    BY <2>2 DEF IInv, TypeOK, RefInv, AvInv, Unstarted, AnnouncePcs
  <2>3. QED
    BY <2>1, <2>2
<1>8. CountInv' BY DEF IInv, TypeOK, CountInv
<1>9. QED
  BY <1>1, <1>2, <1>3, <1>4, <1>5, <1>6, <1>7, <1>8 DEF IInv

LEMMA StartRunningStep ==
  ASSUME IInv, StartRunning
  PROVE  IInv'
<1> USE DEF StartRunning, Goto, refVars, ctlVars, slotVars, countVars, envVars
<1>1. TypeOK' BY DEF IInv, TypeOK, PcInv, RestPcs
<1>2. PcInv' BY DEF IInv, TypeOK, PcInv, AnnouncePcs, ClearPcs, StopPcs, RestPcs
<1>3. LockInv' BY DEF IInv, TypeOK, LockInv
<1>4. LifeInv' BY DEF IInv, TypeOK, LifeInv
<1>5. AvInv' BY DEF IInv, TypeOK, AvInv, Unstarted
<1>6. StateInv'
  <2>1. cur["rtsp"] \in Sessions /\ life[cur["rtsp"]] = "alive"
    BY CurSession DEF IInv, LifeInv, RestPcs
  <2>2. ASSUME NEW s \in Sessions, life'[s] = "fresh"
        PROVE  state'[s] = "STOPPED"
    BY <2>1, <2>2 DEF IInv, TypeOK, StateInv
  <2>3. pc'["rtsp"] = "inc"
    BY DEF IInv, TypeOK
  <2>4. QED
    BY <2>2, <2>3 DEF StateInv, Unstarted
<1>7. RefInv'
  <2>1. cur["rtsp"] \in Sessions
    BY CurSession DEF RestPcs
  <2>2. <<cur["rtsp"], "session">> \in refs
    BY DEF IInv, RefInv, AnnouncePcs
  <2>3. \A s \in Sessions : state'[s] = "RUNNING" => state[s] = "RUNNING" \/ s = cur["rtsp"]
    BY DEF IInv, TypeOK
  <2>4. QED
    BY <2>1, <2>2, <2>3 DEF IInv, TypeOK, RefInv, AnnouncePcs
<1>8. CountInv' BY DEF IInv, TypeOK, CountInv
<1>9. QED
  BY <1>1, <1>2, <1>3, <1>4, <1>5, <1>6, <1>7, <1>8 DEF IInv

LEMMA StartCountStep ==
  ASSUME IInv, StartCount
  PROVE  IInv'
<1> USE DEF StartCount, Goto, sessionVars, refVars, ctlVars, slotVars, envVars
<1>1. TypeOK'
  BY RunningRange DEF IInv, TypeOK
<1>2. PcInv' BY DEF IInv, TypeOK, PcInv, AnnouncePcs, ClearPcs, StopPcs, RestPcs
<1>3. LockInv' BY DEF IInv, TypeOK, LockInv
<1>4. LifeInv' BY DEF IInv, TypeOK, LifeInv
<1>5. AvInv' BY DEF IInv, TypeOK, AvInv, Unstarted
<1>6. StateInv' BY DEF IInv, TypeOK, StateInv, Unstarted
<1>7. RefInv' BY DEF IInv, TypeOK, RefInv, AnnouncePcs
<1>8. CountInv' BY DEF IInv, TypeOK, CountInv
<1>9. QED
  BY <1>1, <1>2, <1>3, <1>4, <1>5, <1>6, <1>7, <1>8 DEF IInv

LEMMA StartFirstStep ==
  ASSUME IInv, StartFirst
  PROVE  IInv'
<1> USE DEF StartFirst, Goto, sessionVars, refVars, ctlVars, slotVars, envVars
<1>1. TypeOK' BY DEF IInv, TypeOK
<1>2. PcInv' BY DEF IInv, TypeOK, PcInv, AnnouncePcs, ClearPcs, StopPcs, RestPcs
<1>3. LockInv' BY DEF IInv, TypeOK, LockInv
<1>4. LifeInv' BY DEF IInv, TypeOK, LifeInv
<1>5. AvInv' BY DEF IInv, TypeOK, AvInv, Unstarted
<1>6. StateInv' BY DEF IInv, TypeOK, StateInv, Unstarted
<1>7. RefInv' BY DEF IInv, TypeOK, RefInv, AnnouncePcs
<1>8. CountInv' BY DEF IInv, TypeOK, CountInv
<1>9. QED
  BY <1>1, <1>2, <1>3, <1>4, <1>5, <1>6, <1>7, <1>8 DEF IInv

LEMMA AnnounceReturnStep ==
  ASSUME IInv, AnnounceReturn
  PROVE  IInv'
<1> USE DEF AnnounceReturn, slotVars, Drop, Keeps, Return, Goto, sessionVars, refVars,
    ctlVars, countVars, envVars
<1>1. TypeOK' BY DEF IInv, TypeOK
<1>2. PcInv' BY DEF IInv, TypeOK, PcInv, AnnouncePcs, ClearPcs, StopPcs, RestPcs
<1>3. LockInv' BY DEF IInv, TypeOK, LockInv
<1>4. LifeInv' BY DEF IInv, TypeOK, PcInv, LockInv, LifeInv, RestPcs, ClearPcs, AnnouncePcs,
      StopPcs
<1>5. AvInv' BY DEF IInv, TypeOK, AvInv, Unstarted
<1>6. StateInv' BY DEF IInv, TypeOK, StateInv, Unstarted
<1>7. RefInv' BY DEF IInv, TypeOK, RefInv, AnnouncePcs
<1>8. CountInv' BY DEF IInv, TypeOK, CountInv
<1>9. QED
  BY <1>1, <1>2, <1>3, <1>4, <1>5, <1>6, <1>7, <1>8 DEF IInv

LEMMA RtspClearStep ==
  ASSUME IInv, RtspClear
  PROVE  IInv'
<1> USE DEF RtspClear, ClearLock, Goto, sessionVars, refVars, ctlVars, countVars, envVars
<1>1. TypeOK' BY DEF IInv, TypeOK
<1>2. PcInv' BY DEF IInv, TypeOK, PcInv, AnnouncePcs, ClearPcs, StopPcs, RestPcs
<1>3. LockInv' BY DEF IInv, TypeOK, LockInv
<1>4. LifeInv' BY DEF IInv, TypeOK, LifeInv
<1>5. AvInv' BY DEF IInv, TypeOK, AvInv, Unstarted
<1>6. StateInv' BY DEF IInv, TypeOK, StateInv, Unstarted
<1>7. RefInv' BY DEF IInv, TypeOK, RefInv, AnnouncePcs
<1>8. CountInv' BY DEF IInv, TypeOK, CountInv
<1>9. QED
  BY <1>1, <1>2, <1>3, <1>4, <1>5, <1>6, <1>7, <1>8 DEF IInv

LEMMA RtspFinalStep ==
  ASSUME IInv, RtspFinal
  PROVE  IInv'
<1> USE DEF RtspFinal, ClearLock, Goto, sessionVars, refVars, ctlVars, countVars, envVars
<1>1. TypeOK' BY DEF IInv, TypeOK
<1>2. PcInv' BY DEF IInv, TypeOK, PcInv, AnnouncePcs, ClearPcs, StopPcs, RestPcs
<1>3. LockInv' BY DEF IInv, TypeOK, LockInv
<1>4. LifeInv' BY DEF IInv, TypeOK, LifeInv
<1>5. AvInv' BY DEF IInv, TypeOK, AvInv, Unstarted
<1>6. StateInv' BY DEF IInv, TypeOK, StateInv, Unstarted
<1>7. RefInv' BY DEF IInv, TypeOK, RefInv, AnnouncePcs
<1>8. CountInv' BY DEF IInv, TypeOK, CountInv
<1>9. QED
  BY <1>1, <1>2, <1>3, <1>4, <1>5, <1>6, <1>7, <1>8 DEF IInv

LEMMA MainStopStep ==
  ASSUME IInv, MainStop
  PROVE  IInv'
<1> USE DEF MainStop, ClearLock, Goto, sessionVars, refVars, ctlVars, countVars, envVars
<1>1. TypeOK' BY DEF IInv, TypeOK
<1>2. PcInv' BY DEF IInv, TypeOK, PcInv, AnnouncePcs, ClearPcs, StopPcs, RestPcs
<1>3. LockInv' BY DEF IInv, TypeOK, LockInv
<1>4. LifeInv' BY DEF IInv, TypeOK, LifeInv
<1>5. AvInv' BY DEF IInv, TypeOK, AvInv, Unstarted
<1>6. StateInv' BY DEF IInv, TypeOK, StateInv, Unstarted
<1>7. RefInv' BY DEF IInv, TypeOK, RefInv, AnnouncePcs
<1>8. CountInv' BY DEF IInv, TypeOK, CountInv
<1>9. QED
  BY <1>1, <1>2, <1>3, <1>4, <1>5, <1>6, <1>7, <1>8 DEF IInv

LEMMA HttpCountStep ==
  ASSUME IInv, NEW t \in HttpThreads, HttpCount(t)
  PROVE  IInv'
<1> USE DEF HttpCount, ClearLock, Goto, sessionVars, refVars, ctlVars, countVars, envVars
<1>1. TypeOK' BY DEF IInv, TypeOK
<1>2. PcInv' BY DEF IInv, TypeOK, PcInv, AnnouncePcs, ClearPcs, StopPcs, RestPcs
<1>3. LockInv' BY DEF IInv, TypeOK, LockInv
<1>4. LifeInv' BY DEF IInv, TypeOK, LifeInv
<1>5. AvInv' BY DEF IInv, TypeOK, AvInv, Unstarted
<1>6. StateInv' BY DEF IInv, TypeOK, StateInv, Unstarted
<1>7. RefInv' BY DEF IInv, TypeOK, RefInv, AnnouncePcs
<1>8. CountInv' BY DEF IInv, TypeOK, CountInv
<1>9. QED
  BY <1>1, <1>2, <1>3, <1>4, <1>5, <1>6, <1>7, <1>8 DEF IInv

LEMMA HttpCancelStep ==
  ASSUME IInv, NEW t \in HttpThreads, HttpCancel(t)
  PROVE  IInv'
<1> USE DEF HttpCancel, ClearLock, Goto, sessionVars, refVars, ctlVars, countVars, envVars
<1>1. TypeOK' BY DEF IInv, TypeOK
<1>2. PcInv' BY DEF IInv, TypeOK, PcInv, AnnouncePcs, ClearPcs, StopPcs, RestPcs
<1>3. LockInv' BY DEF IInv, TypeOK, LockInv
<1>4. LifeInv' BY DEF IInv, TypeOK, LifeInv
<1>5. AvInv' BY DEF IInv, TypeOK, AvInv, Unstarted
<1>6. StateInv' BY DEF IInv, TypeOK, StateInv, Unstarted
<1>7. RefInv' BY DEF IInv, TypeOK, RefInv, AnnouncePcs
<1>8. CountInv' BY DEF IInv, TypeOK, CountInv
<1>9. QED
  BY <1>1, <1>2, <1>3, <1>4, <1>5, <1>6, <1>7, <1>8 DEF IInv

LEMMA ClearVisitStep ==
  ASSUME IInv, NEW t \in Threads, ClearVisit(t)
  PROVE  IInv'
<1> USE DEF ClearVisit, Ended, Stop, Goto, refVars, ctlVars, slotVars, countVars, envVars
<1>1. TypeOK'
  <2>1. PICK s \in todo[t] : ClearVisit(t)!2!(s)
    OBVIOUS
  <2>2. s \in Sessions
    BY DEF IInv, TypeOK
  <2>3. /\ state' \in [Sessions -> {"STOPPED", "STOPPING", "RUNNING"}]
        /\ shutdownEv' \in [Sessions -> BOOLEAN]
    BY <2>1, <2>2, StopFacts DEF IInv, TypeOK
  <2>4. QED
    BY <2>1, <2>2, <2>3 DEF IInv, TypeOK
<1>2. PcInv' BY DEF IInv, TypeOK, PcInv, AnnouncePcs, ClearPcs, StopPcs, RestPcs
<1>3. LockInv' BY DEF IInv, TypeOK, PcInv, LockInv, RestPcs, ClearPcs
<1>4. LifeInv'
  <2>1. PICK s \in todo[t] : ClearVisit(t)!2!(s)
    OBVIOUS
  <2>2. s \in slots /\ life[s] = "alive"
    BY DEF IInv, PcInv, LockInv, LifeInv, ClearPcs
  <2>3. \A u \in Threads : /\ pc'[u] = pc[u] \/ (u = t /\ pc'[u] = "join")
                           /\ cur'[u] = cur[u] \/ (u = t /\ cur'[u] = s)
    BY <2>1 DEF IInv, TypeOK
  <2>4. pc'[t] # "release"
    BY <2>1 DEF IInv, TypeOK
  <2>5. QED
    BY <2>2, <2>3, <2>4 DEF IInv, LifeInv
<1>5. AvInv' BY SMTT(20) DEF IInv, TypeOK, AvInv, Unstarted
<1>6. StateInv'
  <2>1. PICK s \in todo[t] : ClearVisit(t)!2!(s)
    OBVIOUS
  <2>2. OnlyStops
    BY <2>1, StopFacts DEF IInv, TypeOK, OnlyStops
  <2>3. pc'["rtsp"] \in Unstarted \cup {"run"} =>
          pc["rtsp"] \in Unstarted \cup {"run"} /\ cur'["rtsp"] = cur["rtsp"]
    BY <2>1 DEF IInv, TypeOK, Unstarted
  <2>4. QED
    BY <2>2, <2>3, StateInvFrame
<1>7. RefInv'
  <2>1. PICK s \in todo[t] : ClearVisit(t)!2!(s)
    OBVIOUS
  <2>2. OnlyStops
    BY <2>1, StopFacts DEF IInv, TypeOK, OnlyStops
  <2>3. QED
    BY <2>1, <2>2, RefInvFrame DEF IInv, TypeOK, AnnouncePcs
<1>8. CountInv' BY DEF IInv, TypeOK, CountInv
<1>9. QED
  BY <1>1, <1>2, <1>3, <1>4, <1>5, <1>6, <1>7, <1>8 DEF IInv

LEMMA ClearReturnStep ==
  ASSUME IInv, NEW t \in Threads, ClearReturn(t)
  PROVE  IInv'
<1> USE DEF ClearReturn, Goto, sessionVars, refVars, ctlVars, countVars, envVars
<1>1. TypeOK' BY DEF IInv, TypeOK
<1>2. PcInv' BY DEF IInv, TypeOK, PcInv, AnnouncePcs, ClearPcs, StopPcs, RestPcs
<1>3. LockInv' BY DEF IInv, TypeOK, PcInv, LockInv, RestPcs, ClearPcs
<1>4. LifeInv' BY DEF IInv, TypeOK, PcInv, LifeInv, RestPcs
<1>5. AvInv' BY DEF IInv, TypeOK, AvInv, Unstarted
<1>6. StateInv' BY DEF IInv, TypeOK, StateInv, Unstarted
<1>7. RefInv' BY DEF IInv, TypeOK, RefInv, AnnouncePcs
<1>8. CountInv' BY DEF IInv, TypeOK, CountInv
<1>9. QED
  BY <1>1, <1>2, <1>3, <1>4, <1>5, <1>6, <1>7, <1>8 DEF IInv

LEMMA JoinStep ==
  ASSUME IInv, NEW t \in Threads, Join(t)
  PROVE  IInv'
<1> USE DEF Join, Over, ThreadsOver, ControlOver, Uncount, Goto, sessionVars, refVars,
    ctlVars, slotVars, envVars
<1>1. TypeOK'
  BY RunningRange DEF IInv, TypeOK
<1>2. PcInv' BY DEF IInv, TypeOK, PcInv, AnnouncePcs, ClearPcs, StopPcs, RestPcs
<1>3. LockInv' BY DEF IInv, TypeOK, LockInv
<1>4. LifeInv' BY DEF IInv, TypeOK, LifeInv
<1>5. AvInv' BY DEF IInv, TypeOK, AvInv, Unstarted
<1>6. StateInv' BY DEF IInv, TypeOK, StateInv, Unstarted
<1>7. RefInv' BY DEF IInv, TypeOK, RefInv, AnnouncePcs
<1>8. CountInv' BY DEF IInv, TypeOK, CountInv
<1>9. QED
  BY <1>1, <1>2, <1>3, <1>4, <1>5, <1>6, <1>7, <1>8 DEF IInv

LEMMA JoinThrowsStep ==
  ASSUME IInv, NEW t \in Threads, JoinThrows(t)
  PROVE  IInv'
<1> USE DEF JoinThrows, Goto, sessionVars, refVars, ctlVars, countVars, envVars
<1>1. TypeOK' BY DEF IInv, TypeOK
<1>2. PcInv' BY DEF IInv, TypeOK, PcInv, AnnouncePcs, ClearPcs, StopPcs, RestPcs
<1>3. LockInv' BY DEF IInv, TypeOK, PcInv, LockInv, RestPcs, ClearPcs
<1>4. LifeInv' BY DEF IInv, TypeOK, PcInv, LifeInv, RestPcs
<1>5. AvInv' BY DEF IInv, TypeOK, AvInv, Unstarted
<1>6. StateInv' BY DEF IInv, TypeOK, StateInv, Unstarted
<1>7. RefInv' BY DEF IInv, TypeOK, RefInv, AnnouncePcs
<1>8. CountInv' BY DEF IInv, TypeOK, CountInv
<1>9. QED
  BY <1>1, <1>2, <1>3, <1>4, <1>5, <1>6, <1>7, <1>8 DEF IInv

LEMMA JoinLastStep ==
  ASSUME IInv, NEW t \in Threads, JoinLast(t)
  PROVE  IInv'
<1> USE DEF JoinLast, Goto, sessionVars, refVars, ctlVars, slotVars, envVars
<1>1. TypeOK'
  <2>1. pc' \in [Threads -> Labels] /\ streaming' \in BOOLEAN
    BY DEF IInv, TypeOK, Labels
  <2>2. UNCHANGED <<sessionVars, av, refVars, ctlVars, slotVars, op, cur, all, todo, running, envVars>>
    OBVIOUS
  <2> HIDE DEF JoinLast, Goto
  <2>3. QED
    BY <2>1, <2>2 DEF IInv, TypeOK, Labels
<1>2. PcInv' BY DEF IInv, TypeOK, PcInv, AnnouncePcs, ClearPcs, StopPcs, RestPcs
<1>3. LockInv' BY DEF IInv, TypeOK, LockInv
<1>4. LifeInv' BY DEF IInv, TypeOK, LifeInv
<1>5. AvInv' BY DEF IInv, TypeOK, AvInv, Unstarted
<1>6. StateInv' BY DEF IInv, TypeOK, StateInv, Unstarted
<1>7. RefInv' BY DEF IInv, TypeOK, RefInv, AnnouncePcs
<1>8. CountInv' BY DEF IInv, TypeOK, CountInv
<1>9. QED
  BY <1>1, <1>2, <1>3, <1>4, <1>5, <1>6, <1>7, <1>8 DEF IInv

LEMMA ClearEraseStep ==
  ASSUME IInv, NEW t \in Threads, ClearErase(t)
  PROVE  IInv'
<1> USE DEF ClearErase, Drop, Keeps, Return, Goto, sessionVars, refVars, ctlVars, countVars,
    envVars
<1>1. TypeOK' BY DEF IInv, TypeOK, PcInv, RestPcs
<1>2. PcInv' BY DEF IInv, TypeOK, PcInv, AnnouncePcs, ClearPcs, StopPcs, RestPcs
<1>3. LockInv' BY DEF IInv, TypeOK, PcInv, LockInv, RestPcs, ClearPcs
<1>4. LifeInv'
  <2>1. op[t] \in {"clear", "final"} /\ cur[t] \in slots /\ slotLock = t
    BY DEF IInv, PcInv, LockInv, ClearPcs
  <2>2. ASSUME NEW u \in Threads \ {t}, cur[u] = cur[t], ~Keeps(u, cur[t])
        PROVE  FALSE
    BY <2>1, <2>2 DEF IInv, TypeOK, PcInv, LockInv, LifeInv, RestPcs, ClearPcs, StopPcs, AnnouncePcs
  <2>3. CASE Return(t)
    <3>1. pc'[t] # "release" /\ cur'[t] = NoSession
      BY <2>3 DEF IInv, TypeOK
    <3>2. \A u \in Threads \ {t} : pc'[u] = pc[u] /\ cur'[u] = cur[u]
      BY <2>3 DEF IInv, TypeOK
    <3>3. QED
      BY <3>1, <3>2 DEF IInv, PcInv, LifeInv, RestPcs
  <2>4. CASE /\ cur[t] \notin slots' /\ \A u \in Threads \ {t} : ~Keeps(u, cur[t])
             /\ Goto(t, "release") /\ UNCHANGED <<op, cur>>
    BY <2>2, <2>4 DEF IInv, TypeOK, LifeInv
  <2>5. QED
    BY <2>3, <2>4
<1>5. AvInv'
  <2>1. \A k \in Kinds : av[cur[t]][k] = "done"
    BY DEF IInv, AvInv
  <2>2. pc'[t] \in {"release", "idle", "tick", "scan"} /\ \A u \in Threads \ {t} : pc'[u] = pc[u] /\ cur'[u] = cur[u]
    BY DEF IInv, TypeOK
  <2>3. \A s \in Sessions \ slots', k \in Kinds : av[s][k] \in {"none", "done"}
    BY <2>1 DEF IInv, AvInv
  <2>4. \A u \in Threads : pc'[u] \in {"last", "erase"} => \A k \in Kinds : av[cur'[u]][k] = "done"
    BY <2>2 DEF IInv, AvInv
  <2>5. pc'["rtsp"] \in Unstarted => /\ pc["rtsp"] = pc'["rtsp"] /\ cur'["rtsp"] = cur["rtsp"]
                                   /\ cur["rtsp"] # cur[t]
    BY <2>1, <2>2 DEF IInv, AvInv, Unstarted
  <2>6. QED
    BY <2>3, <2>4, <2>5 DEF IInv, AvInv
<1>6. StateInv' BY DEF IInv, TypeOK, StateInv, Unstarted
<1>7. RefInv'
  <2>1. op[t] \in {"clear", "final"}
    BY DEF IInv, PcInv, ClearPcs
  <2>2. pc["rtsp"] \in AnnouncePcs \/ pc'["rtsp"] \in AnnouncePcs =>
          pc'["rtsp"] = pc["rtsp"] /\ cur'["rtsp"] = cur["rtsp"]
    BY <2>1 DEF IInv, TypeOK, AnnouncePcs
  <2>3. QED
    BY <2>2, RefInvFrame DEF IInv, OnlyStops
<1>8. CountInv' BY DEF IInv, TypeOK, CountInv
<1>9. QED
  BY <1>1, <1>2, <1>3, <1>4, <1>5, <1>6, <1>7, <1>8 DEF IInv

LEMMA ReleaseStep ==
  ASSUME IInv, NEW t \in Threads, Release(t)
  PROVE  IInv'
<1> USE DEF Release, DropRef, Goto, Return, refVars, ctlVars, slotVars, countVars, envVars
<1>1. TypeOK'
  <2>1. refs' \subseteq refs /\ count' \in Nat
    <3>1. IsFiniteSet(refs') /\ count' = Cardinality(refs')
      BY FS_RemoveElement DEF IInv, CountInv
    <3>2. QED
      BY <3>1, FS_CardinalityType
  <2>2. cur[t] \in Sessions
    BY CurSession DEF RestPcs
  <2>3. ctx' \in {"down", "up", "ending"} /\ bshut' \in BOOLEAN
    BY DEF IInv, TypeOK
  <2>4. CASE Return(t)
    BY <2>1, <2>2, <2>3, <2>4 DEF IInv, TypeOK
  <2>5. CASE Goto(t, "ending") /\ cur' = [cur EXCEPT ![t] = NoSession] /\ UNCHANGED op
    BY <2>1, <2>2, <2>3, <2>5 DEF IInv, TypeOK
  <2>6. QED
    BY <2>4, <2>5
<1>2. PcInv' BY DEF IInv, TypeOK, PcInv, AnnouncePcs, ClearPcs, StopPcs, RestPcs
<1>3. LockInv' BY DEF IInv, TypeOK, LockInv
<1>4. LifeInv' BY DEF IInv, TypeOK, PcInv, LockInv, LifeInv, RestPcs, ClearPcs, AnnouncePcs,
      StopPcs
<1>5. AvInv' BY DEF IInv, TypeOK, LifeInv, AvInv, Unstarted
<1>6. StateInv' BY DEF IInv, TypeOK, StateInv, Unstarted
<1>7. RefInv'
  <2> DEFINE s == cur[t]
  <2>1. s \in Sessions
    BY CurSession DEF RestPcs
  <2>2. s \notin slots /\ \A u \in Threads \ {t} : cur[u] # s
    BY DEF IInv, LifeInv
  <2>3. refs' = refs \ {<<s, "session">>}
    OBVIOUS
  <2>4. /\ life' = [life EXCEPT ![s] = "freed"]
        /\ av' = av /\ state' = state /\ slots' = slots
    OBVIOUS
  <2>5. pc["rtsp"] \in AnnouncePcs \/ pc'["rtsp"] \in AnnouncePcs =>
          pc'["rtsp"] = pc["rtsp"] /\ cur'["rtsp"] = cur["rtsp"] /\ cur["rtsp"] # s
    BY <2>2 DEF IInv, TypeOK, AnnouncePcs
  <2>6. \A k \in Kinds : av[s][k] \in {"none", "done"}
    BY <2>1, <2>2 DEF IInv, AvInv
  <2> HIDE DEF s, Release
  <2>7. \A x \in Sessions, k \in Kinds : <<x, k>> \in refs' <=> <<x, k>> \in refs
    BY <2>3
  <2>8. \A x \in Sessions \ {s} :
          (<<x, "session">> \in refs' <=> <<x, "session">> \in refs) /\ life'[x] = life[x]
    BY <2>3, <2>4 DEF IInv, TypeOK
  <2>9. life'[s] = "freed"
    BY <2>1, <2>4 DEF IInv, TypeOK
  <2>10. /\ \A x \in Sessions, k \in Kinds :
             /\ <<x, k>> \in refs <=> av[x][k] \in {"ping", "capture"}
             /\ av[x][k] \in {"start", "ping", "capture"} => <<x, "session">> \in refs
        /\ \A x \in Sessions : state[x] = "RUNNING" => <<x, "session">> \in refs \/ life[x] = "freed"
    BY DEF IInv, RefInv
  <2>11. ASSUME NEW x \in Sessions, NEW k \in Kinds
         PROVE  /\ <<x, k>> \in refs' <=> av'[x][k] \in {"ping", "capture"}
                /\ av'[x][k] \in {"start", "ping", "capture"} => <<x, "session">> \in refs'
    <3>1. CASE x = s
      BY <2>4, <2>6, <2>7, <2>10, <3>1
    <3>2. CASE x # s
      BY <2>4, <2>7, <2>8, <2>10, <3>2
    <3>3. QED
      BY <3>1, <3>2
  <2>12. \A x \in Sessions : <<x, "session">> \in refs' => life'[x] = "alive"
    BY <2>3, <2>8 DEF IInv, RefInv
  <2>13. \A x \in Sessions : state'[x] = "RUNNING" => <<x, "session">> \in refs' \/ life'[x] = "freed"
    <3>1. ASSUME NEW x \in Sessions, state'[x] = "RUNNING", x # s
          PROVE  <<x, "session">> \in refs' \/ life'[x] = "freed"
      BY <2>4, <2>8, <2>10, <3>1
    <3>2. QED
      BY <2>9, <3>1
  <2>14. ASSUME NEW x \in slots'
         PROVE  <<x, "session">> \in refs' \/ (pc'["rtsp"] \in {"ref", "remove"} /\ cur'["rtsp"] = x)
    <3>1. x \in slots /\ x # s /\ x \in Sessions
      BY <2>2, <2>4 DEF IInv, TypeOK
    <3>2. CASE <<x, "session">> \in refs
      BY <2>8, <3>1, <3>2
    <3>3. CASE pc["rtsp"] \in {"ref", "remove"} /\ cur["rtsp"] = x
      BY <2>5, <3>3 DEF AnnouncePcs
    <3>4. QED
      BY <3>1, <3>2, <3>3 DEF IInv, RefInv
  <2>15. /\ pc'["rtsp"] \in {"ref", "remove"} => <<cur'["rtsp"], "session">> \notin refs'
         /\ pc'["rtsp"] \in AnnouncePcs \ {"ref", "remove"} => <<cur'["rtsp"], "session">> \in refs'
    <3>1. CASE pc'["rtsp"] \in AnnouncePcs
      <4>1. /\ pc'["rtsp"] = pc["rtsp"] /\ cur'["rtsp"] = cur["rtsp"]
            /\ <<cur["rtsp"], "session">> \in refs' <=> <<cur["rtsp"], "session">> \in refs
        BY <2>3, <2>5, <3>1
      <4>2. QED
        BY <4>1 DEF IInv, RefInv
    <3>2. CASE pc'["rtsp"] \notin AnnouncePcs
      BY <3>2 DEF AnnouncePcs
    <3>3. QED
      BY <3>1, <3>2
  <2>16. QED
    BY <2>11, <2>12, <2>13, <2>14, <2>15 DEF RefInv
<1>8. CountInv'
  <2>1. IsFiniteSet(refs') /\ count' = Cardinality(refs')
    BY FS_RemoveElement DEF IInv, CountInv
  <2>2. (ctx = "up" <=> refs # {})' /\ (bshut <=> ctx = "ending")'
    <3>1. count' = 0 <=> refs' = {}
      BY <2>1, FS_EmptySet
    <3>2. CASE <<cur[t], "session">> \in refs
      BY <3>1, <3>2 DEF IInv, CountInv, TypeOK
    <3>3. CASE <<cur[t], "session">> \notin refs
      BY <3>3 DEF IInv, CountInv, TypeOK
    <3>4. QED
      BY <3>2, <3>3
  <2>3. QED
    BY <2>1, <2>2 DEF IInv, CountInv, TypeOK, PcInv, RestPcs
<1>9. QED
  BY <1>1, <1>2, <1>3, <1>4, <1>5, <1>6, <1>7, <1>8 DEF IInv

LEMMA EndBroadcastStep ==
  ASSUME IInv, NEW t \in Threads, EndBroadcast(t)
  PROVE  IInv'
<1> USE DEF EndBroadcast, ResetBroadcastShutdown, Return, Goto, sessionVars, slotVars,
    countVars, envVars
<1>1. TypeOK'
  BY DEF IInv, TypeOK
<1>2. PcInv' BY DEF IInv, TypeOK, PcInv, AnnouncePcs, ClearPcs, StopPcs, RestPcs
<1>3. LockInv' BY DEF IInv, TypeOK, LockInv
<1>4. LifeInv' BY DEF IInv, TypeOK, PcInv, LifeInv, RestPcs
<1>5. AvInv' BY DEF IInv, TypeOK, AvInv, Unstarted
<1>6. StateInv' BY DEF IInv, TypeOK, StateInv, Unstarted
<1>7. RefInv' BY DEF IInv, TypeOK, RefInv, AnnouncePcs
<1>8. CountInv' BY DEF IInv, TypeOK, CountInv
<1>9. QED
  BY <1>1, <1>2, <1>3, <1>4, <1>5, <1>6, <1>7, <1>8 DEF IInv

LEMMA GracefulFindStep ==
  ASSUME IInv, NEW t \in HttpThreads, NEW s \in Sessions, GracefulFind(t, s)
  PROVE  IInv'
<1> USE DEF GracefulFind, Goto, sessionVars, refVars, ctlVars, slotVars, countVars, envVars
<1>1. TypeOK' BY DEF IInv, TypeOK
<1>2. PcInv' BY DEF IInv, TypeOK, PcInv, AnnouncePcs, ClearPcs, StopPcs, RestPcs
<1>3. LockInv' BY DEF IInv, TypeOK, LockInv
<1>4. LifeInv' BY DEF IInv, TypeOK, LifeInv
<1>5. AvInv' BY DEF IInv, TypeOK, AvInv, Unstarted
<1>6. StateInv' BY DEF IInv, TypeOK, StateInv, Unstarted
<1>7. RefInv' BY DEF IInv, TypeOK, RefInv, AnnouncePcs
<1>8. CountInv' BY DEF IInv, TypeOK, CountInv
<1>9. QED
  BY <1>1, <1>2, <1>3, <1>4, <1>5, <1>6, <1>7, <1>8 DEF IInv

LEMMA GracefulStopStep ==
  ASSUME IInv, NEW t \in HttpThreads, GracefulStop(t)
  PROVE  IInv'
<1> USE DEF GracefulStop, Stop, Goto, refVars, ctlVars, slotVars, countVars, envVars
<1>1. TypeOK'
  <2>1. cur[t] \in Sessions
    BY CurSession DEF RestPcs
  <2>2. QED
    BY <2>1, StopFacts DEF IInv, TypeOK
<1>2. PcInv' BY DEF IInv, TypeOK, PcInv, AnnouncePcs, ClearPcs, StopPcs, RestPcs
<1>3. LockInv' BY DEF IInv, TypeOK, LockInv
<1>4. LifeInv' BY DEF IInv, TypeOK, LifeInv
<1>5. AvInv' BY DEF IInv, TypeOK, AvInv, Unstarted
<1>6. StateInv'
  <2>1. OnlyStops
    BY CurSession, StopFacts DEF IInv, RestPcs
  <2>2. pc'["rtsp"] = pc["rtsp"]
    BY DEF IInv, TypeOK
  <2>3. QED
    BY <2>1, <2>2, StateInvFrame
<1>7. RefInv' BY DEF IInv, TypeOK, RefInv, AnnouncePcs
<1>8. CountInv' BY DEF IInv, TypeOK, CountInv
<1>9. QED
  BY <1>1, <1>2, <1>3, <1>4, <1>5, <1>6, <1>7, <1>8 DEF IInv

LEMMA GracefulRaiseStep ==
  ASSUME IInv, NEW t \in HttpThreads, GracefulRaise(t)
  PROVE  IInv'
<1> USE DEF GracefulRaise, Goto, refVars, ctlVars, slotVars, countVars, envVars
<1>1. TypeOK' BY DEF IInv, TypeOK, PcInv, RestPcs
<1>2. PcInv' BY DEF IInv, TypeOK, PcInv, AnnouncePcs, ClearPcs, StopPcs, RestPcs
<1>3. LockInv' BY DEF IInv, TypeOK, LockInv
<1>4. LifeInv' BY DEF IInv, TypeOK, LifeInv
<1>5. AvInv' BY DEF IInv, TypeOK, AvInv, Unstarted
<1>6. StateInv' BY DEF IInv, TypeOK, StateInv, Unstarted
<1>7. RefInv' BY DEF IInv, TypeOK, RefInv, AnnouncePcs
<1>8. CountInv' BY DEF IInv, TypeOK, CountInv
<1>9. QED
  BY <1>1, <1>2, <1>3, <1>4, <1>5, <1>6, <1>7, <1>8 DEF IInv

LEMMA GracefulDropStep ==
  ASSUME IInv, NEW t \in HttpThreads, GracefulDrop(t)
  PROVE  IInv'
<1> USE DEF GracefulDrop, slotVars, Drop, Keeps, Return, Goto, sessionVars, refVars, ctlVars,
    countVars, envVars
<1>1. TypeOK'
  <2>1. Return(t) \/ (Goto(t, "release") /\ UNCHANGED <<op, cur>>)
    OBVIOUS
  <2>2. /\ pc \in [Threads -> Labels] /\ cur \in [Threads -> Sessions \cup {NoSession}]
        /\ op \in [Threads -> {"none", "announce", "clear", "final", "stop"}]
    BY DEF IInv, TypeOK, Labels
  <2>3. UNCHANGED <<sessionVars, av, refVars, ctlVars, slotVars, all, todo, countVars, envVars>>
    OBVIOUS
  <2> HIDE DEF GracefulDrop, Drop, Keeps
  <2>4. /\ pc' \in [Threads -> Labels] /\ cur' \in [Threads -> Sessions \cup {NoSession}]
        /\ op' \in [Threads -> {"none", "announce", "clear", "final", "stop"}]
    BY <2>1, <2>2 DEF Labels
  <2> HIDE DEF Return, Goto
  <2>5. QED
    BY <2>3, <2>4 DEF IInv, TypeOK, Labels
<1>2. PcInv' BY DEF IInv, TypeOK, PcInv, AnnouncePcs, ClearPcs, StopPcs, RestPcs
<1>3. LockInv' BY DEF IInv, TypeOK, LockInv
<1>4. LifeInv' BY DEF IInv, TypeOK, PcInv, LockInv, LifeInv, RestPcs, ClearPcs, AnnouncePcs,
      StopPcs
<1>5. AvInv' BY DEF IInv, TypeOK, AvInv, Unstarted
<1>6. StateInv' BY DEF IInv, TypeOK, StateInv, Unstarted
<1>7. RefInv'
  <2>1. pc'["rtsp"] = pc["rtsp"] /\ cur'["rtsp"] = cur["rtsp"]
    BY DEF IInv, TypeOK
  <2>2. QED
    BY <2>1, RefInvFrame DEF IInv, OnlyStops
<1>8. CountInv' BY DEF IInv, TypeOK, CountInv
<1>9. QED
  BY <1>1, <1>2, <1>3, <1>4, <1>5, <1>6, <1>7, <1>8 DEF IInv

LEMMA AvRefStep ==
  ASSUME IInv, NEW s \in Sessions, NEW k \in Kinds, AvRef(s, k)
  PROVE  IInv'
<1> USE DEF AvRef, TakeRef, SetAv, AvUnchanged, ctlVars, slotVars, threadVars, countVars,
    envVars
<1>1. TypeOK' BY DEF IInv, TypeOK
<1>2. PcInv' BY DEF IInv, TypeOK, PcInv, AnnouncePcs, ClearPcs, StopPcs, RestPcs
<1>3. LockInv' BY DEF IInv, TypeOK, LockInv
<1>4. LifeInv' BY DEF IInv, TypeOK, LifeInv
<1>5. AvInv' BY DEF IInv, TypeOK, AvInv, Unstarted
<1>6. StateInv' BY DEF IInv, TypeOK, StateInv, Unstarted
<1>7. RefInv' BY DEF IInv, TypeOK, RefInv, AnnouncePcs
<1>8. CountInv'
  <2>1. IsFiniteSet(refs') /\ count' = Cardinality(refs')
    BY FS_AddElement DEF IInv, RefInv, CountInv
  <2>2. (ctx = "up" <=> refs # {})'
    BY DEF IInv, RefInv, CountInv
  <2>3. QED
    BY <2>1, <2>2 DEF IInv, TypeOK, CountInv
<1>9. QED
  BY <1>1, <1>2, <1>3, <1>4, <1>5, <1>6, <1>7, <1>8 DEF IInv

LEMMA AvPingStep ==
  ASSUME IInv, NEW s \in Sessions, NEW k \in Kinds, AvPing(s, k)
  PROVE  IInv'
<1> USE DEF AvPing, SetAv, refVars, AvUnchanged, ctlVars, slotVars, threadVars, countVars,
    envVars
<1>1. TypeOK' BY DEF IInv, TypeOK
<1>2. PcInv' BY DEF IInv, TypeOK, PcInv, AnnouncePcs, ClearPcs, StopPcs, RestPcs
<1>3. LockInv' BY DEF IInv, TypeOK, LockInv
<1>4. LifeInv' BY DEF IInv, TypeOK, LifeInv
<1>5. AvInv' BY DEF IInv, TypeOK, AvInv, Unstarted
<1>6. StateInv' BY DEF IInv, TypeOK, StateInv, Unstarted
<1>7. RefInv' BY DEF IInv, TypeOK, RefInv, AnnouncePcs
<1>8. CountInv' BY DEF IInv, TypeOK, CountInv
<1>9. QED
  BY <1>1, <1>2, <1>3, <1>4, <1>5, <1>6, <1>7, <1>8 DEF IInv

LEMMA AvExitStep ==
  ASSUME IInv, NEW s \in Sessions, NEW k \in Kinds, AvExit(s, k)
  PROVE  IInv'
<1> USE DEF AvExit, DropRef, Stop, SetAv, AvUnchanged, ctlVars, slotVars, threadVars,
    countVars, envVars
<1>1. TypeOK'
  <2>1. count' = Cardinality(refs') /\ IsFiniteSet(refs')
    BY FS_RemoveElement DEF IInv, RefInv, CountInv
  <2>2. count' \in Nat
    BY <2>1, FS_CardinalityType
  <2>3. QED
    BY <2>2, StopFacts DEF IInv, TypeOK
<1>2. PcInv' BY DEF IInv, TypeOK, PcInv, AnnouncePcs, ClearPcs, StopPcs, RestPcs
<1>3. LockInv' BY DEF IInv, TypeOK, LockInv
<1>4. LifeInv' BY DEF IInv, TypeOK, LifeInv
<1>5. AvInv' BY DEF IInv, TypeOK, AvInv, Unstarted
<1>6. StateInv'
  <2>1. OnlyStops
    BY StopFacts DEF IInv
  <2>2. QED
    BY <2>1, StateInvFrame
<1>7. RefInv' BY DEF IInv, TypeOK, RefInv, AnnouncePcs
<1>8. CountInv'
  <2>1. IsFiniteSet(refs') /\ count' = Cardinality(refs')
    BY FS_RemoveElement DEF IInv, RefInv, CountInv
  <2>2. <<s, "session">> \in refs'
    BY DEF IInv, RefInv
  <2>3. QED
    BY <2>1, <2>2 DEF IInv, TypeOK, CountInv
<1>9. QED
  BY <1>1, <1>2, <1>3, <1>4, <1>5, <1>6, <1>7, <1>8 DEF IInv

\* The control thread and the surroundings touch no thread, slot or reference.
LEMMA OutsideStep ==
  ASSUME IInv, TypeOK', OnlyStops,
         life' = life, av' = av, refs' = refs, count' = count, ctx' = ctx, bshut' = bshut,
         slots' = slots, slotLock' = slotLock,
         pc' = pc, op' = op, cur' = cur, all' = all, todo' = todo
  PROVE  IInv'
<1>1. PcInv' /\ LockInv' /\ LifeInv' /\ AvInv' /\ CountInv'
  BY DEF IInv, PcInv, LockInv, LifeInv, AvInv, CountInv
<1>2. StateInv'
  BY StateInvFrame, CurSession DEF IInv, Unstarted, RestPcs
<1>3. RefInv'
  BY RefInvFrame DEF IInv
<1>4. QED
  BY <1>1, <1>2, <1>3 DEF IInv

LEMMA ControlStep ==
  ASSUME IInv, Control
  PROVE  IInv'
<1> USE DEF CtlUnchanged, refVars, slotVars, threadVars, countVars, envVars
<1>1. ASSUME NEW s \in Sessions, NEW late \in BOOLEAN, CtlVisit(s, late)
      PROVE  IInv'
  <2>1. /\ state' \in [Sessions -> {"STOPPED", "STOPPING", "RUNNING"}]
        /\ shutdownEv' \in [Sessions -> BOOLEAN]
        /\ OnlyStops
    BY <1>1, StopFacts DEF CtlVisit, TimesOut, IInv, TypeOK, OnlyStops
  <2>2. TypeOK'
    <3>0. controlEnd' = controlEnd \/ controlEnd' = [controlEnd EXCEPT ![s] = TRUE]
      BY <1>1 DEF CtlVisit, EndControl
    <3>1. /\ ctodo' \subseteq Sessions /\ sessions' \subseteq Sessions
          /\ controlEnd' \in [Sessions -> BOOLEAN]
      <4>1. ctodo' = ctodo \ {s} /\ sessions' \subseteq sessions
        BY <1>1 DEF CtlVisit
      <4>2. QED
        BY <3>0, <4>1 DEF IInv, TypeOK
    <3>2. awaiting' \in BOOLEAN
      BY <1>1, Zenon DEF CtlVisit, IInv, TypeOK
    <3>3. UNCHANGED <<peer, cpc, life, av, refVars, slotVars, threadVars, countVars, envVars>>
      BY <1>1 DEF CtlVisit, CtlUnchanged
    <3>4. QED
      BY <2>1, <3>1, <3>2, <3>3 DEF IInv, TypeOK, refVars, slotVars, threadVars, countVars, envVars
  <2>3. QED
    BY <1>1, <2>1, <2>2, OutsideStep DEF CtlVisit
<1>2. ASSUME NEW s \in Sessions, CtlDisconnect(s)
      PROVE  IInv'
  <2>1. /\ state' \in [Sessions -> {"STOPPED", "STOPPING", "RUNNING"}]
        /\ shutdownEv' \in [Sessions -> BOOLEAN]
        /\ OnlyStops
    BY <1>2, StopFacts DEF CtlDisconnect, IInv
  <2>2. TypeOK'
    <3>1. /\ peer' = [peer EXCEPT ![s] = "gone"] /\ cpc' = "top"
          /\ UNCHANGED <<controlEnd, sessions, ctodo, awaiting, life, av, refVars, slotVars, threadVars,
                         countVars, envVars>>
      BY <1>2 DEF CtlDisconnect, CtlUnchanged
    <3>2. peer' \in [Sessions -> {"none", "connected", "gone"}]
      BY <3>1 DEF IInv, TypeOK
    <3>3. QED
      BY <2>1, <3>1, <3>2 DEF IInv, TypeOK, refVars, slotVars, threadVars, countVars, envVars
  <2>3. QED
    BY <1>2, <2>1, <2>2, OutsideStep DEF CtlDisconnect
<1>3. ASSUME NEW s \in Sessions, CtlConnect(s)
      PROVE  IInv'
  <2>1. TypeOK'
    BY <1>3 DEF CtlConnect, IInv, TypeOK
  <2>2. QED
    BY <1>3, <2>1, OutsideStep DEF CtlConnect, OnlyStops
<1>4. ASSUME NEW s \in Sessions, CtlExitVisit(s)
      PROVE  IInv'
  <2>1. TypeOK'
    <3>1. /\ ctodo' \subseteq Sessions
          /\ controlEnd' \in [Sessions -> BOOLEAN] /\ shutdownEv' \in [Sessions -> BOOLEAN]
      <4>1. /\ ctodo' = ctodo \ {s} /\ controlEnd' = [controlEnd EXCEPT ![s] = TRUE]
            /\ shutdownEv' = [shutdownEv EXCEPT ![s] = TRUE]
        BY <1>4 DEF CtlExitVisit
      <4>2. QED
        BY <4>1 DEF IInv, TypeOK
    <3>2. UNCHANGED <<state, peer, sessions, cpc, awaiting, life, av, refVars, slotVars, threadVars,
                      countVars, envVars>>
      BY <1>4 DEF CtlExitVisit, CtlUnchanged
    <3>3. QED
      BY <3>1, <3>2 DEF IInv, TypeOK, refVars, slotVars, threadVars, countVars, envVars
  <2>2. QED
    BY <1>4, <2>1, OutsideStep DEF CtlExitVisit, OnlyStops
<1>5. CASE CtlTop
  <2>1. TypeOK'
    BY <1>5 DEF CtlTop, IInv, TypeOK
  <2>2. QED
    BY <1>5, <2>1, OutsideStep DEF CtlTop, OnlyStops
<1>6. CASE CtlSweepEnd \/ CtlNoEvent \/ CtlExitEnd
  <2>1. TypeOK'
    BY <1>6 DEF CtlSweepEnd, CtlIterates, CtlNoEvent, CtlExitEnd, IInv, TypeOK
  <2>2. QED
    BY <1>6, <2>1, OutsideStep DEF CtlSweepEnd, CtlNoEvent, CtlExitEnd, OnlyStops
<1>7. CASE CtlBreak
  <2>1. TypeOK'
    BY <1>7 DEF CtlBreak, IInv, TypeOK
  <2>2. QED
    BY <1>7, <2>1, OutsideStep DEF CtlBreak, OnlyStops
<1>8. QED
  BY <1>1, <1>2, <1>3, <1>4, <1>5, <1>6, <1>7 DEF Control

LEMMA EnvironmentStep ==
  ASSUME IInv, AppChange \/ Shutdown
  PROVE  IInv'
<1> USE DEF AppChange, Shutdown, sessionVars, refVars, ctlVars, slotVars, threadVars, countVars
<1>1. CASE AppChange
  <2>1. TypeOK'
    BY <1>1 DEF IInv, TypeOK
  <2>2. QED
    BY <1>1, <2>1, OutsideStep DEF OnlyStops
<1>2. CASE Shutdown
  <2>1. TypeOK'
    BY <1>2 DEF IInv, TypeOK
  <2>2. QED
    BY <1>2, <2>1, OutsideStep DEF OnlyStops
<1>3. QED
  BY <1>1, <1>2

LEMMA StutterStep ==
  ASSUME IInv, UNCHANGED vars
  PROVE  IInv'
<1> USE DEF vars, sessionVars, refVars, ctlVars, slotVars, threadVars, countVars, envVars
<1>1. /\ life' = life /\ state' = state /\ shutdownEv' = shutdownEv /\ controlEnd' = controlEnd /\ peer' = peer
      /\ av' = av /\ refs' = refs /\ count' = count /\ ctx' = ctx /\ bshut' = bshut
      /\ sessions' = sessions /\ cpc' = cpc /\ ctodo' = ctodo /\ awaiting' = awaiting
      /\ slots' = slots /\ slotLock' = slotLock /\ pc' = pc /\ op' = op /\ cur' = cur /\ all' = all /\ todo' = todo
      /\ running' = running /\ streaming' = streaming /\ app' = app /\ gshut' = gshut
  OBVIOUS
<1>2. TypeOK'
  BY <1>1 DEF IInv, TypeOK
<1>3. QED
  BY <1>1, <1>2, OutsideStep DEF OnlyStops

(***************************************************************************)
(* The inductive invariant.                                                *)
(***************************************************************************)

LEMMA InitInv == Init => IInv
<1> SUFFICES ASSUME Init PROVE IInv
  OBVIOUS
<1> USE DEF Init
<1>1. TypeOK
  <2>1. pc \in [Threads -> {"idle", "iterate"}] /\ slotLock \in Threads \cup {Nobody}
    OBVIOUS
  <2>2. refs \subseteq Sessions \X Holders /\ running \in 0 .. CounterMod - 1
    OBVIOUS
  <2>3. QED
    BY <2>1, <2>2 DEF TypeOK
<1>2. PcInv /\ LockInv
  BY DEF PcInv, LockInv, AnnouncePcs, ClearPcs, StopPcs, RestPcs
<1>3. LifeInv /\ AvInv /\ StateInv
  BY DEF LifeInv, AvInv, StateInv, Unstarted
<1>4. RefInv
  BY DEF RefInv, AnnouncePcs
<1>5. CountInv
  BY FS_EmptySet DEF CountInv
<1>6. QED
  BY <1>1, <1>2, <1>3, <1>4, <1>5 DEF IInv

LEMMA RtspInv == IInv /\ Rtsp => IInv'
  BY RtspTimeoutStep, RtspPeekStep, AnnounceStep, StartRefStep, StartFailedStep, StartPushStep,
     StartThreadsStep, StartRunningStep, StartCountStep, StartFirstStep, AnnounceReturnStep,
     RtspClearStep, RtspFinalStep
     DEF Rtsp

LEMMA ClearInv == ASSUME NEW t \in Threads PROVE IInv /\ Clear(t) => IInv'
  BY ClearVisitStep, ClearReturnStep, JoinStep, JoinThrowsStep, JoinLastStep, ClearEraseStep,
     ReleaseStep, EndBroadcastStep
     DEF Clear

LEMMA HttpInv == ASSUME NEW t \in HttpThreads PROVE IInv /\ Http(t) => IInv'
  BY HttpCountStep, HttpCancelStep, GracefulFindStep, GracefulStopStep, GracefulRaiseStep,
     GracefulDropStep
     DEF Http

LEMMA NextInv == IInv /\ [Next]_vars => IInv'
<1> SUFFICES ASSUME IInv, [Next]_vars PROVE IInv'
  OBVIOUS
<1>1. CASE Next
  <2>1. ASSUME NEW s \in Sessions, NEW k \in Kinds, Av(s, k)
        PROVE  IInv'
    BY <2>1, AvRefStep, AvPingStep, AvExitStep DEF Av
  <2>2. QED
    BY <1>1, <2>1, RtspInv, MainStopStep, ControlStep, EnvironmentStep, ClearInv, HttpInv
       DEF Next
<1>2. CASE UNCHANGED vars
  BY <1>2, StutterStep
<1>3. QED
  BY <1>1, <1>2

\* IInv holds in every state the host can reach.
THEOREM Invariance == Spec => []IInv
  BY InitInv, NextInv, PTL DEF Spec

\* Every variable keeps its type; in particular the reference count of the
\* broadcast context never goes below zero and the session counter stays within
\* its width.
THEOREM TypeCorrect == Spec => []TypeOK
<1>1. IInv => TypeOK
  BY DEF IInv
<1>2. QED
  BY <1>1, Invariance, PTL

\* The counter of shared_t is the number of ptr_t in use, and the broadcast
\* context exists exactly while there is one.
THEOREM ReferenceCount == Spec => []RefCountExact
<1>1. IInv => RefCountExact
  <2> SUFFICES ASSUME IInv PROVE RefCountExact
    OBVIOUS
  <2>1. count = 0 <=> refs = {}
    BY FS_EmptySet DEF IInv, CountInv
  <2>2. QED
    BY <2>1 DEF IInv, TypeOK, CountInv, RefCountExact
<1>2. QED
  BY <1>1, Invariance, PTL

\* Every thread of a session and every started session finds the context up.
THEOREM ContextUp == Spec => []ContextOutlivesUsers
<1>1. IInv => ContextOutlivesUsers
  <2> SUFFICES ASSUME IInv, ctx # "up", NEW s \in Sessions
               PROVE  /\ \A k \in Kinds : av[s][k] \in {"none", "done"}
                      /\ state[s] = "RUNNING" => life[s] = "freed"
    BY DEF ContextOutlivesUsers
  <2>1. refs = {}
    BY DEF IInv, CountInv
  <2>2. QED
    BY <2>1 DEF IInv, TypeOK, RefInv
<1>2. QED
  BY <1>1, Invariance, PTL

\* ~session_t runs only for a session that nothing works on any more.
THEOREM QuietDestruction == Spec => []FreedIsQuiet
<1>1. IInv => FreedIsQuiet
  <2> SUFFICES ASSUME IInv, NEW s \in Sessions, life[s] = "freed"
               PROVE  /\ \A k \in Kinds : av[s][k] \in {"none", "done"}
                      /\ s \notin slots
                      /\ \A h \in Holders : <<s, h>> \notin refs
                      /\ \A t \in Threads : cur[t] # s
    BY DEF FreedIsQuiet
  <2>1. s \notin slots /\ \A t \in Threads : cur[t] # s
    BY DEF IInv, LifeInv
  <2>2. \A k \in Kinds : av[s][k] \in {"none", "done"}
    BY <2>1 DEF IInv, AvInv
  <2>3. \A h \in Holders : <<s, h>> \notin refs
    BY <2>2 DEF IInv, RefInv
  <2>4. QED
    BY <2>1, <2>2, <2>3
<1>2. QED
  BY <1>1, Invariance, PTL

\* broadcast_shutdown is seen only while its own context ends.
THEOREM ShutdownEventScoped == Spec => []BroadcastShutdownOnlyAtEnd
<1>1. IInv => BroadcastShutdownOnlyAtEnd
  BY DEF IInv, TypeOK, CountInv, BroadcastShutdownOnlyAtEnd
<1>2. QED
  BY <1>1, Invariance, PTL

\* The clear that answers broadcast_shutdown finds no session.
THEOREM EndClearsNothing == Spec => []BroadcastEndClearsNoSession
<1>1. IInv => BroadcastEndClearsNoSession
  BY DEF IInv, LockInv, CountInv, BroadcastEndClearsNoSession
<1>2. QED
  BY <1>1, Invariance, PTL

\* Only StartRunning changes the state of a session other than by stopping it.
LEMMA StateChanges ==
  ASSUME IInv, [Next]_vars
  PROVE  OnlyStops \/ StartRunning
<1> USE DEF sessionVars, OnlyStops
<1>1. CASE Rtsp
  BY <1>1 DEF Rtsp, RtspTimeout, RtspPeek, Announce, StartRef, StartFailed, StartPush, StartThreads,
     StartThread, StartCount, StartFirst, AnnounceReturn, RtspClear, RtspFinal, ClearLock
<1>2. ASSUME NEW t \in Threads, ClearVisit(t)
      PROVE  OnlyStops
  BY <1>2, StopFacts DEF ClearVisit, IInv, TypeOK
<1>3. ASSUME NEW t \in Threads, Clear(t), ~ClearVisit(t)
      PROVE  OnlyStops
  BY <1>3 DEF Clear, ClearReturn, Join, JoinThrows, JoinLast, ClearErase, Release, EndBroadcast
<1>4. ASSUME NEW t \in HttpThreads, GracefulStop(t)
      PROVE  OnlyStops
  BY <1>4, CurSession, StopFacts DEF GracefulStop, IInv, RestPcs
<1>5. ASSUME NEW t \in HttpThreads, Http(t), ~GracefulStop(t)
      PROVE  OnlyStops
  BY <1>5 DEF Http, HttpCount, HttpCancel, ClearLock, GracefulFind, GracefulRaise, GracefulDrop
<1>6. ASSUME NEW s \in Sessions, NEW k \in Kinds, Av(s, k)
      PROVE  OnlyStops
  BY <1>6, StopFacts DEF Av, AvRef, AvPing, AvExit, AvUnchanged, IInv
<1>7. ASSUME NEW s \in Sessions, NEW late \in BOOLEAN,
             CtlVisit(s, late) \/ CtlDisconnect(s) \/ CtlConnect(s) \/ CtlExitVisit(s)
      PROVE  OnlyStops
  BY <1>7, StopFacts DEF CtlVisit, CtlDisconnect, CtlConnect, CtlExitVisit, IInv
<1>8. CASE CtlTop \/ CtlSweepEnd \/ CtlBreak \/ CtlNoEvent \/ CtlExitEnd
  BY <1>8 DEF CtlTop, CtlSweepEnd, CtlBreak, CtlNoEvent, CtlExitEnd
<1>9. CASE MainStop \/ AppChange \/ Shutdown \/ UNCHANGED vars
  BY <1>9 DEF MainStop, ClearLock, AppChange, Shutdown, vars
<1>10. CASE Control
  BY <1>7, <1>8, <1>10 DEF Control
<1>11. QED
  BY <1>1, <1>2, <1>3, <1>4, <1>5, <1>6, <1>9, <1>10 DEF Next

\* A session that was told to stop never runs again, although start stores
\* RUNNING without looking at the state.
THEOREM StopsForGood == Spec => StopIsFinal
<1> DEFINE Final == \A s \in Sessions : state[s] = "STOPPING" => state'[s] = "STOPPING"
<1>1. IInv /\ [Next]_vars => Final
  <2> SUFFICES ASSUME IInv, [Next]_vars, NEW s \in Sessions, state[s] = "STOPPING"
               PROVE  state'[s] = "STOPPING"
    OBVIOUS
  <2>1. CASE OnlyStops
    BY <2>1 DEF OnlyStops
  <2>2. CASE StartRunning
    BY <2>2 DEF StartRunning, IInv, TypeOK, StateInv
  <2>3. QED
    BY <2>1, <2>2, StateChanges
<1>2. IInv /\ [Next]_vars => [Final]_vars
  BY <1>1
<1>3. QED
  BY <1>2, Invariance, PTL DEF Spec, StopIsFinal
(***************************************************************************)
(* CounterExact: the counter of running sessions under IInv. A step counts *)
(* a session, uncounts one, or leaves both sets as they are.               *)
(***************************************************************************)

\* A quotient and a remainder determine the remainder.
LEMMA ModUnique ==
  ASSUME NEW M \in Nat \ {0}, NEW q \in Int, NEW r \in 0 .. M - 1
  PROVE  (M * q + r) % M = r
  BY SMTT(30)

\* What is below the modulus is its own remainder.
LEMMA ModSmall ==
  ASSUME NEW M \in Nat \ {0}, NEW r \in 0 .. M - 1
  PROVE  r % M = r
<1>1. (M * 0 + r) % M = r /\ M * 0 = 0
  BY ModUnique
<1>2. QED
  BY <1>1

\* Division with remainder.
LEMMA ModSplit ==
  ASSUME NEW M \in Nat \ {0}, NEW x \in Int
  PROVE  \E q \in Int, r \in 0 .. M - 1 : x = M * q + r /\ x % M = r
<1>1. x % M \in 0 .. M - 1 /\ x \div M \in Int /\ x = M * (x \div M) + (x % M)
  BY SMTT(30)
<1>2. QED
  BY <1>1

\* Counting up or down commutes with the reduction.
LEMMA ModStep ==
  ASSUME NEW M \in Nat \ {0}, NEW x \in Int
  PROVE  /\ ((x % M) + 1) % M = (x + 1) % M
         /\ ((x % M) - 1) % M = (x - 1) % M
<1>1. PICK q \in Int, r \in 0 .. M - 1 : x = M * q + r /\ x % M = r
  BY ModSplit
<1>2. M * (q + 1) = M * q + M /\ M * (q - 1) = M * q - M /\ M * 1 = M /\ M * 0 = 0 /\ M * (-1) = -M
      /\ M * q \in Int
  OBVIOUS
<1>3. r + 1 < M => ((x % M) + 1) % M = (x + 1) % M
  <2> HAVE r + 1 < M
  <2>1. (M * q + (r + 1)) % M = r + 1 /\ (M * 0 + (r + 1)) % M = r + 1
    BY ModUnique
  <2>2. QED
    BY <2>1, <1>1, <1>2
<1>4. r + 1 = M => ((x % M) + 1) % M = (x + 1) % M
  <2> HAVE r + 1 = M
  <2>1. (M * (q + 1) + 0) % M = 0 /\ (M * 1 + 0) % M = 0
    BY ModUnique
  <2>2. QED
    BY <2>1, <1>1, <1>2
<1>5. r > 0 => ((x % M) - 1) % M = (x - 1) % M
  <2> HAVE r > 0
  <2>1. (M * q + (r - 1)) % M = r - 1 /\ (M * 0 + (r - 1)) % M = r - 1
    BY ModUnique
  <2>2. QED
    BY <2>1, <1>1, <1>2
<1>6. r = 0 => ((x % M) - 1) % M = (x - 1) % M
  <2> HAVE r = 0
  <2>1. (M * (q - 1) + (M - 1)) % M = M - 1 /\ (M * (-1) + (M - 1)) % M = M - 1
    BY ModUnique
  <2>2. QED
    BY <2>1, <1>1, <1>2
<1>7. QED
  BY <1>3, <1>4, <1>5, <1>6

Leaving(t) == pc[t] \in {"last", "erase"}

\* A step that neither stores RUNNING nor enters or leaves the count of start.
CountedKept ==
  /\ OnlyStops
  /\ pc'["rtsp"] = "inc" <=> pc["rtsp"] = "inc"
  /\ pc["rtsp"] = "inc" => cur'["rtsp"] = cur["rtsp"]

\* A step that does not touch the threads and slots of sessions being joined.
UncountedKept ==
  /\ av' = av /\ slots' = slots
  /\ \A t \in Threads : (Leaving(t)' <=> Leaving(t)) /\ (Leaving(t) => cur'[t] = cur[t])

LEMMA CountedFrame ==
  ASSUME IInv, CountedKept
  PROVE  /\ Counted' = Counted
         /\ (pc["rtsp"] = "inc" => state[cur["rtsp"]] # "STOPPED")
              => (pc'["rtsp"] = "inc" => state'[cur'["rtsp"]] # "STOPPED")
<1>1. pc["rtsp"] = "inc" => cur["rtsp"] \in Sessions
  BY CurSession DEF RestPcs
<1>2. QED
  BY <1>1 DEF CountedKept, OnlyStops, Counted

LEMMA UncountedFrame ==
  ASSUME UncountedKept
  PROVE  Uncounted' = Uncounted
<1>1. ASSUME NEW s \in Sessions
      PROVE  (\E t \in Threads : cur'[t] = s /\ Leaving(t)') <=> (\E t \in Threads : cur[t] = s /\ Leaving(t))
  BY DEF UncountedKept
<1>2. QED
  BY <1>1 DEF UncountedKept, Uncounted, Leaving

LEMMA CounterFrame ==
  ASSUME IInv, CounterInv, CountedKept, Uncounted' = Uncounted, running' = running
  PROVE  CounterInv'
  BY CountedFrame DEF CounterInv, CounterExact

\* What is counted is finite.
LEMMA CountedFinite ==
  /\ IsFiniteSet(Counted) /\ Cardinality(Counted) \in Nat
  /\ IsFiniteSet(Uncounted) /\ Cardinality(Uncounted) \in Nat
  BY FS_Subset, FS_CardinalityType, StreamAssumption DEF StreamAssumption, Counted, Uncounted

\* Most steps of the RTSP thread.
LEMMA RtspKeepsCounter ==
  ASSUME IInv, \/ RtspPeek \/ RtspTimeout \/ StartRef \/ StartPush \/ StartFirst
               \/ AnnounceReturn \/ RtspClear \/ RtspFinal
  PROVE  CountedKept /\ UncountedKept /\ running' = running
<1> USE DEF IInv, TypeOK, OnlyStops, Leaving, CountedKept, UncountedKept, Goto, sessionVars, refVars,
            ctlVars, slotVars, countVars, envVars
<1>1. CASE RtspPeek \/ RtspTimeout
  BY <1>1 DEF RtspPeek, RtspTimeout
<1>2. CASE StartRef \/ StartPush \/ StartFirst
  BY <1>2 DEF StartRef, StartPush, StartFirst
<1>3. CASE AnnounceReturn
  BY <1>3 DEF AnnounceReturn, Drop, Return
<1>4. CASE RtspClear \/ RtspFinal
  BY <1>4 DEF RtspClear, RtspFinal, ClearLock
<1>5. QED
  BY <1>1, <1>2, <1>3, <1>4

LEMMA ClearKeepsCounter ==
  ASSUME IInv, NEW t \in Threads,
         \/ ClearVisit(t) \/ ClearReturn(t) \/ JoinThrows(t) \/ JoinLast(t) \/ Release(t) \/ EndBroadcast(t)
  PROVE  CountedKept /\ UncountedKept /\ running' = running
<1> USE DEF IInv, TypeOK, Leaving, CountedKept, UncountedKept, Goto, sessionVars, refVars,
            ctlVars, slotVars, countVars, envVars
<1>1. CASE ClearVisit(t)
  <2>1. OnlyStops
    BY <1>1, StopFacts DEF ClearVisit, OnlyStops
  <2>2. QED
    BY <1>1, <2>1 DEF ClearVisit
<1>2. CASE ClearReturn(t)
  BY <1>2 DEF ClearReturn, OnlyStops
<1>3. CASE JoinThrows(t)
  BY <1>3 DEF JoinThrows, OnlyStops
<1>4. CASE JoinLast(t)
  BY <1>4 DEF JoinLast, OnlyStops
<1>5. CASE Release(t)
  BY <1>5 DEF Release, Return, OnlyStops
<1>6. CASE EndBroadcast(t)
  BY <1>6 DEF EndBroadcast, Return, OnlyStops
<1>7. QED
  BY <1>1, <1>2, <1>3, <1>4, <1>5, <1>6

LEMMA HttpKeepsCounter ==
  ASSUME IInv, NEW t \in HttpThreads, Http(t)
  PROVE  CountedKept /\ UncountedKept /\ running' = running
<1> USE DEF IInv, TypeOK, Leaving, CountedKept, UncountedKept, Goto, sessionVars, refVars,
            ctlVars, slotVars, countVars, envVars
<1>1. CASE HttpCount(t) \/ HttpCancel(t)
  BY <1>1 DEF HttpCount, HttpCancel, ClearLock, OnlyStops
<1>2. CASE GracefulStop(t)
  <2>1. OnlyStops
    BY <1>2, CurSession, StopFacts DEF GracefulStop, RestPcs
  <2>2. QED
    BY <1>2, <2>1 DEF GracefulStop
<1>3. CASE GracefulRaise(t)
  BY <1>3 DEF GracefulRaise, OnlyStops
<1>4. CASE GracefulDrop(t)
  BY <1>4 DEF GracefulDrop, Drop, Return, OnlyStops
<1>5. ASSUME NEW s \in Sessions, GracefulFind(t, s)
      PROVE  CountedKept /\ UncountedKept /\ running' = running
  BY <1>5 DEF GracefulFind, OnlyStops
<1>6. QED
  BY <1>1, <1>2, <1>3, <1>4, <1>5 DEF Http

LEMMA OthersKeepCounter ==
  ASSUME IInv, MainStop \/ Control \/ AppChange \/ Shutdown \/ UNCHANGED vars
  PROVE  CountedKept /\ UncountedKept /\ running' = running
<1> USE DEF IInv, TypeOK, Leaving, CountedKept, UncountedKept, sessionVars, refVars,
            ctlVars, slotVars, threadVars, countVars, envVars
<1>1. CASE MainStop
  BY <1>1 DEF MainStop, ClearLock, Goto, OnlyStops
<1>2. CASE Control
  <2>1. OnlyStops
    <3>1. ASSUME NEW s \in Sessions, NEW late \in BOOLEAN,
                 CtlVisit(s, late) \/ CtlDisconnect(s) \/ CtlConnect(s) \/ CtlExitVisit(s)
          PROVE  OnlyStops
      BY <3>1, StopFacts DEF CtlVisit, CtlDisconnect, CtlConnect, CtlExitVisit, OnlyStops
    <3>2. CASE CtlTop \/ CtlSweepEnd \/ CtlBreak \/ CtlNoEvent \/ CtlExitEnd
      BY <3>2 DEF CtlTop, CtlSweepEnd, CtlBreak, CtlNoEvent, CtlExitEnd, OnlyStops
    <3>3. QED
      BY <1>2, <3>1, <3>2 DEF Control
  <2>2. UNCHANGED <<av, slotVars, threadVars, countVars>>
    BY <1>2 DEF Control, CtlVisit, CtlDisconnect, CtlConnect, CtlExitVisit, CtlTop, CtlSweepEnd, CtlBreak,
       CtlNoEvent, CtlExitEnd, CtlUnchanged
  <2>3. QED
    BY <2>1, <2>2
<1>3. CASE AppChange \/ Shutdown \/ UNCHANGED vars
  BY <1>3 DEF AppChange, Shutdown, vars, OnlyStops
<1>4. QED
  BY <1>1, <1>2, <1>3

\* A session enters the slots, or leaves them unstarted: its video thread is not over.
LEMMA SlotsKeepCounter ==
  ASSUME IInv, StartFailed \/ \E s \in Sessions : Announce(s)
  PROVE  CountedKept /\ Uncounted' = Uncounted /\ running' = running
<1> USE DEF IInv, TypeOK, Leaving, CountedKept, OnlyStops, Goto, sessionVars, slotVars, countVars
<1>1. CASE StartFailed
  <2> DEFINE s == cur["rtsp"]
  <2>1. s \in Sessions /\ av[s]["video"] = "none"
    BY <1>1, CurSession DEF StartFailed, RestPcs, AvInv, Unstarted
  <2>2. CountedKept /\ running' = running
    BY <1>1 DEF StartFailed, Drop, Return
  <2>3. /\ av' = av /\ slots' = slots \ {s}
        /\ \A t \in Threads : (Leaving(t)' <=> Leaving(t)) /\ (Leaving(t) => cur'[t] = cur[t])
    BY <1>1 DEF StartFailed, Drop, Return
  <2>4. Uncounted' = Uncounted
    BY <2>1, <2>3 DEF Uncounted
  <2>5. QED
    BY <2>2, <2>4
<1>2. ASSUME NEW s \in Sessions, Announce(s)
      PROVE  CountedKept /\ Uncounted' = Uncounted /\ running' = running
  <2>1. av[s]["video"] = "none"
    BY <1>2 DEF Announce, AvInv
  <2>2. CountedKept /\ running' = running
    BY <1>2 DEF Announce
  <2>3. /\ av' = av /\ slots' = slots \cup {s}
        /\ \A t \in Threads : (Leaving(t)' <=> Leaving(t)) /\ (Leaving(t) => cur'[t] = cur[t])
    BY <1>2 DEF Announce
  <2>4. Uncounted' = Uncounted
    BY <2>1, <2>3 DEF Uncounted
  <2>5. QED
    BY <2>2, <2>4
<1>3. QED
  BY <1>1, <1>2

\* The threads of a session in the slots that nobody joins yet.
LEMMA AvKeepsUncounted ==
  ASSUME IInv, NEW s \in slots, \A t \in Threads : Leaving(t) => cur[t] # s,
         UNCHANGED <<slots, cur>>, \A t \in Threads : Leaving(t)' <=> Leaving(t),
         \A r \in Sessions \ {s} : av'[r]["video"] = av[r]["video"]
  PROVE  Uncounted' = Uncounted
  BY DEF Uncounted, Leaving

LEMMA ThreadsKeepCounter ==
  ASSUME IInv, StartThreads \/ \E s \in Sessions, k \in Kinds : Av(s, k)
  PROVE  CountedKept /\ Uncounted' = Uncounted /\ running' = running
<1> USE DEF IInv, TypeOK, Leaving, sessionVars, slotVars, threadVars, countVars
<1>1. ASSUME NEW k, NEW from, NEW to, StartThread(k, from, to),
             <<from, to>> \in {<<"arm", "video">>, <<"video", "run">>}
      PROVE  CountedKept /\ Uncounted' = Uncounted /\ running' = running
  <2> DEFINE s == cur["rtsp"]
  <2>1. s \in slots /\ av[s]["video"] = "none"
    BY <1>1 DEF StartThread, AvInv, Unstarted
  <2>2. \A t \in Threads : Leaving(t) => cur[t] # s
    BY <2>1 DEF AvInv
  <2>3. /\ UNCHANGED <<slots, cur>> /\ \A t \in Threads : Leaving(t)' <=> Leaving(t)
        /\ \A r \in Sessions \ {s} : av'[r]["video"] = av[r]["video"]
        /\ CountedKept /\ running' = running
    BY <1>1 DEF StartThread, Goto, CountedKept, OnlyStops
  <2>4. QED
    BY <2>1, <2>2, <2>3, AvKeepsUncounted
<1>2. ASSUME NEW s \in Sessions, NEW k \in Kinds, Av(s, k)
      PROVE  CountedKept /\ Uncounted' = Uncounted /\ running' = running
  <2>1. av[s][k] \in {"start", "ping", "capture"}
    BY <1>2 DEF Av, AvRef, AvPing, AvExit
  <2>2. s \in slots /\ \A t \in Threads : Leaving(t) => cur[t] # s
    BY <2>1 DEF AvInv
  <2>3. /\ UNCHANGED <<slots, cur, pc>> /\ running' = running
        /\ \A r \in Sessions \ {s} : av'[r]["video"] = av[r]["video"]
    BY <1>2 DEF Av, AvRef, AvPing, AvExit, SetAv, AvUnchanged
  <2>4. OnlyStops
    BY <1>2, StopFacts DEF Av, AvRef, AvPing, AvExit, AvUnchanged, OnlyStops
  <2>5. QED
    BY <2>2, <2>3, <2>4, AvKeepsUncounted DEF CountedKept
<1>3. QED
  BY <1>1, <1>2 DEF StartThreads

\* start has stored RUNNING: the session is about to be counted.
LEMMA RunningKeepsCounter ==
  ASSUME IInv, CounterInv, StartRunning
  PROVE  CounterInv'
<1> USE DEF IInv, TypeOK, StartRunning, Goto, slotVars, countVars
<1>1. cur["rtsp"] \in Sessions /\ state[cur["rtsp"]] = "STOPPED"
  BY CurSession DEF RestPcs, StateInv
<1>2. Counted' = Counted /\ (pc'["rtsp"] = "inc" => state'[cur'["rtsp"]] # "STOPPED")
  BY <1>1 DEF Counted
<1>3. Uncounted' = Uncounted
  BY UncountedFrame DEF UncountedKept, Leaving
<1>4. QED
  BY <1>2, <1>3 DEF CounterInv, CounterExact

\* The session that is erased is uncounted already, and stays so.
LEMMA EraseKeepsCounter ==
  ASSUME IInv, NEW t \in Threads, ClearErase(t)
  PROVE  CountedKept /\ Uncounted' = Uncounted /\ running' = running
<1> USE DEF IInv, TypeOK, Leaving, sessionVars, slotVars, countVars
<1> DEFINE s == cur[t]
<1>1. s \in Sessions /\ av[s]["video"] = "done" /\ pc[t] = "erase"
  BY CurSession DEF ClearErase, RestPcs, AvInv
<1>2. /\ av' = av /\ slots' = slots \ {s}
      /\ \A u \in Threads \ {t} : pc'[u] = pc[u] /\ cur'[u] = cur[u]
      /\ pc'[t] \notin {"last", "erase"}
  BY DEF ClearErase, Drop, Return, Goto
<1>3. CountedKept /\ running' = running
  BY DEF ClearErase, Drop, Return, Goto, CountedKept, OnlyStops
<1>4. s \in Uncounted /\ s \in Uncounted'
  BY <1>1, <1>2 DEF Uncounted
<1>5. ASSUME NEW r \in Sessions, r # s
      PROVE  r \in Uncounted <=> r \in Uncounted'
  <2>1. (\E u \in Threads : cur[u] = r /\ pc[u] \in {"last", "erase"})
           <=> (\E u \in Threads : cur'[u] = r /\ pc'[u] \in {"last", "erase"})
    BY <1>1, <1>2, <1>5
  <2>2. QED
    BY <1>2, <1>5, <2>1 DEF Uncounted
<1>6. QED
  BY <1>1, <1>3, <1>4, <1>5 DEF Uncounted

\* start counts the session.
LEMMA StartCounts ==
  ASSUME IInv, CounterInv, StartCount
  PROVE  CounterInv'
<1> USE DEF IInv, TypeOK, StartCount, Goto, sessionVars, slotVars
<1> DEFINE s == cur["rtsp"]
<1>1. s \in Sessions /\ state[s] # "STOPPED"
  BY CurSession DEF RestPcs, CounterInv
<1>2. s \notin Counted /\ Counted' = Counted \cup {s} /\ pc'["rtsp"] # "inc"
  BY <1>1 DEF Counted
<1>3. Uncounted' = Uncounted
  BY UncountedFrame DEF UncountedKept, Leaving
<1>4. Cardinality(Counted') = Cardinality(Counted) + 1
  BY <1>2, CountedFinite, FS_AddElement
<1> DEFINE x == Cardinality(Counted) - Cardinality(Uncounted)
<1>5. x \in Int /\ running = x % CounterMod /\ Cardinality(Counted') - Cardinality(Uncounted') = x + 1
  BY <1>3, <1>4, CountedFinite DEF CounterInv, CounterExact
<1>6. ((x % CounterMod) + 1) % CounterMod = (x + 1) % CounterMod
  BY <1>5, ModStep
<1>7. QED
  BY <1>2, <1>5, <1>6 DEF CounterInv, CounterExact

\* join uncounts the session.
LEMMA JoinUncounts ==
  ASSUME IInv, CounterInv, NEW t \in Threads, Join(t)
  PROVE  CounterInv'
<1> USE DEF IInv, TypeOK, Join, Goto, sessionVars, slotVars
<1> DEFINE s == cur[t]
<1>1. s \in slots /\ s \in Sessions /\ av[s]["video"] = "done"
  BY CurSession DEF RestPcs, LockInv, Over, ThreadsOver
<1>2. \A u \in Threads : cur[u] = s => pc[u] \notin {"last", "erase"}
  BY DEF LockInv, PcInv, ClearPcs
<1>3. s \notin Uncounted /\ Uncounted' = Uncounted \cup {s}
  <2>1. s \notin Uncounted /\ s \in Uncounted'
    BY <1>1, <1>2 DEF Uncounted
  <2>2. ASSUME NEW r \in Sessions, r # s
        PROVE  r \in Uncounted <=> r \in Uncounted'
    <3>1. (\E u \in Threads : cur[u] = r /\ pc[u] \in {"last", "erase"})
             <=> (\E u \in Threads : cur'[u] = r /\ pc'[u] \in {"last", "erase"})
      BY <2>2
    <3>2. QED
      BY <3>1 DEF Uncounted
  <2>3. QED
    BY <1>1, <2>1, <2>2 DEF Uncounted
<1>4. Cardinality(Uncounted') = Cardinality(Uncounted) + 1
  BY <1>3, CountedFinite, FS_AddElement
<1>5. CountedKept
  BY DEF CountedKept, OnlyStops
<1> DEFINE x == Cardinality(Counted) - Cardinality(Uncounted)
<1>6. x \in Int /\ running = x % CounterMod /\ Cardinality(Counted') - Cardinality(Uncounted') = x - 1
  <2>1. Counted' = Counted
    BY <1>5, CountedFrame
  <2>2. running = x % CounterMod
    BY DEF CounterInv, CounterExact
  <2> HIDE DEF TypeOK, IInv, Join
  <2>3. QED
    BY <1>4, <2>1, <2>2, CountedFinite
<1>7. ((x % CounterMod) - 1) % CounterMod = (x - 1) % CounterMod
  BY <1>6, ModStep
<1>8. running' = (running - 1) % CounterMod
  BY DEF Uncount
<1>9. QED
  BY <1>5, <1>6, <1>7, <1>8, CountedFrame DEF CounterInv, CounterExact

\* Every step keeps the count.
LEMMA CounterInvariance == Spec => []CounterInv
<1>1. Init => CounterInv
  <2>1. ASSUME Init
        PROVE  Counted = {} /\ Uncounted = {} /\ pc["rtsp"] # "inc" /\ running = 0
    BY <2>1 DEF Init, Counted, Uncounted
  <2>2. (0 - 0) % CounterMod = 0
    BY ModUnique
  <2>3. QED
    BY <2>1, <2>2, FS_EmptySet DEF CounterInv, CounterExact
<1>2. IInv /\ CounterInv /\ [Next]_vars => CounterInv'
  <2> SUFFICES ASSUME IInv, CounterInv, [Next]_vars
               PROVE  CounterInv'
    OBVIOUS
  <2>1. CASE Rtsp
    BY <2>1, RtspKeepsCounter, SlotsKeepCounter, ThreadsKeepCounter, RunningKeepsCounter, StartCounts,
       UncountedFrame, CounterFrame DEF Rtsp
  <2>2. ASSUME NEW t \in Threads, Clear(t)
        PROVE  CounterInv'
    BY <2>2, ClearKeepsCounter, EraseKeepsCounter, JoinUncounts, UncountedFrame, CounterFrame DEF Clear
  <2>3. ASSUME NEW t \in HttpThreads, Http(t)
        PROVE  CounterInv'
    BY <2>3, HttpKeepsCounter, UncountedFrame, CounterFrame
  <2>4. CASE MainStop \/ Control \/ AppChange \/ Shutdown \/ UNCHANGED vars
    BY <2>4, OthersKeepCounter, UncountedFrame, CounterFrame
  <2>5. ASSUME NEW s \in Sessions, NEW k \in Kinds, Av(s, k)
        PROVE  CounterInv'
    BY <2>5, ThreadsKeepCounter, CounterFrame
  <2>6. QED
    BY <2>1, <2>2, <2>3, <2>4, <2>5 DEF Next
<1>3. QED
  BY <1>1, <1>2, Invariance, PTL DEF Spec

\* The counter tells how many sessions have been counted and not uncounted,
\* modulo its width, also when join of one thread overtakes start of another.
THEOREM CounterOfSessions == Spec => []CounterExact
<1>1. CounterInv => CounterExact
  BY DEF CounterInv
<1>2. QED
  BY <1>1, CounterInvariance, PTL

(***************************************************************************)
(* PlatformCallbacksPaired: where only the RTSP thread clears, the counter *)
(* is the number of sessions itself as long as it cannot wrap around.      *)
(***************************************************************************)

\* Only the RTSP thread clears, and there are fewer sessions than the counter counts.
OneThreadClears ==
  HttpThreads = {} /\ "shutdown" \notin Environment /\ Cardinality(Sessions) < CounterMod

\* PairInv survives a step that neither counts nor uncounts a session, calls nobody
\* and creates no video thread.
LEMMA PairInvFrame ==
  ASSUME IInv, PairInv, OneThreadClears, OnlyStops, UNCHANGED <<gshut, running, streaming>>,
         pc'["main"] = "idle",
         \A s \in Sessions : av'[s]["video"] # "none" => av[s]["video"] # "none",
         pc["rtsp"] \in {"run", "first", "last"} \/ pc'["rtsp"] \in {"run", "first", "last"} =>
           pc'["rtsp"] = pc["rtsp"] /\ cur'["rtsp"] = cur["rtsp"],
         pc'["rtsp"] \in AnnouncePcs \ {"remove"} => cur'["rtsp"] \in slots'
  PROVE  PairInv'
<1>1. \A s \in Sessions : av'[s]["video"] # "none" =>
        state'[s] # "STOPPED" \/ (pc'["rtsp"] = "run" /\ cur'["rtsp"] = s)
  BY DEF PairInv, OnlyStops
<1>2. PlatformCallbacksPaired'
  BY DEF PairInv, PlatformCallbacksPaired, OneThreadClears
<1>3. QED
  BY <1>1, <1>2 DEF PairInv

\* What is uncounted was counted, so the counter is the difference of the two.
LEMMA RunningIs ==
  ASSUME IInv, CounterInv, PairInv, OneThreadClears
  PROVE  /\ Uncounted \subseteq Counted
         /\ running = Cardinality(Counted) - Cardinality(Uncounted)
         /\ Cardinality(Uncounted) <= Cardinality(Counted)
<1>1. Uncounted \subseteq Counted
  <2> SUFFICES ASSUME NEW s \in Uncounted
               PROVE  s \in Counted
    OBVIOUS
  <2>1. s \in Sessions /\ av[s]["video"] = "done"
    BY DEF Uncounted
  <2>2. ~(pc["rtsp"] \in {"run", "inc"} /\ cur["rtsp"] = s)
    BY DEF Uncounted, PairInv, AnnouncePcs, OneThreadClears
  <2>3. QED
    BY <2>1, <2>2 DEF PairInv, Counted
<1>2. Cardinality(Uncounted) <= Cardinality(Counted) /\ Cardinality(Counted) <= Cardinality(Sessions)
  BY <1>1, CountedFinite, FS_Subset, StreamAssumption DEF StreamAssumption, Counted
<1> DEFINE x == Cardinality(Counted) - Cardinality(Uncounted)
<1>3. x \in 0 .. CounterMod - 1
  BY <1>2, CountedFinite, FS_CardinalityType, StreamAssumption DEF StreamAssumption, OneThreadClears
<1>4. x % CounterMod = x
  BY <1>3, ModSmall
<1>5. QED
  BY <1>1, <1>2, <1>4 DEF CounterInv, CounterExact

\* The RTSP thread outside of clear.
LEMMA RtspKeepsPair ==
  ASSUME IInv, CounterInv, PairInv, OneThreadClears, Rtsp
  PROVE  PairInv'
<1> USE DEF IInv, TypeOK, Goto, sessionVars, refVars, slotVars, threadVars, countVars, envVars
<1>1. CASE StartRunning
  <2>1. cur["rtsp"] \in Sessions /\ cur["rtsp"] \in slots
    BY <1>1, CurSession DEF StartRunning, RestPcs, PairInv, AnnouncePcs
  <2>2. /\ state'[cur["rtsp"]] = "RUNNING" /\ \A s \in Sessions \ {cur["rtsp"]} : state'[s] = state[s]
        /\ pc["rtsp"] = "run" /\ pc'["rtsp"] = "inc" /\ pc'["main"] = pc["main"]
        /\ UNCHANGED <<av, gshut, running, streaming, slots, cur>>
    BY <1>1, <2>1 DEF StartRunning
  <2> HIDE DEF IInv, TypeOK
  <2>3. QED
    BY <2>1, <2>2 DEF PairInv, PlatformCallbacksPaired, OneThreadClears
<1>2. CASE StartCount
  <2>1. pc["rtsp"] = "inc" /\ cur["rtsp"] \in Sessions /\ cur["rtsp"] \in slots
    BY <1>2, CurSession DEF StartCount, RestPcs, PairInv, AnnouncePcs
  <2>2. running' = running + 1
    <3>1. cur["rtsp"] \notin Counted /\ Counted \subseteq Sessions
      BY <2>1 DEF Counted
    <3>2. Cardinality(Counted) + 1 <= Cardinality(Sessions)
      <4>1. Cardinality(Counted \cup {cur["rtsp"]}) = Cardinality(Counted) + 1
        BY <3>1, CountedFinite, FS_AddElement
      <4>2. Cardinality(Counted \cup {cur["rtsp"]}) <= Cardinality(Sessions)
        BY <2>1, <3>1, FS_Subset, StreamAssumption DEF StreamAssumption
      <4>3. QED
        BY <4>1, <4>2
    <3>3. running + 1 \in 0 .. CounterMod - 1
      BY <3>2, RunningIs, CountedFinite, FS_CardinalityType, StreamAssumption
         DEF StreamAssumption, OneThreadClears
    <3>4. (running + 1) % CounterMod = running + 1
      BY <3>3, ModSmall
    <3>5. QED
      BY <1>2, <3>3, <3>4 DEF StartCount
  <2>3. /\ pc'["rtsp"] = IF running' = 1 THEN "first" ELSE "started"
        /\ pc'["main"] = pc["main"]
        /\ UNCHANGED <<av, state, gshut, streaming, slots, cur>>
    BY <1>2 DEF StartCount
  <2>4. running \in Nat /\ (streaming <=> running # 0)
    BY <2>1 DEF PairInv, PlatformCallbacksPaired, OneThreadClears
  <2> HIDE DEF IInv, TypeOK
  <2>5. QED
    BY <2>1, <2>2, <2>3, <2>4 DEF PairInv, PlatformCallbacksPaired, OneThreadClears
<1>3. CASE StartFirst
  <2>1. /\ running = 1 /\ streaming' = TRUE /\ pc["rtsp"] = "first" /\ pc'["rtsp"] = "started"
        /\ pc'["main"] = pc["main"]
        /\ UNCHANGED <<av, state, gshut, running, slots, cur>>
    BY <1>3 DEF StartFirst, PairInv
  <2> HIDE DEF IInv, TypeOK
  <2>2. QED
    BY <2>1 DEF PairInv, PlatformCallbacksPaired, OneThreadClears, AnnouncePcs
<1>4. CASE StartThreads
  <2>1. CASE StartThread("audio", "arm", "video")
    BY <1>4, <2>1, PairInvFrame DEF StartThread, PairInv, OnlyStops, AnnouncePcs
  <2>2. CASE StartThread("video", "video", "run")
    <3>1. /\ \A s \in Sessions \ {cur["rtsp"]} : av'[s]["video"] = av[s]["video"]
          /\ pc["rtsp"] = "video" /\ pc'["rtsp"] = "run" /\ pc'["main"] = pc["main"]
          /\ UNCHANGED <<state, gshut, running, streaming, slots, cur>>
      BY <2>2 DEF StartThread
    <3> HIDE DEF IInv, TypeOK
    <3>2. QED
      BY <3>1 DEF PairInv, PlatformCallbacksPaired, OneThreadClears, AnnouncePcs
  <2>3. QED
    BY <1>4, <2>1, <2>2 DEF StartThreads
<1>5. CASE RtspPeek \/ RtspTimeout
  BY <1>5, PairInvFrame DEF RtspPeek, RtspTimeout, PairInv, OnlyStops, AnnouncePcs
<1>6. CASE StartRef \/ StartPush
  BY <1>6, PairInvFrame DEF StartRef, StartPush, PairInv, OnlyStops, AnnouncePcs
<1>7. CASE StartFailed \/ AnnounceReturn
  BY <1>7, PairInvFrame DEF StartFailed, AnnounceReturn, Drop, Return, PairInv, OnlyStops, AnnouncePcs
<1>8. CASE RtspClear \/ RtspFinal
  BY <1>8, PairInvFrame DEF RtspClear, RtspFinal, ClearLock, PairInv, OnlyStops, AnnouncePcs
<1>9. ASSUME NEW s \in Sessions, Announce(s)
      PROVE  PairInv'
  BY <1>9, PairInvFrame DEF Announce, PairInv, OnlyStops, AnnouncePcs
<1>10. QED
  BY <1>1, <1>2, <1>3, <1>4, <1>5, <1>6, <1>7, <1>8, <1>9 DEF Rtsp

\* clear, which only the RTSP thread runs.
LEMMA ClearKeepsPair ==
  ASSUME IInv, CounterInv, PairInv, OneThreadClears, NEW t \in Threads, Clear(t)
  PROVE  PairInv'
<1> USE DEF IInv, TypeOK, Goto, sessionVars, refVars, slotVars, threadVars, countVars, envVars
<1>1. t = "rtsp"
  BY DEF Clear, ClearVisit, ClearReturn, Join, JoinThrows, JoinLast, ClearErase, Release, EndBroadcast,
     PairInv, OneThreadClears
<1>2. CASE ClearVisit(t)
  <2>1. OnlyStops
    BY <1>2, StopFacts DEF ClearVisit, OnlyStops
  <2>2. QED
    BY <1>1, <1>2, <2>1, PairInvFrame DEF ClearVisit, PairInv, AnnouncePcs
<1>3. CASE ClearReturn(t)
  BY <1>1, <1>3, PairInvFrame DEF ClearReturn, PairInv, OnlyStops, AnnouncePcs
<1>4. CASE JoinThrows(t)
  BY <1>1, <1>4, PairInvFrame DEF JoinThrows, PairInv, OnlyStops, AnnouncePcs
<1>5. CASE ClearErase(t)
  BY <1>1, <1>5, PairInvFrame DEF ClearErase, Drop, Return, PairInv, OnlyStops, AnnouncePcs
<1>6. CASE Release(t)
  BY <1>1, <1>6, PairInvFrame DEF Release, Return, PairInv, OnlyStops, AnnouncePcs
<1>7. CASE EndBroadcast(t)
  BY <1>1, <1>7, PairInvFrame DEF EndBroadcast, Return, PairInv, OnlyStops, AnnouncePcs
<1>8. CASE JoinLast(t)
  <2>1. /\ running = 0 /\ streaming' = FALSE /\ pc["rtsp"] = "last" /\ pc'["rtsp"] = "erase"
        /\ pc'["main"] = pc["main"]
        /\ UNCHANGED <<av, state, gshut, running, slots, cur>>
    BY <1>1, <1>8 DEF JoinLast, PairInv
  <2> HIDE DEF IInv, TypeOK
  <2>2. QED
    BY <2>1 DEF PairInv, PlatformCallbacksPaired, OneThreadClears, AnnouncePcs
<1>9. CASE Join(t)
  <2> DEFINE s == cur["rtsp"]
  <2>1. pc["rtsp"] = "join" /\ s \in Sessions /\ s \in slots /\ av[s]["video"] = "done"
    BY <1>1, <1>9, CurSession DEF Join, RestPcs, LockInv, Over, ThreadsOver
  <2>2. s \in Counted \ Uncounted
    BY <2>1 DEF Counted, Uncounted, PairInv, OneThreadClears
  <2>3. running \in Nat \ {0}
    <3>1. Cardinality(Uncounted \cup {s}) = Cardinality(Uncounted) + 1
      BY <2>2, CountedFinite, FS_AddElement
    <3>2. Cardinality(Uncounted \cup {s}) <= Cardinality(Counted)
      BY <2>2, RunningIs, CountedFinite, FS_Subset
    <3>3. QED
      BY <3>1, <3>2, RunningIs, CountedFinite
  <2>4. running' = running - 1
    <3>1. running - 1 \in 0 .. CounterMod - 1
      BY <2>3
    <3>2. (running - 1) % CounterMod = running - 1
      BY <3>1, ModSmall
    <3>3. QED
      BY <1>9, <3>1, <3>2 DEF Join, Uncount
  <2>5. /\ pc'["rtsp"] = IF running' = 0 THEN "last" ELSE "erase"
        /\ pc'["main"] = pc["main"]
        /\ UNCHANGED <<av, state, gshut, streaming, slots, cur>>
    BY <1>1, <1>9 DEF Join, NoneLeft
  <2>6. streaming
    BY <2>1, <2>3 DEF PairInv, PlatformCallbacksPaired, OneThreadClears
  <2> HIDE DEF IInv, TypeOK
  <2>7. QED
    BY <2>1, <2>3, <2>4, <2>5, <2>6 DEF PairInv, PlatformCallbacksPaired, OneThreadClears, AnnouncePcs
<1>10. QED
  BY <1>2, <1>3, <1>4, <1>5, <1>6, <1>7, <1>8, <1>9 DEF Clear

\* The control thread, the threads of the sessions and the surroundings; the main thread
\* clears only when the host shuts down.
LEMMA OthersKeepPair ==
  ASSUME IInv, PairInv, OneThreadClears,
         \/ MainStop \/ Control \/ AppChange \/ Shutdown \/ UNCHANGED vars
         \/ \E s \in Sessions, k \in Kinds : Av(s, k)
  PROVE  PairInv'
<1> USE DEF IInv, TypeOK, sessionVars, refVars, slotVars, threadVars, countVars, envVars
<1>1. CASE MainStop \/ Shutdown
  BY <1>1 DEF MainStop, Shutdown, PairInv, OneThreadClears
<1>2. CASE AppChange \/ UNCHANGED vars
  BY <1>2, PairInvFrame DEF AppChange, vars, PairInv, OnlyStops
<1>3. CASE Control
  <2>1. UNCHANGED <<av, slotVars, threadVars, countVars, envVars>>
    BY <1>3 DEF Control, CtlVisit, CtlDisconnect, CtlConnect, CtlExitVisit, CtlTop, CtlSweepEnd, CtlBreak,
       CtlNoEvent, CtlExitEnd, CtlUnchanged
  <2> HIDE DEF IInv, TypeOK
  <2>2. OnlyStops
    BY <1>3, OthersKeepCounter DEF CountedKept
  <2>3. QED
    BY <2>1, <2>2, PairInvFrame DEF PairInv
<1>4. ASSUME NEW s \in Sessions, NEW k \in Kinds, Av(s, k)
      PROVE  PairInv'
  <2>1. OnlyStops
    BY <1>4, StopFacts DEF Av, AvRef, AvPing, AvExit, AvUnchanged, OnlyStops
  <2>2. UNCHANGED <<slotVars, threadVars, countVars, envVars>>
    BY <1>4 DEF Av, AvRef, AvPing, AvExit, AvUnchanged
  <2>3. av[s][k] # "none" /\ \E to : SetAv(s, k, to)
    BY <1>4 DEF Av, AvRef, AvPing, AvExit
  <2>4. \A r \in Sessions : av'[r]["video"] # "none" => av[r]["video"] # "none"
    BY <2>3 DEF SetAv
  <2> HIDE DEF IInv, TypeOK
  <2>5. QED
    BY <2>1, <2>2, <2>4, PairInvFrame DEF PairInv
<1>5. QED
  BY <1>1, <1>2, <1>3, <1>4

\* Outside of its callbacks the platform is prepared for streaming exactly while a session
\* is counted, where only the RTSP thread counts and uncounts. (With an HTTP thread that
\* clears as well this is false: its callback for the last session may come after
\* the one for the next session.)
THEOREM CallbacksPaired ==
  ASSUME OneThreadClears
  PROVE  Spec => []PlatformCallbacksPaired
<1>1. Init => PairInv
  BY DEF Init, PairInv, PlatformCallbacksPaired, AnnouncePcs
<1>2. IInv /\ CounterInv /\ PairInv /\ [Next]_vars => PairInv'
  BY RtspKeepsPair, ClearKeepsPair, OthersKeepPair DEF Next, OneThreadClears
<1>3. PairInv => PlatformCallbacksPaired
  BY DEF PairInv
<1>4. QED
  BY <1>1, <1>2, <1>3, Invariance, CounterInvariance, PTL DEF Spec

(***************************************************************************)
(* ListedIsAlive: without a graceful stop nobody but the control thread    *)
(* lets join return.                                                       *)
(***************************************************************************)

\* ListInv survives a step that leaves the list of the control thread alone, takes
\* no session out of the slots and brings nobody closer to an erase.
LEMMA ListInvFrame ==
  ASSUME IInv, ListInv, UNCHANGED <<ctlVars, controlEnd>>, slots \subseteq slots',
         ctx' = "down" => ctx = "down",
         \A s \in Sessions : life'[s] = "fresh" => life[s] = "fresh",
         pc'["rtsp"] \in {"ref", "remove", "push"} =>
           pc["rtsp"] \in {"ref", "remove", "push"} /\ cur'["rtsp"] = cur["rtsp"],
         \A t \in Threads : pc'[t] \in {"last", "erase"} =>
           pc[t] \in {"last", "erase"} /\ cur'[t] = cur[t],
         \A t \in Threads : pc'[t] \notin StopPcs
  PROVE  ListInv'
<1>1. Visitable' = Visitable
  BY DEF Visitable, ControlAlive, ctlVars
<1>2. QED
  BY <1>1 DEF ListInv, ctlVars

\* The steps of the RTSP thread outside of clear.
LEMMA RtspKeepsList ==
  ASSUME IInv, ListInv, Rtsp
  PROVE  ListInv'
<1> USE DEF IInv, TypeOK, Goto, sessionVars, refVars, slotVars, threadVars
<1>1. CASE RtspPeek \/ RtspTimeout \/ StartThreads \/ StartRunning \/ StartCount \/ StartFirst
  BY <1>1, ListInvFrame DEF RtspPeek, RtspTimeout, StartThreads, StartThread, StartRunning, StartCount, StartFirst,
     StopPcs, ListInv
<1>2. CASE AnnounceReturn
  BY <1>2, ListInvFrame DEF AnnounceReturn, Drop, Return, StopPcs, ListInv
<1>3. CASE RtspClear \/ RtspFinal
  BY <1>3, ListInvFrame DEF RtspClear, RtspFinal, ClearLock, StopPcs, ListInv
<1>4. CASE StartRef
  <2>1. CASE UNCHANGED <<ctx, cpc>>
    BY <1>4, <2>1, ListInvFrame DEF StartRef, TakeRef, ctlVars, StopPcs, ListInv
  <2>2. CASE count = 0 /\ ctx' = "up" /\ cpc' = "top"
    <3>1. sessions = {}
      <4>1. refs = {}
        BY <2>2, FS_EmptySet DEF CountInv
      <4>2. ctx = "down"
        BY <1>4, <4>1 DEF StartRef, CountInv
      <4>3. QED
        BY <4>2 DEF ListInv
    <3>2. Visitable' = {}
      BY <1>4, <2>2, <3>1 DEF StartRef, Visitable, ControlAlive
    <3>3. QED
      BY <1>4, <2>2, <3>2 DEF StartRef, ListInv, StopPcs
  <2>3. QED
    BY <1>4, <2>1, <2>2 DEF StartRef
<1>5. CASE StartFailed
  <2>1. cur["rtsp"] \in Sessions /\ cur["rtsp"] \notin Visitable
    BY <1>5, CurSession DEF StartFailed, ListInv, Visitable, RestPcs
  <2>2. slots' = slots \ {cur["rtsp"]} /\ pc'["rtsp"] \in {"release", "tick", "idle", "scan"}
        /\ \A t \in Threads \ {"rtsp"} : pc'[t] = pc[t] /\ cur'[t] = cur[t]
    BY <1>5 DEF StartFailed, Drop, Return
  <2>3. Visitable' = Visitable /\ UNCHANGED <<ctlVars, controlEnd, life, ctx>>
    BY <1>5 DEF StartFailed, Visitable, ControlAlive, ctlVars
  <2>4. QED
    BY <2>1, <2>2, <2>3 DEF ListInv, StopPcs, ctlVars
<1>6. CASE StartPush
  <2>1. cur["rtsp"] \in Sessions /\ cur["rtsp"] \in slots /\ ~controlEnd[cur["rtsp"]] /\ life[cur["rtsp"]] = "alive"
    BY <1>6, CurSession DEF StartPush, RestPcs, ListInv, AvInv, Unstarted, LifeInv
  <2>2. ctx # "down"
    BY <1>6 DEF StartPush, RefInv, CountInv, AnnouncePcs
  <2>3. Visitable' \subseteq Visitable \cup {cur["rtsp"]}
    BY <1>6 DEF StartPush, SessionsLocked, Visitable, ControlAlive
  <2>4. UNCHANGED <<slots, controlEnd, life, ctx, cpc, ctodo, cur>> /\ sessions' = sessions \cup {cur["rtsp"]}
        /\ cpc \notin {"sweep", "exit"} /\ pc'["rtsp"] = "arm" /\ \A t \in Threads \ {"rtsp"} : pc'[t] = pc[t]
    BY <1>6 DEF StartPush, SessionsLocked
  <2>5. QED
    BY <2>1, <2>2, <2>3, <2>4 DEF ListInv, StopPcs
<1>7. ASSUME NEW s \in Sessions, Announce(s)
      PROVE  ListInv'
  <2>1. s \notin sessions /\ ~controlEnd[s]
    BY <1>7 DEF Announce, ListInv
  <2>2. Visitable' = Visitable /\ UNCHANGED <<ctlVars, controlEnd, ctx>>
    BY <1>7 DEF Announce, Visitable, ControlAlive, ctlVars
  <2>3. /\ slots' = slots \cup {s} /\ pc'["rtsp"] = "ref" /\ cur'["rtsp"] = s
        /\ \A t \in Threads \ {"rtsp"} : pc'[t] = pc[t] /\ cur'[t] = cur[t]
        /\ \A r \in Sessions : life'[r] = "fresh" => life[r] = "fresh"
    BY <1>7 DEF Announce
  <2>4. QED
    BY <2>1, <2>2, <2>3 DEF ListInv, StopPcs, ctlVars
<1>8. QED
  BY <1>1, <1>2, <1>3, <1>4, <1>5, <1>6, <1>7 DEF Rtsp

\* The steps of clear, and of the end of a session and its context.
LEMMA ClearKeepsList ==
  ASSUME IInv, ListInv, NEW t \in Threads, Clear(t)
  PROVE  ListInv'
<1> USE DEF IInv, TypeOK, Goto, sessionVars, refVars, slotVars, threadVars
<1>1. CASE ClearVisit(t)
  BY <1>1, ListInvFrame DEF ClearVisit, StopPcs, ListInv
<1>2. CASE ClearReturn(t)
  BY <1>2, ListInvFrame DEF ClearReturn, StopPcs, ListInv
<1>3. CASE JoinThrows(t)
  BY <1>3, ListInvFrame DEF JoinThrows, StopPcs, ListInv
<1>4. CASE JoinLast(t)
  BY <1>4, ListInvFrame DEF JoinLast, StopPcs, ListInv
<1>5. CASE Release(t)
  BY <1>5, ListInvFrame DEF Release, Return, StopPcs, ListInv
<1>6. CASE Join(t)
  <2>1. controlEnd[cur[t]]
    BY <1>6 DEF Join, Over, ControlOver
  <2>2. Visitable' = Visitable /\ UNCHANGED <<ctlVars, controlEnd, life, ctx, slots, cur>>
    BY <1>6 DEF Join, Visitable, ControlAlive, ctlVars
  <2>3. pc'[t] \in {"last", "erase"} /\ \A u \in Threads \ {t} : pc'[u] = pc[u]
    BY <1>6 DEF Join
  <2>4. QED
    BY <2>1, <2>2, <2>3 DEF ListInv, StopPcs, ctlVars
<1>7. CASE ClearErase(t)
  <2>1. cur[t] \notin Visitable
    BY <1>7 DEF ClearErase, ListInv
  <2>2. slots' = slots \ {cur[t]} /\ pc'[t] \in {"release", "tick", "idle", "scan"}
        /\ \A u \in Threads \ {t} : pc'[u] = pc[u] /\ cur'[u] = cur[u]
    BY <1>7 DEF ClearErase, Drop, Return
  <2>3. Visitable' = Visitable /\ UNCHANGED <<ctlVars, controlEnd, life, ctx>>
    BY <1>7 DEF ClearErase, Visitable, ControlAlive, ctlVars
  <2> HIDE DEF IInv, TypeOK
  <2>4. \A s \in Visitable' : s \in slots' /\ ~controlEnd'[s]
    BY <2>1, <2>2, <2>3 DEF ListInv
  <2>5. QED
    BY <2>2, <2>3, <2>4 DEF ListInv, StopPcs, ctlVars
<1>8. CASE EndBroadcast(t)
  <2>1. Visitable' = {} /\ sessions' = {} /\ cpc' = "none" /\ UNCHANGED <<controlEnd, life>>
    BY <1>8 DEF EndBroadcast, Visitable, ControlAlive
  <2>2. pc'[t] \in {"tick", "idle", "scan"} /\ \A u \in Threads \ {t} : pc'[u] = pc[u] /\ cur'[u] = cur[u]
    BY <1>8 DEF EndBroadcast, Return
  <2>3. QED
    BY <2>1, <2>2 DEF ListInv, StopPcs
<1>9. QED
  BY <1>1, <1>2, <1>3, <1>4, <1>5, <1>6, <1>7, <1>8 DEF Clear

\* ListInv survives the end of the control stream of a session on the list, after
\* which the control thread does not visit it any more.
LEMMA ControlEnds ==
  ASSUME IInv, ListInv, NEW s \in sessions, life[s] = "alive", Visitable' = Visitable \ {s},
         controlEnd'[s], \A r \in Sessions \ {s} : controlEnd'[r] = controlEnd[r],
         UNCHANGED <<slots, life, ctx, pc, cur>>, cpc' = cpc, ctodo' = ctodo \ {s},
         sessions' \subseteq sessions, cpc \in {"sweep", "exit"} => ctodo' \subseteq sessions'
  PROVE  ListInv'
<1>1. s \in Sessions
  BY DEF IInv, TypeOK
<1>2. \A r \in Visitable' : r \in slots' /\ ~controlEnd'[r]
  BY DEF IInv, TypeOK, ListInv
<1>3. \A r \in Sessions : life'[r] = "fresh" => r \notin sessions' /\ ~controlEnd'[r]
  BY <1>1 DEF ListInv
<1>4. pc'["rtsp"] \in {"ref", "remove", "push"} =>
        cur'["rtsp"] \notin sessions' /\ ~controlEnd'[cur'["rtsp"]]
  BY CurSession DEF ListInv, RestPcs
<1>5. \A t \in Threads : pc'[t] \in {"last", "erase"} => controlEnd'[cur'[t]]
  BY CurSession DEF ListInv, RestPcs
<1>6. QED
  BY <1>2, <1>3, <1>4, <1>5 DEF ListInv

\* The steps of the control thread: what it lets join return for, it does not visit.
LEMMA ControlKeepsList ==
  ASSUME IInv, ListInv, Control
  PROVE  ListInv'
<1> USE DEF IInv, TypeOK, slotVars, threadVars, refVars, CtlUnchanged
<1> DEFINE Frame == UNCHANGED <<slots, life, ctx, pc, cur>>
<1>1. CASE CtlTop
  <2>1. Visitable' \subseteq Visitable /\ Frame /\ UNCHANGED <<sessions, controlEnd>> /\ ctodo' = sessions
    BY <1>1 DEF CtlTop, Visitable, ControlAlive
  <2>2. QED
    BY <2>1 DEF ListInv
<1>2. CASE CtlSweepEnd \/ CtlNoEvent \/ CtlExitEnd
  <2>1. /\ Visitable' \subseteq Visitable /\ Frame /\ UNCHANGED <<sessions, controlEnd>>
        /\ cpc' \notin {"sweep", "exit"}
    BY <1>2 DEF CtlSweepEnd, CtlNoEvent, CtlExitEnd, CtlIterates, Visitable, ControlAlive
  <2>2. QED
    BY <2>1 DEF ListInv
<1>3. CASE CtlBreak
  <2>1. Visitable' \subseteq Visitable /\ Frame /\ UNCHANGED <<sessions, controlEnd>> /\ ctodo' = sessions
    BY <1>3 DEF CtlBreak, Visitable, ControlAlive
  <2>2. QED
    BY <2>1 DEF ListInv
<1>4. ASSUME NEW s \in Sessions, CtlConnect(s) \/ CtlDisconnect(s)
      PROVE  ListInv'
  <2>1. /\ Visitable' \subseteq Visitable /\ Frame /\ UNCHANGED <<sessions, controlEnd>>
        /\ cpc' \notin {"sweep", "exit"}
    BY <1>4 DEF CtlConnect, CtlDisconnect, CtlIterates, Visitable, ControlAlive
  <2>2. QED
    BY <2>1 DEF ListInv
<1>5. ASSUME NEW s \in Sessions, NEW late \in BOOLEAN, CtlVisit(s, late)
      PROVE  ListInv'
  <2>1. s \in sessions /\ life[s] = "alive" /\ cpc = "sweep" /\ cpc' = "sweep" /\ ctodo' = ctodo \ {s} /\ Frame
    BY <1>5 DEF CtlVisit, ListInv, LifeInv, Visitable, ControlAlive
  <2>2. CASE sessions' = sessions \ {s} /\ EndControl(s)
    <3>1. Visitable' = Visitable \ {s}
      BY <2>1, <2>2 DEF Visitable, ControlAlive
    <3>2. \A r \in Sessions \ {s} : controlEnd'[r] = controlEnd[r]
      BY <2>2 DEF EndControl
    <3>3. controlEnd'[s]
      BY <2>2 DEF EndControl
    <3>4. ctodo' \subseteq sessions'
      BY <2>1, <2>2 DEF ListInv
    <3> HIDE DEF IInv
    <3>5. QED
      BY <2>1, <2>2, <3>1, <3>2, <3>3, <3>4, ControlEnds
  <2>3. CASE UNCHANGED <<sessions, controlEnd>>
    <3>1. Visitable' = Visitable
      BY <2>1, <2>3 DEF Visitable, ControlAlive
    <3>2. QED
      BY <2>1, <2>3, <3>1 DEF ListInv
  <2>4. QED
    BY <1>5, <2>2, <2>3 DEF CtlVisit
<1>6. ASSUME NEW s \in Sessions, CtlExitVisit(s)
      PROVE  ListInv'
  <2>1. /\ s \in sessions /\ life[s] = "alive" /\ cpc = "exit" /\ cpc' = "exit"
        /\ ctodo' = ctodo \ {s} /\ sessions' = sessions /\ Frame
    BY <1>6 DEF CtlExitVisit, ListInv, LifeInv, Visitable
  <2>2. Visitable' = Visitable \ {s}
    BY <2>1 DEF Visitable
  <2>3. controlEnd'[s] /\ \A r \in Sessions \ {s} : controlEnd'[r] = controlEnd[r]
    BY <1>6 DEF CtlExitVisit
  <2>4. ctodo' \subseteq sessions'
    BY <2>1 DEF ListInv
  <2> HIDE DEF IInv
  <2>5. QED
    BY <2>1, <2>2, <2>3, <2>4, ControlEnds
<1>7. QED
  BY <1>1, <1>2, <1>3, <1>4, <1>5, <1>6 DEF Control

\* The HTTP threads, the threads of the sessions and the surroundings.
LEMMA OthersKeepList ==
  ASSUME IInv, ListInv, "graceful" \notin Environment,
         \/ MainStop \/ AppChange \/ Shutdown \/ UNCHANGED vars
         \/ \E t \in HttpThreads : Http(t)
         \/ \E s \in Sessions, k \in Kinds : Av(s, k)
  PROVE  ListInv'
<1> USE DEF IInv, TypeOK, Goto, sessionVars, refVars, slotVars, threadVars
<1>1. CASE MainStop
  BY <1>1, ListInvFrame DEF MainStop, ClearLock, StopPcs, ListInv
<1>2. CASE AppChange \/ Shutdown \/ UNCHANGED vars
  BY <1>2, ListInvFrame DEF AppChange, Shutdown, vars, ListInv
<1>3. ASSUME NEW t \in HttpThreads, Http(t)
      PROVE  ListInv'
  <2>1. HttpCount(t) \/ HttpCancel(t)
    BY <1>3 DEF Http, GracefulFind, GracefulStop, GracefulRaise, GracefulDrop, ListInv, StopPcs
  <2>2. QED
    BY <2>1, ListInvFrame DEF HttpCount, HttpCancel, ClearLock, StopPcs, ListInv
<1>4. ASSUME NEW s \in Sessions, NEW k \in Kinds, Av(s, k)
      PROVE  ListInv'
  BY <1>4, ListInvFrame DEF Av, AvRef, AvPing, AvExit, AvUnchanged, ListInv
<1>5. QED
  BY <1>1, <1>2, <1>3, <1>4

\* Where the host never stops a session gracefully, the control thread never visits a
\* session that is destroyed, whoever clears the slots, the application and the host
\* end at any time, and ports cannot be bound.
THEOREM ListedAreAlive ==
  ASSUME "graceful" \notin Environment
  PROVE  Spec => []ListedIsAlive
<1>1. Init => ListInv
  BY DEF Init, ListInv, Visitable, ControlAlive, StopPcs
<1>2. IInv /\ ListInv /\ [Next]_vars => ListInv'
  BY RtspKeepsList, ClearKeepsList, ControlKeepsList, OthersKeepList DEF Next
<1>3. IInv /\ ListInv => ListedIsAlive
  BY DEF IInv, LifeInv, ListInv, ListedIsAlive, Visitable
<1>4. QED
  BY <1>1, <1>2, <1>3, Invariance, PTL DEF Spec

(***************************************************************************)
(* BroadcastIsShared: what shared_t promises. Each of the five steps that  *)
(* touch the references is a step of SharedRef; the others keep both.      *)
(***************************************************************************)

\* The references are in use exactly while the context is up, and counted.
LEMMA RefFacts ==
  ASSUME IInv
  PROVE  /\ refs \subseteq Sessions \X Holders /\ ctx \in {"down", "up", "ending"}
         /\ ctx = "up" <=> refs # {}
         /\ count = 0 <=> refs = {}
         /\ \A h \in refs : count = 1 <=> refs \ {h} = {}
<1>1. /\ refs \subseteq Sessions \X Holders /\ ctx \in {"down", "up", "ending"}
      /\ ctx = "up" <=> refs # {}
      /\ IsFiniteSet(refs) /\ count = Cardinality(refs)
  BY DEF IInv, TypeOK, CountInv
<1>2. count = 0 <=> refs = {}
  BY <1>1, FS_EmptySet
<1>3. ASSUME NEW h \in refs PROVE count = 1 <=> refs \ {h} = {}
  <2>1. IsFiniteSet(refs \ {h}) /\ Cardinality(refs \ {h}) = count - 1 /\ count \in Nat
    BY <1>1, FS_RemoveElement, FS_CardinalityType
  <2>2. Cardinality(refs \ {h}) = 0 <=> refs \ {h} = {}
    BY <2>1, FS_EmptySet
  <2>3. QED
    BY <2>1, <2>2
<1>4. QED
  BY <1>1, <1>2, <1>3

\* session::start takes the reference of a session, or nothing when it fails.
LEMMA StartRefAcquires ==
  ASSUME IInv, StartRef
  PROVE  Broadcast!Next \/ UNCHANGED <<refs, ctx>>
<1> DEFINE h == <<cur["rtsp"], "session">>
<1>1. cur["rtsp"] \in Sessions /\ h \notin refs
  BY CurSession DEF StartRef, RestPcs, IInv, RefInv
<1>2. h \in (Sessions \X Holders) \ refs
  BY <1>1 DEF Holders
<1>3. CASE UNCHANGED <<refs, ctx>>
  BY <1>3
<1>4. CASE TakeRef(h) /\ ctx # "ending" /\ IF count = 0 THEN ctx' = "up" ELSE ctx' = ctx
  <2>1. Broadcast!Acquire(h)
    BY <1>4, RefFacts DEF TakeRef, Broadcast!Acquire
  <2>2. QED
    BY <1>2, <2>1 DEF Broadcast!Next
<1>5. QED
  BY <1>3, <1>4 DEF StartRef

\* A thread of a session takes a reference while the session has one ...
LEMMA AvRefAcquires ==
  ASSUME IInv, NEW s \in Sessions, NEW k \in Kinds, AvRef(s, k)
  PROVE  Broadcast!Next
<1>1. <<s, k>> \in (Sessions \X Holders) \ refs /\ refs # {}
  BY DEF AvRef, Holders, IInv, RefInv
<1>2. Broadcast!Acquire(<<s, k>>)
  BY <1>1, RefFacts DEF AvRef, TakeRef, Broadcast!Acquire
<1>3. QED
  BY <1>1, <1>2 DEF Broadcast!Next

\* ... and releases it before the session does.
LEMMA AvExitReleases ==
  ASSUME IInv, NEW s \in Sessions, NEW k \in Kinds, AvExit(s, k)
  PROVE  Broadcast!Next
<1>1. k # "session"
  BY StreamAssumption
<1>2. <<s, k>> \in refs /\ <<s, "session">> \in refs \ {<<s, k>>}
  BY <1>1 DEF AvExit, IInv, RefInv
<1>3. Broadcast!Release(<<s, k>>)
  BY <1>2, RefFacts DEF AvExit, DropRef, Broadcast!Release
<1>4. QED
  BY <1>2, <1>3 DEF Broadcast!Next

\* ~session_t releases the reference of the session, if start got one.
LEMMA ReleaseReleases ==
  ASSUME IInv, NEW t \in Threads, Release(t)
  PROVE  Broadcast!Next \/ UNCHANGED <<refs, ctx>>
<1> DEFINE h == <<cur[t], "session">>
<1>1. CASE h \notin refs
  BY <1>1 DEF Release, refVars
<1>2. CASE h \in refs
  <2>1. refs' = refs \ {h} /\ ctx' = IF count = 1 THEN "ending" ELSE ctx
    BY <1>2 DEF Release, DropRef
  <2>2. Broadcast!Release(h)
    BY <1>2, <2>1, RefFacts DEF Broadcast!Release
  <2>3. QED
    BY <1>2, <2>2 DEF Broadcast!Next
<1>3. QED
  BY <1>1, <1>2

\* Sessions and threads share broadcast as SharedRef says (thread_safe.h:350): the
\* context that a session finds up is the one its predecessors use, and it is ended
\* once, by the last of them.
THEOREM SharedBroadcast == Spec => BroadcastIsShared
<1>1. Init => Broadcast!Init
  BY DEF Init, Broadcast!Init
<1>2. IInv /\ [Next]_vars => [Broadcast!Next]_<<refs, ctx>>
  <2> SUFFICES ASSUME IInv, [Next]_vars PROVE Broadcast!Next \/ UNCHANGED <<refs, ctx>>
    OBVIOUS
  <2>1. CASE Rtsp
    <3>1. CASE StartRef
      BY <3>1, StartRefAcquires
    <3>2. CASE Rtsp /\ ~StartRef
      BY <3>2 DEF Rtsp, RtspPeek, RtspTimeout, StartFailed, StartPush, StartThreads, StartThread,
         StartRunning, StartCount, StartFirst, AnnounceReturn, RtspClear, RtspFinal, ClearLock, Announce,
         refVars
    <3>3. QED
      BY <2>1, <3>1, <3>2
  <2>2. ASSUME NEW t \in Threads, Clear(t) PROVE Broadcast!Next \/ UNCHANGED <<refs, ctx>>
    <3>1. CASE Release(t)
      BY <3>1, ReleaseReleases
    <3>2. CASE EndBroadcast(t)
      BY <3>2 DEF EndBroadcast, IInv, CountInv, Broadcast!Next, Broadcast!Destroyed
    <3>3. CASE ClearVisit(t) \/ ClearReturn(t) \/ Join(t) \/ JoinThrows(t) \/ JoinLast(t) \/ ClearErase(t)
      BY <3>3 DEF ClearVisit, ClearReturn, Join, JoinThrows, JoinLast, ClearErase, refVars
    <3>4. QED
      BY <2>2, <3>1, <3>2, <3>3 DEF Clear
  <2>3. ASSUME NEW t \in HttpThreads, Http(t) PROVE UNCHANGED <<refs, ctx>>
    BY <2>3 DEF Http, HttpCount, HttpCancel, ClearLock, GracefulFind, GracefulStop, GracefulRaise,
       GracefulDrop, refVars
  <2>4. ASSUME NEW s \in Sessions, NEW k \in Kinds, Av(s, k)
        PROVE  Broadcast!Next \/ UNCHANGED <<refs, ctx>>
    BY <2>4, AvRefAcquires, AvExitReleases DEF Av, AvPing, refVars
  <2>5. CASE Control
    BY <2>5 DEF Control, CtlTop, CtlSweepEnd, CtlBreak, CtlNoEvent, CtlExitEnd, CtlVisit, CtlConnect,
       CtlDisconnect, CtlExitVisit, CtlUnchanged, refVars
  <2>6. CASE MainStop \/ AppChange \/ Shutdown \/ UNCHANGED vars
    BY <2>6 DEF MainStop, ClearLock, AppChange, Shutdown, vars, refVars
  <2>7. QED
    BY <2>1, <2>2, <2>3, <2>4, <2>5, <2>6 DEF Next
<1>3. QED
  BY <1>1, <1>2, Invariance, PTL DEF Spec, BroadcastIsShared, Broadcast!Spec
=============================================================================
