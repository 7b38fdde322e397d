---------------------------- MODULE LaunchEvent ----------------------------
(***************************************************************************)
(* The pending launch of the RTSP server, src/src/rtsp.cpp: launch_event   *)
(* holds at most one launch_session_t between the launch request of a      *)
(* client and the moment its control stream opens, and raised_timer        *)
(* discards it after the ping timeout.                                     *)
(*                                                                         *)
(* Three threads meet here: the HTTPS server thread (launch, resume ->     *)
(* session_raise), the RTSP thread (handle_accept, cmd_announce, the       *)
(* handler of the timer: whatever io_context runs), and the control thread *)
(* of the streams (get_session -> session_clear, with _sessions locked).   *)
(* The HTTPS server has a single thread, so there is one session_raise at  *)
(* a time.                                                                 *)
(*                                                                         *)
(* The timer is one boost::asio::steady_timer: a wait that has not expired *)
(* is cancelled by expires_after and cancel; the completion of a wait that *)
(* has expired is queued in io_context and cannot be cancelled any more.   *)
(*                                                                         *)
(* Bounds: every launch of Launches is raised at most once (its id is      *)
(* ++session_id_counter), every connection of Conns is accepted once and   *)
(* carries at most one ANNOUNCE.                                           *)
(***************************************************************************)
EXTENDS Integers, Sequences

CONSTANTS
  Launches,   (* launch_session_t objects, one per launch or resume request *)
  Conns,      (* RTSP connections; each may become a stream                 *)
  NoLaunch    (* the null pointer                                           *)

ASSUME LaunchAssumption == NoLaunch \notin Launches

VARIABLES
  launch,   (* launch_event._status                                         *)
  used,     (* the launches that were requested                             *)
  hpc, hl,  (* HTTPS thread: step of session_raise, its argument            *)
  timer,    (* raised_timer: the launch its wait was armed for, or NoLaunch *)
  due,      (* queued completions of the timer (each shown by the launch it *)
            (* was armed for, which the handler itself does not know)       *)
  conn,     (* per connection: what has become of it                        *)
  of,       (* per connection: socket_t::session, later launch_session_id   *)
  pushing,  (* RTSP thread: the stream it is about to push, as a set        *)
  cpc, cc   (* control thread: step of session_clear, the stream it is for  *)

launchVars == <<launch, used, hpc, hl, timer, due, conn, of, pushing, cpc, cc>>

RtspIdle == pushing = {}    \* the RTSP thread is ready for another handler

LaunchTypeOK ==
  /\ launch \in Launches \cup {NoLaunch}
  /\ used \subseteq Launches
  /\ hpc \in {"idle", "raise", "arm"} /\ hl \in Launches \cup {NoLaunch}
  /\ timer \in Launches \cup {NoLaunch}
  /\ due \in Seq(Launches)
  /\ conn \in [Conns -> {"new", "closed", "open", "awaiting", "connected",
                      "over"}]
  /\ of \in [Conns -> Launches \cup {NoLaunch}]
  /\ pushing \in SUBSET Conns /\ cc \in SUBSET Conns
  /\ cpc \in {"idle", "cancel", "pop"}

LaunchInit ==
  /\ launch = NoLaunch /\ used = {} /\ hpc = "idle" /\ hl = NoLaunch
  /\ timer = NoLaunch /\ due = <<>>
  /\ conn = [c \in Conns |-> "new"] /\ of = [c \in Conns |-> NoLaunch]
  /\ pushing = {} /\ cpc = "idle" /\ cc = {}

(***************************************************************************)
(* The HTTPS thread: launch and resume end in session_raise.               *)
(***************************************************************************)

\* Mutant: the launch is raised although another one is pending.
RaiseAnyway == TRUE

MayRaise == launch = NoLaunch

\* The check for a pending launch; a second launch is dropped silently.
RaiseCheck(l) ==
  /\ hpc = "idle" /\ l \notin used
  /\ used' = used \cup {l}
  /\ IF MayRaise THEN hpc' = "raise" /\ hl' = l ELSE UNCHANGED <<hpc, hl>>
  /\ UNCHANGED <<launch, timer, due, conn, of, pushing, cpc, cc>>

Raise ==
  /\ hpc = "raise" /\ hpc' = "arm"
  /\ launch' = hl
  /\ UNCHANGED <<used, hl, timer, due, conn, of, pushing, cpc, cc>>

\* expires_after aborts a wait that is left over, async_wait starts a new one.
\* (A cancel between the two finds no wait: it is a cancel before both.)
ArmTimer == timer' = hl

RaiseArm ==
  /\ hpc = "arm" /\ hpc' = "idle" /\ hl' = NoLaunch
  /\ ArmTimer
  /\ UNCHANGED <<launch, used, due, conn, of, pushing, cpc, cc>>

(***************************************************************************)
(* The RTSP thread: one handler of io_context at a time.                   *)
(***************************************************************************)

\* The reactor finds the wait expired and queues its completion, behind the
\* socket handlers it found ready in the same pass.
Expire ==
  /\ RtspIdle /\ timer # NoLaunch
  /\ due' = Append(due, timer) /\ timer' = NoLaunch
  /\ UNCHANGED <<launch, used, hpc, hl, conn, of, pushing, cpc, cc>>

\* Mutant: the handler looks at the event (view) instead of taking it (pop).
ViewPending == UNCHANGED launch

\* pop(0s): whatever is pending is gone.
TakePending == launch' = NoLaunch

\* The completion of an expired wait runs.
Discard ==
  /\ RtspIdle /\ due # <<>>
  /\ due' = Tail(due)
  /\ TakePending
  /\ UNCHANGED <<used, hpc, hl, timer, conn, of, pushing, cpc, cc>>

\* handle_accept: the connection gets the pending launch or is closed.
Accept(c) ==
  /\ RtspIdle /\ conn[c] = "new"
  /\ conn' = [conn EXCEPT ![c] = IF launch = NoLaunch THEN "closed" ELSE "open"]
  /\ of' = [of EXCEPT ![c] = launch]
  /\ UNCHANGED <<launch, used, hpc, hl, timer, due, pushing, cpc, cc>>

\* A connection that ends without an ANNOUNCE, or with one that is refused.
Refuse(c) ==
  /\ RtspIdle /\ conn[c] = "open"
  /\ conn' = [conn EXCEPT ![c] = "over"]
  /\ UNCHANGED <<launch, used, hpc, hl, timer, due, of, pushing, cpc, cc>>

\* cmd_announce reaches session::start, which waits for _sessions ...
Announce(c) ==
  /\ RtspIdle /\ conn[c] = "open"
  /\ pushing' = {c}
  /\ UNCHANGED <<launch, used, hpc, hl, timer, due, conn, of, cpc, cc>>

\* ... which get_session holds as long as it is in session_clear.
Push(c) ==
  /\ c \in pushing /\ cpc = "idle"
  /\ pushing' = {}
  /\ conn' = [conn EXCEPT ![c] = "awaiting"]
  /\ UNCHANGED <<launch, used, hpc, hl, timer, due, of, cpc, cc>>

(***************************************************************************)
(* The control thread.                                                     *)
(***************************************************************************)

\* get_session finds the stream of a new peer; session_clear looks at the
\* pending launch: none, another one (an error in the log), or its own.
ClearView(c) ==
  /\ cpc = "idle" /\ conn[c] = "awaiting"
  /\ IF launch # NoLaunch /\ launch = of[c]
     THEN cpc' = "cancel" /\ cc' = {c} /\ UNCHANGED conn
     ELSE conn' = [conn EXCEPT ![c] = "connected"] /\ UNCHANGED <<cpc, cc>>
  /\ UNCHANGED <<launch, used, hpc, hl, timer, due, of, pushing>>

\* raised_timer.cancel()
ClearCancel ==
  /\ cpc = "cancel" /\ cpc' = "pop"
  /\ timer' = NoLaunch
  /\ UNCHANGED <<launch, used, hpc, hl, due, conn, of, pushing, cc>>

\* launch_event.pop() blocks until a launch is pending; get_session returns.
ClearPop ==
  /\ cpc = "pop" /\ launch # NoLaunch
  /\ launch' = NoLaunch
  /\ cpc' = "idle" /\ cc' = {}
  /\ conn' = [c \in Conns |-> IF c \in cc THEN "connected" ELSE conn[c]]
  /\ UNCHANGED <<used, hpc, hl, timer, due, of, pushing>>

\* A stream whose client never opens the control stream runs into its own
\* ping timeout (a pass of the control thread, _sessions locked).
StreamTimeout(c) ==
  /\ cpc = "idle" /\ conn[c] = "awaiting"
  /\ conn' = [conn EXCEPT ![c] = "over"]
  /\ UNCHANGED <<launch, used, hpc, hl, timer, due, of, pushing, cpc, cc>>

Https == (\E l \in Launches : RaiseCheck(l)) \/ Raise \/ RaiseArm
Rtsp == Expire \/ Discard
        \/ \E c \in Conns : Accept(c) \/ Refuse(c) \/ Announce(c) \/ Push(c)
Control == (\E c \in Conns : ClearView(c) \/ StreamTimeout(c))
           \/ ClearCancel \/ ClearPop

LaunchNext == Https \/ Rtsp \/ Control

LaunchSpec == LaunchInit /\ [][LaunchNext]_launchVars

(***************************************************************************)
(* Fairness: the threads go on, the reactor finds expired waits and runs   *)
(* what is queued. Clients owe nothing: no fairness for requests, RTSP     *)
(* connections, announcements or control streams.                          *)
(***************************************************************************)
FairLaunchSpec ==
  /\ LaunchSpec
  /\ WF_launchVars(Raise) /\ WF_launchVars(RaiseArm)
  /\ WF_launchVars(Expire) /\ WF_launchVars(Discard)
  /\ WF_launchVars(\E c \in Conns : Push(c))
  /\ WF_launchVars(ClearCancel) /\ WF_launchVars(ClearPop)

(***************************************************************************)
(* Properties.                                                             *)
(***************************************************************************)

\* Between the check of session_raise and its raise (rtsp.cpp:494-499) nobody
\* raises another launch: a pending launch is never replaced by another one.
NeverOverwritten ==
  [][launch # NoLaunch => launch' \in {launch, NoLaunch}]_launchVars

\* A pending launch always has somebody who will take it: its timer waits or has
\* expired, session_raise is about to arm it, or session_clear is taking it.
PendingIsBounded ==
  launch # NoLaunch =>
    timer # NoLaunch \/ due # <<>> \/ hpc = "arm" \/ cpc \in {"cancel", "pop"}

\* What session_raise relies on: no launch is pending while it raises its own.
RaiseIsSafe ==
  /\ hpc = "raise" => launch = NoLaunch
  /\ hpc # "idle" => hl # NoLaunch

\* The inductive invariant of LaunchAndPacketProofs.
LaunchInv == LaunchTypeOK /\ RaiseIsSafe /\ PendingIsBounded

\* A launch does not stay pending for ever, so the next client gets its turn
\* although session_raise drops requests while one is pending.
LaunchLeaves == \A l \in Launches : launch = l ~> launch # l

\* rtsp.cpp:488: a launch is discarded when its own ping timeout is over; the
\* completion of an older wait does not take a newer launch.
DiscardsOwnLaunch ==
  [][due # <<>> /\ due' = Tail(due) /\ launch # NoLaunch => launch = Head(due)]_launchVars
=============================================================================
