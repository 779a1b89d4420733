----------------------------- MODULE RecvThread -----------------------------
(***************************************************************************)
(* TRecv: a UDP socket and the thread that receives from it.  The calls    *)
(* are not thread-safe, so one owner makes them, one after the other; the  *)
(* thread runs beside it and may end by itself.  What the thread does with *)
(* a datagram, and what a scan of the slots does, is module Reassembly;    *)
(* here it is only the time during which the thread is in the reassembler. *)
(***************************************************************************)
EXTENDS Naturals, FiniteSets

CONSTANTS
    Threads,        \* the threads start() may create
    NoThread,       \* what a jthread that is not joinable holds
    EnomemThres     \* ENOMEM_THRES

ASSUME RecvThreadAssumption == NoThread \notin Threads /\ EnomemThres \in Nat

VARIABLES
    call,           \* the call the owner is in
    isBound,        \* updSock > -1
    recvThread,     \* the thread the member recvThread stands for
    threads         \* every thread: where it is, and its locals

vars == <<call, isBound, recvThread, threads>>

Calls == {"none", "start", "await", "stop", "bind", "destroy", "gone"}

Places == {"unused", "new", "loop", "scan", "recv", "packet", "backoff", "exited"}

ThreadType == [
    at : Places,
    stopRequested : BOOLEAN,
    timeoutSet : BOOLEAN,           \* SO_RCVTIMEO is in force
    scanDue : BOOLEAN,              \* reAsmScanInv is over
    count : 0..(EnomemThres + 1),   \* ENOMEM_count
    passThru : {"unset", "zero", "errno"},
    endedBy : {"nothing", "request", "setup", "enomem", "error"}]

NewThread == [at |-> "new", stopRequested |-> FALSE, timeoutSet |-> FALSE, scanDue |-> FALSE,
              count |-> 0, passThru |-> "unset", endedBy |-> "nothing"]

Unused == [NewThread EXCEPT !.at = "unused"]

Alive(t) == threads[t].at \notin {"unused", "exited"}

\* jthread::joinable: a thread that ended is joinable until it is joined.
JoinableUnlessStopping == recvThread # NoThread /\ ~threads[recvThread].stopRequested

Joinable == recvThread # NoThread

\* The constructor binds the socket, or fails to.
Init ==
    /\ call = "none"
    /\ isBound \in BOOLEAN
    /\ recvThread = NoThread
    /\ threads = [t \in Threads |-> Unused]

-----------------------------------------------------------------------------
\* The owner's calls.

Start ==
    /\ call = "none"
    /\ call' = "start"
    /\ UNCHANGED <<isBound, recvThread, threads>>

StartNotBound ==
    /\ call = "start"
    /\ ~isBound
    /\ call' = "none"
    /\ UNCHANGED <<isBound, recvThread, threads>>

\* start() returns 0.
StartAlreadyRunning ==
    /\ call = "start"
    /\ isBound
    /\ Joinable
    /\ call' = "none"
    /\ UNCHANGED <<isBound, recvThread, threads>>

StartThread(t) ==
    /\ call = "start"
    /\ isBound
    /\ ~Joinable
    /\ threads[t].at = "unused"
    /\ threads' = [threads EXCEPT ![t] = NewThread]
    /\ recvThread' = t
    /\ call' = "await"
    /\ UNCHANGED isBound

\* The thread has told whether it is set up.
StartReturns ==
    /\ call = "await"
    /\ threads[recvThread].passThru # "unset"
    /\ call' = "none"
    /\ UNCHANGED <<isBound, recvThread, threads>>

StopRequested == [t \in Threads |->
    IF t = recvThread THEN [threads[t] EXCEPT !.stopRequested = TRUE] ELSE threads[t]]

StopAsync ==
    /\ call = "none"
    /\ threads' = StopRequested
    /\ UNCHANGED <<call, isBound, recvThread>>

\* stop(), bindV4() and the destructor ask the thread to stop and join it.
StopAndJoin ==
    /\ call = "none"
    /\ call' \in {"stop", "bind", "destroy"}
    /\ threads' = StopRequested
    /\ UNCHANGED <<isBound, recvThread>>

\* The call does not wait for the thread.
StoppedNoJoin ==
    UNCHANGED <<recvThread, threads>>

Stopped ==
    /\ Joinable => threads[recvThread].at = "exited"
    /\ recvThread' = NoThread
    /\ threads' = [t \in Threads |-> IF t = recvThread THEN Unused ELSE threads[t]]

StopReturns ==
    /\ call = "stop"
    /\ Stopped
    /\ call' = "none"
    /\ UNCHANGED isBound

\* The old socket is closed; any of the calls that make the new one may fail.
BindReturns ==
    /\ call = "bind"
    /\ Stopped
    /\ isBound' \in BOOLEAN
    /\ call' = "none"

\* recvThread is the last member: it is destroyed before the socket is.
Destroyed ==
    /\ call = "destroy"
    /\ Stopped
    /\ isBound' = FALSE
    /\ call' = "gone"

-----------------------------------------------------------------------------
\* The thread.

Becomes(t, r) ==
    /\ threads' = [threads EXCEPT ![t] = r]
    /\ UNCHANGED <<call, isBound, recvThread>>

\* A setsockopt fails.
SetupFails(t) ==
    /\ threads[t].at = "new"
    /\ Becomes(t, [threads[t] EXCEPT !.at = "exited", !.passThru = "errno", !.endedBy = "setup"])

\* The failure to set SO_RCVTIMEO is only logged.
SetupWithoutTimeout(t) ==
    /\ threads[t].at = "new"
    /\ \E set \in BOOLEAN :
         Becomes(t, [threads[t] EXCEPT !.at = "loop", !.timeoutSet = set, !.passThru = "zero"])

SetupDone(t) ==
    /\ threads[t].at = "new"
    /\ Becomes(t, [threads[t] EXCEPT !.at = "loop", !.timeoutSet = TRUE, !.passThru = "zero"])

LoopTop(t) ==
    /\ threads[t].at = "loop"
    /\ Becomes(t,
         IF threads[t].stopRequested
         THEN [threads[t] EXCEPT !.at = "exited", !.endedBy = "request"]
         ELSE [threads[t] EXCEPT !.at = IF threads[t].scanDue THEN "scan" ELSE "recv"])

ScanReturns(t) ==
    /\ threads[t].at = "scan"
    /\ Becomes(t, [threads[t] EXCEPT !.at = "recv", !.scanDue = FALSE])

RecvPacket(t) ==
    /\ threads[t].at = "recv"
    /\ Becomes(t, [threads[t] EXCEPT !.at = "packet", !.count = 0])

PacketReturns(t) ==
    /\ threads[t].at = "packet"
    /\ Becomes(t, [threads[t] EXCEPT !.at = "loop"])

\* A datagram of no length.
RecvNothing(t) ==
    /\ threads[t].at = "recv"
    /\ Becomes(t, [threads[t] EXCEPT !.at = "loop", !.count = 0])

\* recv is called again at once.
RecvTimeoutInPlace(t) ==
    /\ threads[t].at = "recv"
    /\ threads[t].timeoutSet
    /\ Becomes(t, threads[t])

\* EAGAIN, EWOULDBLOCK: the count is kept.
RecvTimeout(t) ==
    /\ threads[t].at = "recv"
    /\ threads[t].timeoutSet
    /\ Becomes(t, [threads[t] EXCEPT !.at = "loop"])

\* EINTR, ECONNREFUSED, ENOTCONN: so it is.
RecvIgnored(t) ==
    /\ threads[t].at = "recv"
    /\ Becomes(t, [threads[t] EXCEPT !.at = "loop"])

\* ENOMEM: onRecvError, or a short sleep.
RecvNoMemory(t) ==
    /\ threads[t].at = "recv"
    /\ LET failed == [threads[t] EXCEPT !.count = @ + 1]
       IN  Becomes(t,
             IF failed.count > EnomemThres
             THEN [failed EXCEPT !.at = "exited", !.endedBy = "enomem"]
             ELSE [failed EXCEPT !.at = "backoff"])

Backoff(t) ==
    /\ threads[t].at = "backoff"
    /\ Becomes(t, [threads[t] EXCEPT !.at = "loop"])

\* Any other error: onRecvError.
RecvFails(t) ==
    /\ threads[t].at = "recv"
    /\ Becomes(t, [threads[t] EXCEPT !.at = "exited", !.endedBy = "error"])

\* Five milliseconds have passed since the last scan.
ScanComesDue(t) ==
    /\ Alive(t)
    /\ Becomes(t, [threads[t] EXCEPT !.scanDue = TRUE])

-----------------------------------------------------------------------------
OwnerCalls == Start \/ StopAsync \/ StopAndJoin

OwnerInCall ==
    \/ StartNotBound
    \/ StartAlreadyRunning
    \/ \E t \in Threads : StartThread(t)
    \/ StartReturns
    \/ StopReturns
    \/ BindReturns
    \/ Destroyed

\* What the thread does whatever the network does.
ThreadStep(t) ==
    \/ SetupFails(t)
    \/ SetupDone(t)
    \/ LoopTop(t)
    \/ ScanReturns(t)
    \/ PacketReturns(t)
    \/ RecvTimeout(t)
    \/ Backoff(t)

RecvReturns(t) ==
    \/ RecvPacket(t)
    \/ RecvNothing(t)
    \/ RecvIgnored(t)
    \/ RecvNoMemory(t)
    \/ RecvFails(t)

Terminated == call = "gone" /\ UNCHANGED vars

Next ==
    \/ OwnerCalls
    \/ OwnerInCall
    \/ \E t \in Threads : ThreadStep(t) \/ RecvReturns(t) \/ ScanComesDue(t)
    \/ Terminated

Spec == Init /\ [][Next]_vars

\* A call goes on until it returns; the thread is scheduled, and a recv that
\* nothing arrives for times out; time passes.
Fairness ==
    /\ WF_vars(OwnerInCall)
    /\ \A t \in Threads : WF_vars(ThreadStep(t)) /\ WF_vars(ScanComesDue(t))

FairSpec == Spec /\ Fairness

-----------------------------------------------------------------------------
\* Correctness.

\* Every variable has its type; the retries after ENOMEM are bounded.
TypeOK ==
    /\ call \in Calls
    /\ isBound \in BOOLEAN
    /\ recvThread \in Threads \cup {NoThread}
    /\ threads \in [Threads -> ThreadType]

\* However start, stop, stopAsync and bindV4 follow one another, and however
\* threads end by themselves, no thread but recvThread is left: the
\* reassembler has the single caller its comments ask for.
OneReceiver == \A t \in Threads : threads[t].at # "unused" => t = recvThread

\* The thread never calls recv on a socket that bindV4 or the destructor has
\* closed, nor on the one that took its descriptor.
SocketOpenUnderThread == \A t \in Threads : Alive(t) => isBound

\* Every call returns: start() is told by the thread, and the thread hears of
\* a stop even when nothing arrives.
CallsReturn == call # "none" ~> call \in {"none", "gone"}

\* As long as the thread lives it gets back to scanning the slots, with and
\* without datagrams and through every error it survives.
ScansGoOn == \A t \in Threads : []<>(threads[t].at = "scan" \/ ~Alive(t))

\* The comment at start()'s early return: already running, consider it a
\* success.
AlreadyRunningIsRunning == [][StartAlreadyRunning => Alive(recvThread)]_vars
=============================================================================
