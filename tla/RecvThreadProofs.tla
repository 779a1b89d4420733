-------------------------- MODULE RecvThreadProofs --------------------------
(***************************************************************************)
(* Proofs about RecvThread: type correctness, that there is never a second *)
(* thread in the reassembler, and that no thread outlives its socket.      *)
(***************************************************************************)
EXTENDS RecvThread, TLAPS

\* A thread that lives has not used up its retries.  TypeOK alone does not say
\* so, and needs it.
RetriesLeft ==
    \A t \in Threads :
      Alive(t) => threads[t].count <= EnomemThres

IInv ==
    /\ TypeOK
    /\ RetriesLeft
    /\ OneReceiver
    /\ SocketOpenUnderThread

\* The records a thread starts with.
LEMMA FreshThreads ==
    /\ NewThread \in ThreadType
    /\ Unused \in ThreadType
    /\ Unused.at = "unused"
<1>1. 0 \in 0..(EnomemThres + 1)
  BY RecvThreadAssumption
<1>2. NewThread \in ThreadType
  BY <1>1 DEF NewThread, ThreadType, Places
<1>3. Unused \in ThreadType /\ Unused.at = "unused"
  BY <1>1 DEF Unused, NewThread, ThreadType, Places
<1> QED
  BY <1>2, <1>3

\* A thread becomes r: what of r keeps the invariant.
LEMMA BecomesKeepsIInv ==
    ASSUME NEW t \in Threads,
           NEW r \in ThreadType,
           IInv,
           Becomes(t, r),
           Alive(t),
           r.at # "unused",
           r.at # "exited" => r.count <= EnomemThres
    PROVE  IInv'
<1>1. /\ threads' = [threads EXCEPT ![t] = r]
      /\ threads \in [Threads -> ThreadType]
      /\ call' = call /\ isBound' = isBound /\ recvThread' = recvThread
  BY DEF Becomes, IInv, TypeOK
<1>2. TypeOK'
  BY <1>1 DEF IInv, TypeOK
<1>3. RetriesLeft'
  <2> SUFFICES ASSUME NEW u \in Threads
               PROVE  Alive(u)' => threads'[u].count <= EnomemThres
    BY DEF RetriesLeft
  <2>1. CASE u = t
    BY <2>1, <1>1 DEF Alive
  <2>2. CASE u # t
    BY <2>2, <1>1 DEF IInv, RetriesLeft, Alive
  <2> QED
    BY <2>1, <2>2
<1>4. OneReceiver'
  <2> SUFFICES ASSUME NEW u \in Threads, threads'[u].at # "unused"
               PROVE  u = recvThread'
    BY DEF OneReceiver
  <2> QED
    BY <1>1 DEF IInv, OneReceiver, Alive
<1>5. SocketOpenUnderThread'
  <2> SUFFICES ASSUME NEW u \in Threads, Alive(u)'
               PROVE  isBound'
    BY DEF SocketOpenUnderThread
  <2>1. CASE u = t
    BY <2>1, <1>1 DEF IInv, SocketOpenUnderThread
  <2>2. CASE u # t
    BY <2>2, <1>1 DEF IInv, SocketOpenUnderThread, Alive
  <2> QED
    BY <2>1, <2>2
<1> QED
  BY <1>2, <1>3, <1>4, <1>5 DEF IInv

\* The thread was joined: none is left.
LEMMA StoppedLeavesNone ==
    ASSUME IInv, Stopped
    PROVE  /\ \A t \in Threads : threads'[t].at = "unused"
           /\ threads' \in [Threads -> ThreadType]
           /\ recvThread' = NoThread
<1>1. Unused \in ThreadType /\ Unused.at = "unused"
  BY FreshThreads
<1>2. ASSUME NEW t \in Threads
      PROVE  threads'[t] \in ThreadType /\ threads'[t].at = "unused"
  <2>1. CASE t = recvThread
    BY <2>1, <1>1 DEF Stopped
  <2>2. CASE t # recvThread
    <3>1. threads'[t] = threads[t]
      BY <2>2 DEF Stopped
    <3> QED
      BY <2>2, <3>1 DEF IInv, OneReceiver, TypeOK
  <2> QED
    BY <2>1, <2>2
<1> QED
  BY <1>1, <1>2 DEF Stopped

LEMMA Initially == Init => IInv
<1> SUFFICES ASSUME Init PROVE IInv
  OBVIOUS
<1>1. Unused \in ThreadType /\ Unused.at = "unused"
  BY FreshThreads
<1>2. \A t \in Threads : threads[t] = Unused
  BY DEF Init
<1>3. TypeOK
  BY <1>1 DEF Init, TypeOK, Calls
<1>4. RetriesLeft /\ OneReceiver /\ SocketOpenUnderThread
  BY <1>2 DEF RetriesLeft, OneReceiver, SocketOpenUnderThread, Alive, Unused, NewThread
<1> QED
  BY <1>3, <1>4 DEF IInv

LEMMA Inductive == IInv /\ [Next]_vars => IInv'
<1> SUFFICES ASSUME IInv, [Next]_vars PROVE IInv'
  OBVIOUS
<1>1. CASE UNCHANGED <<isBound, recvThread, threads>> /\ call' \in Calls
  BY <1>1 DEF IInv, TypeOK, RetriesLeft, OneReceiver, SocketOpenUnderThread, Alive
<1>2. CASE UNCHANGED <<isBound, recvThread>> /\ threads' = StopRequested /\ call' \in Calls
  <2>1. ASSUME NEW t \in Threads
        PROVE  /\ threads'[t] \in ThreadType
               /\ threads'[t].at = threads[t].at
               /\ threads'[t].count = threads[t].count
    <3>1. threads[t] \in ThreadType
      BY DEF IInv, TypeOK
    <3>2. threads'[t] \in {threads[t], [threads[t] EXCEPT !.stopRequested = TRUE]}
      BY <1>2 DEF StopRequested
    <3> QED
      BY <3>1, <3>2 DEF ThreadType
  <2>2. threads' \in [Threads -> ThreadType]
    BY <1>2, <2>1 DEF StopRequested
  <2>3. TypeOK'
    BY <1>2, <2>2 DEF IInv, TypeOK
  <2>4. RetriesLeft'
    BY <2>1 DEF IInv, RetriesLeft, Alive
  <2>5. OneReceiver' /\ SocketOpenUnderThread'
    BY <1>2, <2>1 DEF IInv, OneReceiver, SocketOpenUnderThread, Alive
  <2> QED
    BY <2>3, <2>4, <2>5 DEF IInv
<1>3. ASSUME NEW t \in Threads, StartThread(t)
      PROVE  IInv'
  <2>1. /\ threads' = [threads EXCEPT ![t] = NewThread]
        /\ threads \in [Threads -> ThreadType]
        /\ recvThread' = t /\ call' = "await" /\ isBound' = isBound /\ isBound
    BY <1>3 DEF StartThread, IInv, TypeOK
  <2>2. TypeOK'
    BY <2>1, FreshThreads DEF IInv, TypeOK, Calls
  <2>3. \A u \in Threads : threads[u].at = "unused"
    BY <1>3, RecvThreadAssumption DEF StartThread, Joinable, IInv, OneReceiver
  <2>4. OneReceiver' /\ SocketOpenUnderThread'
    BY <2>1, <2>3 DEF OneReceiver, SocketOpenUnderThread
  <2>5. RetriesLeft'
    BY <2>1, RecvThreadAssumption DEF IInv, RetriesLeft, Alive, NewThread
  <2> QED
    BY <2>2, <2>4, <2>5 DEF IInv
<1>4. CASE Stopped /\ isBound' \in BOOLEAN /\ call' \in Calls
  <2>1. /\ \A t \in Threads : threads'[t].at = "unused"
        /\ threads' \in [Threads -> ThreadType]
        /\ recvThread' = NoThread
    BY <1>4, StoppedLeavesNone
  <2>2. TypeOK'
    BY <1>4, <2>1 DEF TypeOK
  <2>4. RetriesLeft' /\ OneReceiver' /\ SocketOpenUnderThread'
    BY <2>1 DEF RetriesLeft, OneReceiver, SocketOpenUnderThread, Alive
  <2> QED
    BY <2>2, <2>4 DEF IInv
<1>5. ASSUME NEW t \in Threads, ThreadStep(t) \/ RecvReturns(t) \/ ScanComesDue(t)
      PROVE  IInv'
  <2> DEFINE th == threads[t]
  <2>1. /\ th \in ThreadType
        /\ th.count \in Nat
        /\ EnomemThres \in Nat
        /\ Alive(t) => th.count <= EnomemThres
    BY RecvThreadAssumption DEF IInv, TypeOK, RetriesLeft, ThreadType
  <2>2. ASSUME NEW r \in ThreadType, Becomes(t, r), Alive(t), r.at # "unused",
               r.at # "exited" => r.count <= EnomemThres
        PROVE  IInv'
    BY <2>2, BecomesKeepsIInv
  <2>3. CASE SetupFails(t)
    <3> DEFINE r == [th EXCEPT !.at = "exited", !.passThru = "errno", !.endedBy = "setup"]
    <3>1. r \in ThreadType /\ r.at # "unused" /\ r.at = "exited"
      BY <2>1 DEF ThreadType, Places
    <3>2. Becomes(t, r) /\ Alive(t)
      BY <2>3 DEF SetupFails, Alive
    <3> QED
      BY <2>2, <3>1, <3>2
  <2>4. CASE SetupDone(t)
    <3> DEFINE r == [th EXCEPT !.at = "loop", !.timeoutSet = TRUE, !.passThru = "zero"]
    <3>1. Becomes(t, r) /\ Alive(t)
      BY <2>4 DEF SetupDone, Alive
    <3>2. r \in ThreadType /\ r.at # "unused" /\ r.count <= EnomemThres
      BY <2>1, <3>1 DEF ThreadType, Places
    <3> QED
      BY <2>2, <3>1, <3>2
  <2>5. CASE LoopTop(t)
    <3>1. Alive(t)
      BY <2>5 DEF LoopTop, Alive
    <3>2. CASE th.stopRequested
      <4> DEFINE r == [th EXCEPT !.at = "exited", !.endedBy = "request"]
      <4>1. Becomes(t, r)
        BY <2>5, <3>2 DEF LoopTop
      <4>2. r \in ThreadType /\ r.at # "unused" /\ r.at = "exited"
        BY <2>1 DEF ThreadType, Places
      <4> QED
        BY <2>2, <3>1, <4>1, <4>2
    <3>3. CASE ~th.stopRequested
      <4> DEFINE r == [th EXCEPT !.at = IF th.scanDue THEN "scan" ELSE "recv"]
      <4>1. Becomes(t, r)
        BY <2>5, <3>3 DEF LoopTop
      <4>2. r \in ThreadType /\ r.at # "unused" /\ r.count <= EnomemThres
        BY <2>1, <3>1 DEF ThreadType, Places
      <4> QED
        BY <2>2, <3>1, <4>1, <4>2
    <3> QED
      BY <3>2, <3>3
  <2>6. ASSUME NEW p \in {"scan", "recv", "packet", "backoff", "loop"}, NEW d \in BOOLEAN,
               NEW c \in Nat, c <= EnomemThres,
               Alive(t),
               Becomes(t, [th EXCEPT !.at = p, !.scanDue = d, !.count = c])
        PROVE  IInv'
    <3> DEFINE r == [th EXCEPT !.at = p, !.scanDue = d, !.count = c]
    <3>1. c \in 0..(EnomemThres + 1)
      BY <2>1, <2>6
    <3>2. r \in ThreadType /\ r.at # "unused" /\ r.count <= EnomemThres
      BY <2>1, <2>6, <3>1 DEF ThreadType, Places
    <3> QED
      BY <2>2, <2>6, <3>2
  <2>7. CASE ScanReturns(t)
    <3>1. Becomes(t, [th EXCEPT !.at = "recv", !.scanDue = FALSE, !.count = th.count])
      BY <2>1, <2>7 DEF ScanReturns, ThreadType
    <3> QED
      BY <2>1, <2>6, <2>7, <3>1 DEF ScanReturns, Alive
  <2>8. CASE PacketReturns(t) \/ Backoff(t)
    <3>1. Becomes(t, [th EXCEPT !.at = "loop", !.scanDue = th.scanDue, !.count = th.count])
      BY <2>1, <2>8 DEF PacketReturns, Backoff, ThreadType
    <3>2. th.scanDue \in BOOLEAN /\ Alive(t)
      BY <2>1, <2>8 DEF PacketReturns, Backoff, Alive, ThreadType
    <3>3. th.count <= EnomemThres /\ 0 <= EnomemThres
      BY <2>1, <3>2
    <3> QED
      BY <2>1, <2>6, <3>1, <3>2, <3>3
  <2>9. CASE RecvTimeout(t) \/ RecvIgnored(t)
    <3>1. Becomes(t, [th EXCEPT !.at = "loop", !.scanDue = th.scanDue, !.count = th.count])
      BY <2>1, <2>9 DEF RecvTimeout, RecvIgnored, ThreadType
    <3>2. th.scanDue \in BOOLEAN /\ Alive(t)
      BY <2>1, <2>9 DEF RecvTimeout, RecvIgnored, Alive, ThreadType
    <3>3. th.count <= EnomemThres /\ 0 <= EnomemThres
      BY <2>1, <3>2
    <3> QED
      BY <2>1, <2>6, <3>1, <3>2, <3>3
  <2>10. CASE RecvPacket(t)
    <3>1. Becomes(t, [th EXCEPT !.at = "packet", !.scanDue = th.scanDue, !.count = 0])
      BY <2>1, <2>10 DEF RecvPacket, ThreadType
    <3>2. th.scanDue \in BOOLEAN /\ Alive(t)
      BY <2>1, <2>10 DEF RecvPacket, Alive, ThreadType
    <3>3. th.count <= EnomemThres /\ 0 <= EnomemThres
      BY <2>1, <3>2
    <3> QED
      BY <2>1, <2>6, <3>1, <3>2, <3>3
  <2>11. CASE RecvNothing(t)
    <3>1. Becomes(t, [th EXCEPT !.at = "loop", !.scanDue = th.scanDue, !.count = 0])
      BY <2>1, <2>11 DEF RecvNothing, ThreadType
    <3>2. th.scanDue \in BOOLEAN /\ Alive(t)
      BY <2>1, <2>11 DEF RecvNothing, Alive, ThreadType
    <3>3. th.count <= EnomemThres /\ 0 <= EnomemThres
      BY <2>1, <3>2
    <3> QED
      BY <2>1, <2>6, <3>1, <3>2, <3>3
  <2>12. CASE RecvNoMemory(t)
    <3> DEFINE failed == [th EXCEPT !.count = @ + 1]
    <3>1. Alive(t)
      BY <2>12 DEF RecvNoMemory, Alive
    <3>2. /\ failed \in ThreadType
          /\ failed.count = th.count + 1
      <4>1. th.count + 1 \in 0..(EnomemThres + 1)
        BY <2>1, <3>1
      <4> QED
        BY <2>1, <4>1 DEF ThreadType
    <3> HIDE DEF failed
    <3>3. CASE failed.count > EnomemThres
      <4> DEFINE r == [failed EXCEPT !.at = "exited", !.endedBy = "enomem"]
      <4>1. Becomes(t, r)
        BY <2>12, <3>3 DEF RecvNoMemory, failed
      <4>2. r \in ThreadType /\ r.at = "exited"
        BY <3>2 DEF ThreadType, Places
      <4> QED
        BY <2>2, <3>1, <4>1, <4>2
    <3>4. CASE ~(failed.count > EnomemThres)
      <4> DEFINE r == [failed EXCEPT !.at = "backoff"]
      <4>1. Becomes(t, r)
        BY <2>12, <3>4 DEF RecvNoMemory, failed
      <4>2. r \in ThreadType /\ r.at = "backoff"
            /\ r.count <= EnomemThres
        BY <2>1, <3>1, <3>2, <3>4 DEF ThreadType, Places
      <4> QED
        BY <2>2, <3>1, <4>1, <4>2
    <3> QED
      BY <3>3, <3>4
  <2>13. CASE RecvFails(t)
    <3> DEFINE r == [th EXCEPT !.at = "exited", !.endedBy = "error"]
    <3>1. r \in ThreadType /\ r.at # "unused" /\ r.at = "exited"
      BY <2>1 DEF ThreadType, Places
    <3>2. Becomes(t, r) /\ Alive(t)
      BY <2>13 DEF RecvFails, Alive
    <3> QED
      BY <2>2, <3>1, <3>2
  <2>14. CASE ScanComesDue(t)
    <3> DEFINE r == [th EXCEPT !.scanDue = TRUE]
    <3>1. Becomes(t, r) /\ Alive(t)
      BY <2>14 DEF ScanComesDue
    <3>2. r \in ThreadType /\ r.at # "unused" /\ r.count <= EnomemThres
      BY <2>1, <3>1 DEF ThreadType, Alive
    <3> QED
      BY <2>2, <3>1, <3>2
  <2> QED
    BY <1>5, <2>3, <2>4, <2>5, <2>7, <2>8, <2>9, <2>10, <2>11, <2>12, <2>13, <2>14
       DEF ThreadStep, RecvReturns
<1>6. CASE OwnerCalls
  BY <1>1, <1>2, <1>6 DEF OwnerCalls, Start, StopAsync, StopAndJoin, Calls, IInv, TypeOK
<1>7. CASE OwnerInCall
  <2>1. CASE StartNotBound \/ StartAlreadyRunning \/ StartReturns
    BY <1>1, <2>1 DEF StartNotBound, StartAlreadyRunning, StartReturns, Calls
  <2>2. CASE StopReturns \/ BindReturns \/ Destroyed
    BY <1>4, <2>2 DEF StopReturns, BindReturns, Destroyed, Calls, IInv, TypeOK
  <2> QED
    BY <1>3, <1>7, <2>1, <2>2 DEF OwnerInCall
<1>8. CASE UNCHANGED vars
  BY <1>1, <1>8 DEF vars, IInv, TypeOK
<1> QED
  BY <1>5, <1>6, <1>7, <1>8 DEF Next, Terminated

LEMMA Invariance == Spec => []IInv
  BY Initially, Inductive, PTL DEF Spec

-----------------------------------------------------------------------------
\* Every reachable state is well typed: among the rest, a thread never counts
\* more than EnomemThres + 1 failures of recv for lack of memory.
THEOREM TypeCorrect == Spec => []TypeOK
  BY Invariance, PTL DEF IInv

\* The reassembler has one caller at a time, for every sequence of start,
\* stop, stopAsync and bindV4 and every way a thread may end.
THEOREM SingleCaller == Spec => []OneReceiver
  BY Invariance, PTL DEF IInv

\* bindV4 and the destructor close the socket only when no thread is left
\* that could call recv on it.
THEOREM ThreadHasSocket == Spec => []SocketOpenUnderThread
  BY Invariance, PTL DEF IInv
=============================================================================
