------------------------------ MODULE Fsys9Proofs ------------------------------
(***************************************************************************)
(* Proofs about Fsys9, for any number of files, threads and calls, any     *)
(* counts and whatever the server refuses.                                 *)
(***************************************************************************)
EXTENDS Fsys9, TLAPS

Jobs == {"read", "write", "async", "rewind"}

-----------------------------------------------------------------------------
(* Type correctness, one part of it after the other.                       *)

\* The locals of a call that returns have their initial values.
LEMMA ReturnTypes ==
  ASSUME LocalType, RequestType, NEW t \in Threads, Return(t)
  PROVE  LocalType' /\ RequestType'
<1>1. 0 \in Files
  BY FileAssumption DEF Files
<1>2. LocalType'
  BY <1>1 DEF LocalType, Return, Goto, Pcs
<1>3. RequestType'
  BY DEF RequestType, Return, NoReq, NoReply
<1> QED BY <1>2, <1>3

\* A part of a transfer is not longer than what is left (9fsys.c:347-350).
LEMMA ChunkBound ==
  ASSUME NEW n \in Nat
  PROVE  Chunk(n) \in Nat /\ Chunk(n) <= n
BY CountAssumption DEF Chunk

\* A request and the fids after it.
LEMMA SendTypes ==
  ASSUME RequestType, ServerType, NEW t \in Threads, NEW op \in Ops, NEW i \in Files,
         NEW meant \in Nat, NEW o \in Nat, NEW n \in Nat, Send(t, op, i, meant, o, n)
  PROVE  RequestType' /\ fids' \in [Files -> Nat] /\ UNCHANGED <<nsess, lost>>
<1>1. fids[i] \in Nat
  BY DEF ServerType
<1>2. RequestType'
  BY <1>1 DEF RequestType, Send, NoReply
<1>3. fids' \in [Files -> Nat]
  BY DEF Send, ServerType
<1> QED BY <1>2, <1>3 DEF Send

\* A reply that is not an error is a number.
LEMMA MovesTypes ==
  ASSUME TypeOK, NEW t \in Threads, Moves(t)
  PROVE  reply[t] \in Nat /\ ~lost /\ offs' \in [Files -> Nat] /\ offs'[file[t]] \in Nat
<1>1. reply[t] \in Nat /\ ~lost
  BY DEF Moves, Replied, Result, TypeOK, RequestType
<1>2. file[t] \in Files /\ offs \in [Files -> Nat]
  BY DEF TypeOK, LocalType, FsysType
<1> QED BY <1>1, <1>2 DEF Moves

\* The struct fsys9 and its files.
LEMMA FsysTypeStep ==
  ASSUME TypeOK, [Next]_vars
  PROVE  FsysType'
<1> USE DEF TypeOK, FsysType
<1>1. ASSUME NEW t \in Threads,
             \/ Open(t) \/ Unmount(t) \/ Reap(t) \/ WalkReply(t) \/ OpenFails(t)
             \/ UndoReply(t) \/ read9_async(t) \/ ClunkReply(t) \/ Serve(t)
             \/ \E i \in Files : Close(t, i)
             \/ \E i \in Files, n \in Counts \cup {0}, j \in Jobs : Use(t, i, j, n)
      PROVE  FsysType'
  <2>1. UNCHANGED fsysVars
    BY <1>1 DEF Open, Unmount, Reap, WalkReply, OpenFails, UndoReply, read9_async,
         ClunkReply, Serve, ServeWalk, ServeOpen, ServeIo, Refuse, ServeAsync, Reply,
         Close, Use
  <2> QED BY <2>1 DEF fsysVars
<1>2. ASSUME NEW t \in Threads, ClaimWaits(t) \/ UnmountWaits(t) \/ UnmountCloses(t)
      PROVE  FsysType'
  BY <1>2 DEF ClaimWaits, UnmountWaits, UnmountCloses, Unmounts
<1>3. ASSUME NEW t \in Threads, Claim(t) PROVE FsysType'
  <2>1. PICK i \in free_file :
          /\ used' = [used EXCEPT ![i] = TRUE] /\ offs' = [offs EXCEPT ![i] = 0]
          /\ fmtx' = [fmtx EXCEPT ![i] = NONE]
    BY <1>3 DEF Claim
  <2> QED BY <1>3, <2>1 DEF Claim
<1>4. ASSUME NEW t \in Threads, Unclaim(t) \/ CloseEnds(t) PROVE FsysType'
  BY <1>4 DEF Unclaim, CloseEnds, Release, Broadcast
<1>5. ASSUME NEW t \in Threads, Opened(t) \/ rewind9(t) \/ StartIo(t) \/ IoFails(t)
      PROVE  FsysType'
  BY <1>5 DEF Opened, rewind9, StartIo, IoFails, HoldWhileWaiting, Unlock
<1>6. ASSUME NEW t \in Threads, WriteMore(t) \/ IoEnds(t) PROVE FsysType'
  <2>1. offs' \in [Files -> Nat]
    BY <1>6, MovesTypes DEF WriteMore, IoEnds
  <2>2. fmtx' \in [Files -> Threads \cup {NONE}]
    BY <1>6 DEF WriteMore, IoEnds, Unlock
  <2> QED BY <1>6, <2>1, <2>2 DEF WriteMore, IoEnds
<1>7. ASSUME NEW t \in Threads, CloseLocks(t) \/ UnmountEnds(t) PROVE FsysType'
  BY <1>7 DEF CloseLocks, UnmountEnds
<1>8. CASE Lose \/ Quiet \/ UNCHANGED vars
  BY <1>8 DEF Lose, Quiet, vars, fsysVars
<1> QED BY <1>1, <1>2, <1>3, <1>4, <1>5, <1>6, <1>7, <1>8 DEF Next, Call, Proceed, Jobs

\* Where the threads are, and their locals.
LEMMA LocalTypeStep ==
  ASSUME TypeOK, [Next]_vars
  PROVE  LocalType'
<1> USE DEF TypeOK
<1>1. ASSUME NEW t \in Threads,
             \/ Opened(t) \/ Unclaim(t) \/ rewind9(t) \/ IoFails(t) \/ IoEnds(t)
             \/ CloseEnds(t)
      PROVE  LocalType'
  <2>1. Return(t)
    BY <1>1 DEF Opened, Unclaim, rewind9, IoFails, IoEnds, CloseEnds, Release
  <2> QED BY <2>1, ReturnTypes
<1>2. ASSUME NEW t \in Threads,
             \/ Open(t) \/ Unmount(t) \/ WalkReply(t) \/ OpenFails(t) \/ UndoReply(t)
             \/ read9_async(t) \/ StartIo(t) \/ ClunkReply(t) \/ CloseLocks(t)
             \/ UnmountCloses(t) \/ UnmountEnds(t)
      PROVE  LocalType'
  <2>1. UNCHANGED <<job, file, left, mine>>
    BY <1>2 DEF Open, Unmount, WalkReply, OpenFails, UndoReply, read9_async, StartIo,
         ClunkReply, CloseLocks, UnmountCloses, UnmountEnds, localVars
  <2>2. \E l \in Pcs : Goto(t, l)
    BY <1>2 DEF Open, Unmount, WalkReply, OpenFails, UndoReply, read9_async, StartIo,
         ClunkReply, CloseLocks, UnmountCloses, UnmountEnds, Undo, Pcs
  <2> QED BY <2>1, <2>2 DEF LocalType, Goto
<1>3. ASSUME NEW t \in Threads, Claim(t) PROVE LocalType'
  <2>1. PICK i \in Files : file' = [file EXCEPT ![t] = i]
    BY <1>3 DEF Claim, free_file, free_files
  <2>2. pc' = [pc EXCEPT ![t] = "walk"] /\ UNCHANGED <<job, left, mine>>
    BY <1>3 DEF Claim, Goto
  <2> QED BY <2>1, <2>2 DEF LocalType, Pcs
<1>4. ASSUME NEW t \in Threads, NEW i \in Files, Close(t, i) PROVE LocalType'
  BY <1>4 DEF Close, Goto, LocalType, Pcs
<1>5. ASSUME NEW t \in Threads, NEW i \in Files, NEW n \in Counts \cup {0}, NEW j \in Jobs,
             Use(t, i, j, n)
      PROVE  LocalType'
  <2>1. n \in Nat /\ session[i] \in Nat
    BY CountAssumption DEF ServerType
  <2> QED BY <1>5, <2>1 DEF Use, Goto, LocalType, Pcs, Jobs
<1>6. ASSUME NEW t \in Threads, WriteMore(t) PROVE LocalType'
  <2>1. left[t] \in Nat /\ left[t] - reply[t] \in Nat
    BY <1>6 DEF WriteMore, WriteGoesOn, LocalType
  <2>2. left' = [left EXCEPT ![t] = left[t] - reply[t]] /\ UNCHANGED <<pc, job, file, mine>>
    BY <1>6 DEF WriteMore
  <2> QED BY <2>1, <2>2 DEF LocalType
<1>7. ASSUME NEW t \in Threads, Reap(t) \/ ClaimWaits(t) \/ UnmountWaits(t) \/ Serve(t)
      PROVE  LocalType'
  <2>1. UNCHANGED <<pc, job, file, left, mine>>
    BY <1>7 DEF Reap, ClaimWaits, UnmountWaits, Serve, ServeWalk, ServeOpen, ServeIo,
         Refuse, ServeAsync, Reply, localVars
  <2> QED BY <2>1 DEF LocalType
<1>8. CASE Lose \/ Quiet \/ UNCHANGED vars
  BY <1>8 DEF Lose, Quiet, vars, localVars, LocalType
<1> QED BY <1>1, <1>2, <1>3, <1>4, <1>5, <1>6, <1>7, <1>8 DEF Next, Call, Proceed, Jobs

\* Requests, their replies, and the server.
LEMMA ServerTypeStep ==
  ASSUME TypeOK, [Next]_vars
  PROVE  RequestType' /\ ServerType'
<1> USE DEF TypeOK
<1>1. ASSUME NEW t \in Threads, NEW op \in Ops, NEW i \in Files, NEW meant \in Nat,
             NEW o \in Nat, NEW n \in Nat, Send(t, op, i, meant, o, n),
             session' \in [Files -> Nat], moved' \in [Files -> Nat]
      PROVE  RequestType' /\ ServerType'
  BY <1>1, SendTypes DEF ServerType
<1>2. ASSUME NEW t \in Threads, Claim(t) PROVE RequestType' /\ ServerType'
  <2>1. PICK i \in Files : Send(t, "walk", i, 0, 0, 0) /\ moved' = [moved EXCEPT ![i] = 0]
    BY <1>2 DEF Claim, free_file, free_files
  <2>2. UNCHANGED session
    BY <1>2 DEF Claim
  <2> QED BY <1>1, <2>1, <2>2 DEF ServerType, Ops
<1>3. ASSUME NEW t \in Threads, WalkReply(t) PROVE RequestType' /\ ServerType'
  <2>1. CASE Result(t) = Error
    BY <1>3, <2>1 DEF WalkReply, RequestType, ServerType, serverVars, histVars
  <2>2. CASE Result(t) # Error
    <3>1. reply[t] \in Nat /\ file[t] \in Files
      BY <1>3, <2>2 DEF WalkReply, Replied, Result, RequestType, LocalType
    <3>2. Send(t, "open", file[t], reply[t], 0, 0) /\ UNCHANGED <<session, moved>>
      BY <1>3, <2>2 DEF WalkReply, histVars
    <3> QED BY <1>1, <3>1, <3>2 DEF ServerType, Ops
  <2> QED BY <2>1, <2>2
<1>4. ASSUME NEW t \in Threads, OpenFails(t) PROVE RequestType' /\ ServerType'
  <2>1. req[t].meant \in Nat /\ file[t] \in Files
    BY DEF RequestType, LocalType
  <2>2. Send(t, "clunk", file[t], req[t].meant, 0, 0) /\ UNCHANGED <<session, moved>>
    BY <1>4 DEF OpenFails, Undo, histVars
  <2> QED BY <1>1, <2>1, <2>2 DEF ServerType, Ops
<1>5. ASSUME NEW t \in Threads, StartIo(t) PROVE RequestType' /\ ServerType'
  <2>1. /\ file[t] \in Files /\ mine[t] \in Nat /\ offs[file[t]] \in Nat
        /\ left[t] \in Nat /\ job[t] \in Ops
    BY <1>5 DEF StartIo, Locks, LocalType, FsysType, Ops
  <2>2. /\ Send(t, job[t], file[t], mine[t], offs[file[t]], Chunk(left[t]))
        /\ UNCHANGED <<session, moved>>
    BY <1>5 DEF StartIo, histVars
  <2> QED BY <1>1, <2>1, <2>2, ChunkBound DEF ServerType
<1>6. ASSUME NEW t \in Threads, WriteMore(t) PROVE RequestType' /\ ServerType'
  <2>1. file[t] \in Files /\ mine[t] \in Nat /\ offs'[file[t]] \in Nat
    BY <1>6, MovesTypes DEF WriteMore, LocalType
  <2>2. left'[t] \in Nat
    BY LocalTypeStep DEF LocalType
  <2>3. /\ Send(t, "write", file[t], mine[t], offs'[file[t]], Chunk(left'[t]))
        /\ UNCHANGED <<session, moved>>
    BY <1>6 DEF WriteMore, histVars
  <2> QED BY <1>1, <2>1, <2>2, <2>3, ChunkBound DEF ServerType, Ops
<1>7. ASSUME NEW t \in Threads, NEW i \in Files, Close(t, i)
      PROVE  RequestType' /\ ServerType'
  <2>1. session[i] \in Nat
    BY DEF ServerType
  <2>2. Send(t, "clunk", i, session[i], 0, 0) /\ UNCHANGED <<session, moved>>
    BY <1>7 DEF Close, histVars
  <2> QED BY <1>1, <2>1, <2>2 DEF ServerType, Ops
<1>8. ASSUME NEW t \in Threads, read9_async(t) PROVE RequestType' /\ ServerType'
  <2>1. fids[file[t]] \in Nat /\ mine[t] \in Nat /\ Chunk(left[t]) \in Nat
    BY ChunkBound DEF LocalType, ServerType
  <2>2. RequestType'
    BY <1>8, <2>1 DEF read9_async, RequestType, Ops
  <2>3. ServerType'
    BY <1>8 DEF read9_async, ServerType, serverVars, histVars
  <2> QED BY <2>2, <2>3
<1>9. ASSUME NEW t \in Threads,
             \/ Opened(t) \/ Unclaim(t) \/ rewind9(t) \/ IoFails(t) \/ IoEnds(t)
             \/ CloseEnds(t)
      PROVE  RequestType' /\ ServerType'
  <2>1. Return(t)
    BY <1>9 DEF Opened, Unclaim, rewind9, IoFails, IoEnds, CloseEnds, Release
  <2>2. RequestType'
    BY <2>1, ReturnTypes
  <2>3. UNCHANGED serverVars
    BY <1>9 DEF Opened, Unclaim, rewind9, IoFails, IoEnds, CloseEnds
  <2>4. session' \in [Files -> Nat]
    BY <1>9 DEF Opened, Unclaim, rewind9, IoFails, IoEnds, CloseEnds, histVars,
         ServerType, RequestType
  <2>5. moved' \in [Files -> Nat]
    BY <1>9 DEF Opened, Unclaim, rewind9, IoFails, IoEnds, CloseEnds, histVars,
         ServerType
  <2> QED BY <2>2, <2>3, <2>4, <2>5 DEF ServerType, serverVars
<1>10. ASSUME NEW t \in Threads, Serve(t) PROVE RequestType' /\ ServerType'
  <2>1. CASE ServeWalk(t)
    <3>1. nsess + 1 \in Nat
      BY DEF ServerType
    <3>2. RequestType'
      BY <2>1, <3>1 DEF ServeWalk, Reply, RequestType
    <3> QED BY <2>1, <3>1, <3>2 DEF ServeWalk, Reply, ServerType
  <2>2. CASE ServeOpen(t) \/ Refuse(t)
    BY <2>2 DEF ServeOpen, Refuse, Reply, RequestType, ServerType
  <2>3. CASE ServeIo(t)
    <3>1. req[t].n \in Nat /\ file[t] \in Files
      BY DEF RequestType, LocalType
    <3>2. PICK n \in 0 .. req[t].n : Reply(t, n) /\ moved' = [moved EXCEPT ![file[t]] = @ + n]
      BY <2>3 DEF ServeIo
    <3> QED BY <2>3, <3>1, <3>2 DEF ServeIo, Reply, RequestType, ServerType
  <2>4. CASE ServeAsync(t)
    BY <2>4 DEF ServeAsync, localVars, serverVars, histVars, RequestType, ServerType
  <2> QED BY <1>10, <2>1, <2>2, <2>3, <2>4 DEF Serve
<1>11. ASSUME NEW t \in Threads,
              \/ Open(t) \/ Unmount(t) \/ Reap(t) \/ ClaimWaits(t) \/ UndoReply(t)
              \/ ClunkReply(t) \/ CloseLocks(t) \/ UnmountWaits(t) \/ UnmountEnds(t)
              \/ \E i \in Files, n \in Counts \cup {0}, j \in Jobs : Use(t, i, j, n)
       PROVE  RequestType' /\ ServerType'
  <2>1. UNCHANGED <<req, reply, fids, nsess, lost, session, moved>>
    BY <1>11 DEF Open, Unmount, Reap, ClaimWaits, UndoReply, ClunkReply, CloseLocks,
         UnmountWaits, UnmountEnds, Use, localVars, serverVars, histVars
  <2> QED BY <2>1 DEF RequestType, ServerType
<1>12. ASSUME NEW t \in Threads, UnmountCloses(t) PROVE RequestType' /\ ServerType'
  BY <1>12 DEF UnmountCloses, RequestType, ServerType, localVars, histVars
<1>13. CASE Lose
  BY <1>13 DEF Lose, RequestType, ServerType, localVars, histVars
<1>14. CASE Quiet \/ UNCHANGED vars
  BY <1>14 DEF Quiet, vars, RequestType, ServerType, localVars, serverVars, histVars
<1> QED BY <1>2, <1>3, <1>4, <1>5, <1>6, <1>7, <1>8, <1>9, <1>10, <1>11, <1>12, <1>13,
           <1>14 DEF Next, Call, Proceed, Jobs

\* The callers' handles and asynchronous reads.
LEMMA CallerTypeStep ==
  ASSUME TypeOK, [Next]_vars
  PROVE  CallerType'
<1> USE DEF TypeOK, CallerType
<1>1. ASSUME NEW t \in Threads,
             Open(t) \/ \E i \in Files, n \in Counts \cup {0}, j \in Jobs : Use(t, i, j, n)
      PROVE  CallerType'
  <2>1. ncalls < MaxCalls /\ ncalls' = ncalls + 1 /\ UNCHANGED <<tag, handles>>
    BY <1>1 DEF Open, Use, CanCall, Called
  <2> QED BY <2>1, CountAssumption
<1>2. ASSUME NEW t \in Threads, Reap(t) \/ read9_async(t) \/ ServeAsync(t) PROVE CallerType'
  BY <1>2 DEF Reap, read9_async, ServeAsync
<1>3. ASSUME NEW t \in Threads, Opened(t) \/ \E i \in Files : Close(t, i) PROVE CallerType'
  BY <1>3 DEF Opened, Close, LocalType
<1>4. ASSUME NEW t \in Threads,
             \/ Unmount(t) \/ ClaimWaits(t) \/ Claim(t) \/ WalkReply(t) \/ OpenFails(t)
             \/ UndoReply(t) \/ Unclaim(t) \/ rewind9(t) \/ StartIo(t) \/ IoFails(t)
             \/ WriteMore(t) \/ IoEnds(t) \/ ClunkReply(t) \/ CloseLocks(t)
             \/ CloseEnds(t) \/ UnmountWaits(t) \/ UnmountCloses(t) \/ UnmountEnds(t)
             \/ ServeWalk(t) \/ ServeOpen(t) \/ ServeIo(t) \/ Refuse(t)
      PROVE  CallerType'
  <2>1. UNCHANGED <<ncalls, tag, handles>>
    BY <1>4 DEF Unmount, ClaimWaits, Claim, WalkReply, OpenFails, UndoReply, Unclaim,
         rewind9, StartIo, IoFails, WriteMore, IoEnds, ClunkReply, CloseLocks, CloseEnds,
         UnmountWaits, UnmountCloses, UnmountEnds, ServeWalk, ServeOpen, ServeIo, Refuse,
         Reply
  <2> QED BY <2>1
<1>5. CASE Lose \/ Quiet \/ UNCHANGED vars
  BY <1>5 DEF Lose, Quiet, vars
<1> QED BY <1>1, <1>2, <1>3, <1>4, <1>5 DEF Next, Call, Proceed, Serve, Jobs

LEMMA TypeStep ==
  ASSUME TypeOK, [Next]_vars
  PROVE  TypeOK'
BY FsysTypeStep, LocalTypeStep, ServerTypeStep, CallerTypeStep DEF TypeOK

LEMMA TypeInit == Init => TypeOK
<1> SUFFICES ASSUME Init PROVE TypeOK
  OBVIOUS
<1> USE DEF Init
<1>1. 0 \in Files
  BY FileAssumption DEF Files
<1>2. FsysType
  BY DEF FsysType
<1>3. LocalType
  BY <1>1 DEF LocalType, Pcs
<1>4. RequestType
  BY DEF RequestType, NoReq, NoReply
<1>5. ServerType
  BY DEF ServerType
<1>6. CallerType
  BY CountAssumption DEF CallerType
<1> QED BY <1>2, <1>3, <1>4, <1>5, <1>6 DEF TypeOK

\* Every reachable state is well typed.
THEOREM TypeCorrect == Spec => []TypeOK
BY TypeInit, TypeStep, PTL DEF Spec

-----------------------------------------------------------------------------
(* Nobody sleeps who could go on.                                          *)

\* Only open9 and unmount9 wait on the condition variable.
WaitInv ==
  /\ \A t \in waitSet : pc[t] \in {"claim", "unmount"}
  /\ Woken

\* Every step keeps it: a file is released together with the broadcast, and a
\* thread in the waitSet takes no step.
LEMMA WaitStep ==
  ASSUME TypeOK, WaitInv, [Next]_vars
  PROVE  WaitInv'
<1> USE DEF TypeOK, FsysType, LocalType, WaitInv, Woken
<1>1. ASSUME NEW t \in Threads, pc[t] \notin {"claim", "unmount"} \/ t \notin waitSet,
             \A u \in Threads \ {t} : pc'[u] = pc[u],
             UNCHANGED <<waitSet, used>>
      PROVE  WaitInv'
  BY <1>1
<1>2. ASSUME NEW t \in Threads, Open(t) \/ Unmount(t)
      PROVE  WaitInv'
  <2>1. pc[t] = "idle" /\ UNCHANGED <<waitSet, used>>
    BY <1>2 DEF Open, Unmount, CanCall, fsysVars
  <2>2. \A u \in Threads \ {t} : pc'[u] = pc[u]
    BY <1>2 DEF Open, Unmount, Goto
  <2> QED BY <1>1, <2>1, <2>2
<1>3. ASSUME NEW t \in Threads, Claim(t) PROVE WaitInv'
  <2>1. PICK i \in Files : used' = [used EXCEPT ![i] = TRUE]
    BY <1>3 DEF Claim, free_file, free_files
  <2>2. /\ t \notin waitSet /\ UNCHANGED waitSet
        /\ pc' = [pc EXCEPT ![t] = "walk"]
    BY <1>3 DEF Claim, Goto
  <2> QED BY <2>1, <2>2
<1>4. ASSUME NEW t \in Threads, Unclaim(t) \/ CloseEnds(t) PROVE WaitInv'
  BY <1>4 DEF Unclaim, CloseEnds, Release, Broadcast
<1>5. ASSUME NEW t \in Threads, ClaimWaits(t) PROVE WaitInv'
  BY <1>5 DEF ClaimWaits, free_files
<1>6. ASSUME NEW t \in Threads, UnmountWaits(t) PROVE WaitInv'
  BY <1>6 DEF UnmountWaits, Unmounts, has_open_files
<1>7. ASSUME NEW t \in Threads,
             \/ WalkReply(t) \/ Opened(t) \/ OpenFails(t) \/ UndoReply(t) \/ rewind9(t)
             \/ read9_async(t) \/ StartIo(t) \/ IoFails(t) \/ IoEnds(t) \/ ClunkReply(t)
             \/ CloseLocks(t) \/ UnmountEnds(t) \/ \E i \in Files : Close(t, i)
             \/ \E i \in Files, n \in Counts \cup {0}, j \in Jobs : Use(t, i, j, n)
      PROVE  WaitInv'
  <2>1. pc[t] \notin {"claim", "unmount"} /\ UNCHANGED <<waitSet, used>>
    BY <1>7 DEF WalkReply, Opened, OpenFails, UndoReply, rewind9, read9_async, StartIo,
         IoFails, IoEnds, Moves, ClunkReply, CloseLocks, UnmountEnds, Close, Use, Locks,
         CanCall, fsysVars
  <2>2. \E l \in Pcs : Goto(t, l)
    BY <1>7 DEF WalkReply, Opened, OpenFails, Undo, UndoReply, rewind9, read9_async,
         StartIo, IoFails, IoEnds, ClunkReply, CloseLocks, UnmountEnds, Close, Use,
         Return, Pcs
  <2>3. \A u \in Threads \ {t} : pc'[u] = pc[u]
    BY <2>2 DEF Goto
  <2> QED BY <1>1, <2>1, <2>3
<1>8. ASSUME NEW t \in Threads, UnmountCloses(t) PROVE WaitInv'
  <2>1. t \notin waitSet /\ UNCHANGED <<waitSet, used>>
    BY <1>8 DEF UnmountCloses, Unmounts
  <2>2. \A u \in Threads \ {t} : pc'[u] = pc[u]
    BY <1>8 DEF UnmountCloses, Goto
  <2> QED BY <1>1, <2>1, <2>2
<1>9. CASE \/ \E t \in Threads : Reap(t) \/ WriteMore(t) \/ Serve(t)
           \/ Lose \/ Quiet \/ UNCHANGED vars
  <2>1. UNCHANGED <<pc, waitSet, used>>
    BY <1>9 DEF Reap, WriteMore, Serve, ServeWalk, ServeOpen, ServeIo, Refuse,
         ServeAsync, Reply, Lose, Quiet, vars, fsysVars
  <2> QED BY <2>1
<1> QED BY <1>2, <1>3, <1>4, <1>5, <1>6, <1>7, <1>8, <1>9 DEF Next, Call, Proceed, Jobs

\* No wakeup is lost, for any number of files and threads: an open9 sleeps only
\* while all files are in use, an unmount9 only while one is
\* (9fsys.c:79-81, 101-104, 171-172, 187-189).
THEOREM NoLostWakeup == Spec => []Woken
<1>1. Init => WaitInv
  BY DEF Init, WaitInv, Woken
<1>2. WaitInv => Woken
  BY DEF WaitInv
<1> QED BY <1>1, <1>2, TypeInit, TypeStep, WaitStep, PTL DEF Spec

-----------------------------------------------------------------------------
(* Who may use a file.                                                     *)

Closing == {"clunk", "close", "drain"}
Holding == {"walk", "open", "undo", "unclaim"} \cup Closing

\* A thread that opens or closes a file has it for itself, and the file is in
\* use but not with the callers.
HoldInv ==
  /\ \A t \in Threads : pc[t] \in Holding => used[file[t]] /\ file[t] \notin handles
  /\ \A t, u \in Threads :
       t # u /\ pc[t] \in Holding /\ pc[u] \in Holding => file[t] # file[u]
  /\ \A i \in handles : used[i]

\* Every step keeps it.
LEMMA HoldStep ==
  ASSUME TypeOK, HoldInv, [Next]_vars
  PROVE  HoldInv'
<1> USE DEF TypeOK, FsysType, LocalType, CallerType, HoldInv, Holding, Closing
\* a step of t that leaves it holding what it held, or nothing
<1>1. ASSUME NEW t \in Threads, pc[t] \in Holding \/ pc'[t] \notin Holding,
             \A u \in Threads \ {t} : pc'[u] = pc[u] /\ file'[u] = file[u],
             pc'[t] \in Holding => file'[t] = file[t],
             UNCHANGED <<used, handles>>
      PROVE  HoldInv'
  BY <1>1
<1>2. ASSUME NEW t \in Threads,
             \/ Open(t) \/ Unmount(t) \/ rewind9(t) \/ IoFails(t) \/ IoEnds(t)
             \/ UnmountEnds(t) \/ UnmountCloses(t) \/ read9_async(t) \/ StartIo(t)
             \/ \E i \in Files, n \in Counts \cup {0}, j \in Jobs : Use(t, i, j, n)
      PROVE  HoldInv'
  <2>1. UNCHANGED <<used, handles>>
    BY <1>2 DEF Open, Unmount, rewind9, IoFails, IoEnds, UnmountEnds, UnmountCloses,
         Unmounts, read9_async, StartIo, Use, fsysVars
  <2>2. \E l \in Pcs \ Holding : Goto(t, l)
    BY <1>2 DEF Open, Unmount, rewind9, IoFails, IoEnds, UnmountEnds, UnmountCloses,
         read9_async, StartIo, Use, Return, Pcs
  <2>3. \A u \in Threads \ {t} : file'[u] = file[u]
    BY <1>2 DEF Open, Unmount, rewind9, IoFails, IoEnds, UnmountEnds, UnmountCloses,
         read9_async, StartIo, Use, Return, localVars
  <2>4. pc'[t] \notin Holding /\ \A u \in Threads \ {t} : pc'[u] = pc[u]
    BY <2>2 DEF Goto
  <2> HIDE DEF HoldInv, Holding
  <2> QED BY <1>1, <2>1, <2>3, <2>4
<1>3. ASSUME NEW t \in Threads,
             WalkReply(t) \/ OpenFails(t) \/ UndoReply(t) \/ ClunkReply(t) \/ CloseLocks(t)
      PROVE  HoldInv'
  <2>1. UNCHANGED <<used, handles, file>> /\ pc[t] \in Holding
    BY <1>3 DEF WalkReply, OpenFails, UndoReply, ClunkReply, CloseLocks, fsysVars,
         localVars
  <2>2. \E l \in Holding : Goto(t, l)
    BY <1>3 DEF WalkReply, OpenFails, Undo, UndoReply, ClunkReply, CloseLocks
  <2>3. \A u \in Threads \ {t} : pc'[u] = pc[u]
    BY <2>2 DEF Goto
  <2> HIDE DEF HoldInv, Holding
  <2> QED BY <1>1, <2>1, <2>3
<1>4. ASSUME NEW t \in Threads, Claim(t) PROVE HoldInv'
  <2>1. PICK i \in Files : /\ ~used[i]
                           /\ used' = [used EXCEPT ![i] = TRUE]
                           /\ file' = [file EXCEPT ![t] = i]
    BY <1>4 DEF Claim, free_file, free_files
  <2>2. pc' = [pc EXCEPT ![t] = "walk"] /\ UNCHANGED handles
    BY <1>4 DEF Claim, Goto
  <2> QED BY <2>1, <2>2
<1>5. ASSUME NEW t \in Threads, Opened(t) PROVE HoldInv'
  <2>1. /\ pc[t] = "open" /\ pc' = [pc EXCEPT ![t] = "idle"]
        /\ handles' = handles \cup {file[t]} /\ UNCHANGED used
        /\ file' = [file EXCEPT ![t] = 0]
    BY <1>5 DEF Opened, Return, Goto
  <2> QED BY <2>1
<1>6. ASSUME NEW t \in Threads, Unclaim(t) \/ CloseEnds(t) PROVE HoldInv'
  <2>1. /\ pc[t] \in Holding /\ pc' = [pc EXCEPT ![t] = "idle"]
        /\ used' = [used EXCEPT ![file[t]] = FALSE] /\ UNCHANGED handles
        /\ file' = [file EXCEPT ![t] = 0]
    BY <1>6 DEF Unclaim, CloseEnds, Release, Return, Goto
  <2> QED BY <2>1
<1>7. ASSUME NEW t \in Threads, NEW i \in Files, Close(t, i) PROVE HoldInv'
  <2>1. /\ pc[t] = "idle" /\ pc' = [pc EXCEPT ![t] = "clunk"]
        /\ i \in handles /\ handles' = handles \ {i} /\ UNCHANGED used
        /\ file' = [file EXCEPT ![t] = i]
    BY <1>7 DEF Close, Goto, fsysVars
  <2> QED BY <2>1
<1>8. CASE \/ \E t \in Threads : \/ Reap(t) \/ WriteMore(t) \/ Serve(t) \/ ClaimWaits(t)
                                \/ UnmountWaits(t)
           \/ Lose \/ Quiet \/ UNCHANGED vars
  <2>1. UNCHANGED <<pc, file, used, handles>>
    BY <1>8 DEF Reap, WriteMore, Serve, ServeWalk, ServeOpen, ServeIo, Refuse, ServeAsync,
         Reply, ClaimWaits, UnmountWaits, Lose, Quiet, vars, fsysVars, localVars
  <2> QED BY <2>1
<1> QED BY <1>2, <1>3, <1>4, <1>5, <1>6, <1>7, <1>8 DEF Next, Call, Proceed, Jobs

-----------------------------------------------------------------------------
(* The users of a file.                                                    *)

\* A thread inside read9 or write9 uses the file it has called with, which the
\* callers still have or which a close9 is waiting to give up; and the holder
\* of the file's mutex is the one that waits for a reply.
UseInv ==
  /\ \A t \in Threads :
       pc[t] \in {"lock", "io"} =>
         /\ mine[t] = session[file[t]]
         /\ \/ file[t] \in handles
            \/ /\ pc[t] = "io"
               /\ \E u \in Threads : pc[u] \in Closing /\ file[u] = file[t]
  /\ \A t \in Threads : pc[t] = "io" => fmtx[file[t]] = t

\* Every step keeps it, if the callers do not call close9 beside a blocked
\* read9 or write9.
LEMMA UseStep ==
  ASSUME TypeOK, HoldInv, UseInv, ~BesideBlocked, [Next]_vars
  PROVE  UseInv'
<1> USE DEF TypeOK, FsysType, LocalType, CallerType, ServerType
<1> DEFINE Same(u) == /\ pc'[u] = pc[u] /\ file'[u] = file[u] /\ mine'[u] = mine[u]
\* a step of t outside the calls that use or close a file
<1>1. ASSUME NEW t \in Threads,
             pc[t] \notin Closing \cup {"lock", "io"}, pc'[t] \notin {"lock", "io"},
             \A u \in Threads \ {t} : Same(u),
             UNCHANGED <<handles, session>>,
             \A i \in Files : fmtx'[i] = fmtx[i] \/ ~used[i]
      PROVE  UseInv'
  BY <1>1 DEF UseInv, HoldInv, Holding, Closing
<1>2. ASSUME NEW t \in Threads,
             \/ Open(t) \/ Unmount(t) \/ WalkReply(t) \/ OpenFails(t) \/ UndoReply(t)
             \/ Unclaim(t) \/ UnmountCloses(t) \/ UnmountEnds(t)
      PROVE  UseInv'
  <2>1. pc[t] \notin Closing \cup {"lock", "io"} /\ pc'[t] \notin {"lock", "io"}
    BY <1>2 DEF Open, Unmount, WalkReply, OpenFails, Undo, UndoReply, Unclaim, Release,
         Return, UnmountCloses, Unmounts, UnmountEnds, Goto, CanCall, Closing
  <2>2. \A u \in Threads \ {t} : Same(u)
    BY <1>2 DEF Open, Unmount, WalkReply, OpenFails, Undo, UndoReply, Unclaim, Release,
         Return, UnmountCloses, UnmountEnds, Goto, localVars
  <2>3. UNCHANGED <<handles, session, fmtx>>
    BY <1>2 DEF Open, Unmount, WalkReply, OpenFails, UndoReply, Unclaim,
         UnmountCloses, UnmountEnds, fsysVars, histVars
  <2> HIDE DEF Same
  <2> QED BY <1>1, <2>1, <2>2, <2>3
<1>3. ASSUME NEW t \in Threads, Claim(t) PROVE UseInv'
  <2>1. PICK i \in Files : /\ ~used[i]
                           /\ fmtx' = [fmtx EXCEPT ![i] = NONE]
                           /\ file' = [file EXCEPT ![t] = i]
    BY <1>3 DEF Claim, free_file, free_files
  <2>2. /\ pc[t] = "claim" /\ pc' = [pc EXCEPT ![t] = "walk"]
        /\ UNCHANGED <<handles, session, mine>>
    BY <1>3 DEF Claim, Goto
  <2> QED BY <1>1, <2>1, <2>2 DEF Closing
<1>4. ASSUME NEW t \in Threads, Opened(t) PROVE UseInv'
  <2>1. /\ pc[t] = "open" /\ pc' = [pc EXCEPT ![t] = "idle"]
        /\ handles' = handles \cup {file[t]}
        /\ fmtx' = [fmtx EXCEPT ![file[t]] = NONE]
        /\ session' = [session EXCEPT ![file[t]] = req[t].meant]
        /\ file' = [file EXCEPT ![t] = 0] /\ mine' = [mine EXCEPT ![t] = 0]
    BY <1>4 DEF Opened, Return, Goto
  <2>2. \A u \in Threads : pc[u] \in {"lock", "io"} => file[u] # file[t]
    BY <2>1 DEF UseInv, HoldInv, Holding, Closing
  <2> QED BY <2>1, <2>2 DEF UseInv, Closing
<1>5. ASSUME NEW t \in Threads, NEW i \in Files, NEW n \in Counts \cup {0}, NEW j \in Jobs,
             Use(t, i, j, n)
      PROVE  UseInv'
  <2>1. /\ pc[t] = "idle" /\ pc' = [pc EXCEPT ![t] = "lock"]
        /\ i \in handles /\ UNCHANGED <<handles, fmtx, session>>
        /\ file' = [file EXCEPT ![t] = i] /\ mine' = [mine EXCEPT ![t] = session[i]]
    BY <1>5 DEF Use, CanCall, Goto, fsysVars, histVars
  <2> QED BY <2>1 DEF UseInv, Closing
<1>6. ASSUME NEW t \in Threads, rewind9(t) \/ read9_async(t) PROVE UseInv'
  <2>1. /\ pc[t] = "lock" /\ pc' = [pc EXCEPT ![t] = "idle"]
        /\ UNCHANGED <<handles, fmtx, session>>
        /\ \A u \in Threads \ {t} : file'[u] = file[u] /\ mine'[u] = mine[u]
    BY <1>6 DEF rewind9, read9_async, Locks, Return, Goto, fsysVars, histVars
  <2> QED BY <2>1 DEF UseInv, Closing
<1>7. ASSUME NEW t \in Threads, StartIo(t) PROVE UseInv'
  <2>1. /\ pc[t] = "lock" /\ pc' = [pc EXCEPT ![t] = "io"]
        /\ fmtx[file[t]] = NONE /\ fmtx' = [fmtx EXCEPT ![file[t]] = t]
        /\ UNCHANGED <<handles, session, file, mine>>
    BY <1>7 DEF StartIo, HoldWhileWaiting, Locks, Goto, histVars
  <2>2. \A u \in Threads : pc[u] = "io" => file[u] # file[t]
    BY <2>1, ThreadAssumption DEF UseInv
  <2> QED BY <2>1, <2>2 DEF UseInv, Closing
<1>8. ASSUME NEW t \in Threads, IoFails(t) \/ IoEnds(t) PROVE UseInv'
  <2>1. /\ pc[t] = "io" /\ pc' = [pc EXCEPT ![t] = "idle"]
        /\ fmtx' = [fmtx EXCEPT ![file[t]] = NONE]
        /\ UNCHANGED <<handles, session>>
        /\ file' = [file EXCEPT ![t] = 0] /\ mine' = [mine EXCEPT ![t] = 0]
    BY <1>8 DEF IoFails, IoEnds, Moves, Unlock, Return, Goto, histVars
  <2>2. \A u \in Threads : pc[u] = "io" /\ u # t => file[u] # file[t]
    BY <2>1 DEF UseInv
  <2> QED BY <2>1, <2>2 DEF UseInv, Closing
<1>9. ASSUME NEW t \in Threads, NEW i \in Files, Close(t, i) PROVE UseInv'
  <2>1. /\ pc[t] = "idle" /\ pc' = [pc EXCEPT ![t] = "clunk"]
        /\ i \in handles /\ handles' = handles \ {i}
        /\ file' = [file EXCEPT ![t] = i] /\ UNCHANGED <<fmtx, session, mine>>
        /\ \A u \in Threads : pc[u] = "lock" => file[u] # i
    BY <1>9 DEF Close, Entering, Goto, fsysVars, histVars
  <2> QED BY <2>1 DEF UseInv, Closing
<1>10. ASSUME NEW t \in Threads, ClunkReply(t) \/ CloseLocks(t) PROVE UseInv'
  <2>1. /\ pc[t] \in Closing /\ \E l \in Closing : pc' = [pc EXCEPT ![t] = l]
        /\ UNCHANGED <<handles, fmtx, session, file, mine>>
    BY <1>10 DEF ClunkReply, CloseLocks, Goto, fsysVars, localVars, histVars, Closing
  <2> QED BY <2>1 DEF UseInv, Closing
<1>11. ASSUME NEW t \in Threads, CloseEnds(t) PROVE UseInv'
  <2>1. /\ pc[t] = "drain" /\ pc' = [pc EXCEPT ![t] = "idle"]
        /\ fmtx[file[t]] = NONE /\ UNCHANGED <<handles, fmtx, session>>
        /\ file' = [file EXCEPT ![t] = 0] /\ mine' = [mine EXCEPT ![t] = 0]
    BY <1>11 DEF CloseEnds, Drained, Release, Return, Goto, histVars
  <2>2. \A u \in Threads : pc[u] = "io" => file[u] # file[t]
    BY <2>1, ThreadAssumption DEF UseInv
  <2> QED BY <2>1, <2>2 DEF UseInv, Closing
<1>12. CASE \/ \E t \in Threads : \/ Reap(t) \/ WriteMore(t) \/ Serve(t) \/ ClaimWaits(t)
                                 \/ UnmountWaits(t)
            \/ Lose \/ Quiet \/ UNCHANGED vars
  <2>1. UNCHANGED <<pc, file, mine, handles, session, fmtx>>
    BY <1>12 DEF Reap, WriteMore, Serve, ServeWalk, ServeOpen, ServeIo, Refuse,
         ServeAsync, Reply, ClaimWaits, UnmountWaits, Lose, Quiet, vars, fsysVars,
         localVars, histVars
  <2> QED BY <2>1 DEF UseInv, Closing
<1> QED BY <1>2, <1>3, <1>4, <1>5, <1>6, <1>7, <1>8, <1>9, <1>10, <1>11, <1>12
        DEF Next, Call, Proceed, Jobs

-----------------------------------------------------------------------------
(* What the server knows of a fid.                                         *)

\* The request of a thread is of the kind that its place says.
OpInv ==
  \A t \in Threads :
    /\ pc[t] = "walk" => req[t].op = "walk"
    /\ pc[t] = "open" => req[t].op = "open"
    /\ pc[t] \in {"undo", "clunk"} => req[t].op = "clunk"
    /\ pc[t] = "io" => req[t].op \in {"read", "write"}

\* Every step keeps it.
LEMMA OpStep ==
  ASSUME TypeOK, OpInv, [Next]_vars
  PROVE  OpInv'
<1> USE DEF TypeOK, LocalType, RequestType
\* a step of t that ends outside wait9p, or sends a request
<1>1. ASSUME NEW t \in Threads,
             \A u \in Threads \ {t} : pc'[u] = pc[u] /\ req'[u] = req[u],
             pc'[t] \notin {"walk", "open", "undo", "clunk", "io"}
      PROVE  OpInv'
  BY <1>1 DEF OpInv
<1>2. ASSUME NEW t \in Threads, NEW op, NEW i, NEW meant, NEW o, NEW n, NEW l,
             Send(t, op, i, meant, o, n), pc' = [pc EXCEPT ![t] = l],
             \/ l = op /\ op \in {"walk", "open"}
             \/ l \in {"undo", "clunk"} /\ op = "clunk"
             \/ l = "io" /\ op \in {"read", "write"}
      PROVE  OpInv'
  BY <1>2 DEF OpInv, Send
<1>3. ASSUME NEW t \in Threads,
             \/ Open(t) \/ Unmount(t) \/ UndoReply(t) \/ ClunkReply(t) \/ CloseLocks(t)
             \/ UnmountCloses(t) \/ UnmountEnds(t) \/ read9_async(t)
             \/ Opened(t) \/ Unclaim(t) \/ rewind9(t) \/ IoFails(t) \/ IoEnds(t)
             \/ CloseEnds(t)
             \/ \E i \in Files, n \in Counts \cup {0}, j \in Jobs : Use(t, i, j, n)
      PROVE  OpInv'
  <2>1. \E l \in {"claim", "unmount", "unclaim", "close", "drain", "closing", "idle",
                  "lock"} : pc' = [pc EXCEPT ![t] = l]
    BY <1>3 DEF Open, Unmount, UndoReply, ClunkReply, CloseLocks, UnmountCloses,
         UnmountEnds, read9_async, Opened, Unclaim, rewind9, IoFails, IoEnds, CloseEnds,
         Release, Use, Return, Goto
  <2>2. \A u \in Threads \ {t} : req'[u] = req[u]
    BY <1>3 DEF Open, Unmount, UndoReply, ClunkReply, CloseLocks, UnmountCloses,
         UnmountEnds, read9_async, Opened, Unclaim, rewind9, IoFails, IoEnds, CloseEnds,
         Release, Use, Return, localVars
  <2> QED BY <1>1, <2>1, <2>2
<1>4. ASSUME NEW t \in Threads, Claim(t) PROVE OpInv'
  BY <1>2, <1>4 DEF Claim, Goto
<1>5. ASSUME NEW t \in Threads, WalkReply(t) PROVE OpInv'
  <2>1. CASE Result(t) = Error
    BY <1>1, <1>5, <2>1 DEF WalkReply, Goto
  <2>2. CASE Result(t) # Error
    BY <1>2, <1>5, <2>2 DEF WalkReply, Goto
  <2> QED BY <2>1, <2>2
<1>6. ASSUME NEW t \in Threads, OpenFails(t) PROVE OpInv'
  BY <1>2, <1>6 DEF OpenFails, Undo, Goto
<1>7. ASSUME NEW t \in Threads, NEW i \in Files, Close(t, i) PROVE OpInv'
  BY <1>2, <1>7 DEF Close, Goto
<1>8. ASSUME NEW t \in Threads, StartIo(t) PROVE OpInv'
  <2>1. job[t] \in {"read", "write"} /\ pc' = [pc EXCEPT ![t] = "io"]
    BY <1>8 DEF StartIo, Locks, Goto
  <2>2. Send(t, job[t], file[t], mine[t], offs[file[t]], Chunk(left[t]))
    BY <1>8 DEF StartIo
  <2>3. req' = [req EXCEPT ![t] =
                  [op |-> job[t], sess |-> fids[file[t]], meant |-> mine[t],
                   offs |-> offs[file[t]], n |-> Chunk(left[t])]]
    BY <2>2 DEF Send
  <2>4. req'[t].op = job[t] /\ \A u \in Threads \ {t} : req'[u] = req[u]
    BY <2>3
  <2> QED BY <2>1, <2>4 DEF OpInv
<1>9. ASSUME NEW t \in Threads, WriteMore(t) PROVE OpInv'
  <2>1. pc[t] = "io" /\ UNCHANGED pc
    BY <1>9 DEF WriteMore, Moves
  <2>2. Send(t, "write", file[t], mine[t], offs'[file[t]], Chunk(left'[t]))
    BY <1>9 DEF WriteMore
  <2>3. req'[t].op = "write" /\ \A u \in Threads \ {t} : req'[u] = req[u]
    BY <2>2 DEF Send
  <2> QED BY <2>1, <2>3 DEF OpInv
<1>10. CASE \/ \E t \in Threads : \/ Reap(t) \/ Serve(t) \/ ClaimWaits(t) \/ UnmountWaits(t)
            \/ Lose \/ Quiet \/ UNCHANGED vars
  <2>1. UNCHANGED <<pc, req>>
    BY <1>10 DEF Reap, Serve, ServeWalk, ServeOpen, ServeIo, Refuse, ServeAsync, Reply,
         ClaimWaits, UnmountWaits, Lose, Quiet, vars, localVars
  <2> QED BY <2>1 DEF OpInv
<1> QED BY <1>3, <1>4, <1>5, <1>6, <1>7, <1>8, <1>9, <1>10 DEF Next, Call, Proceed, Jobs

\* What the server may know of the fid that thread t holds.
HeldFid(t) ==
  /\ pc[t] = "walk" => fids[file[t]] \in {0, reply[t]}
  /\ pc[t] = "open" => fids[file[t]] \in {0, req[t].meant}
  /\ pc[t] \in {"undo", "unclaim"} \cup Closing => fids[file[t]] = 0

\* The server knows a fid only while its file is in use, and then in the
\* session of the file; a lost connection leaves none.
FidInv ==
  /\ lost => \A i \in Files : fids[i] = 0
  /\ \A i \in Files : ~used[i] => fids[i] = 0
  /\ \A i \in handles : fids[i] \in {0, session[i]}
  /\ \A t \in Threads : HeldFid(t)

\* Every step keeps it.
LEMMA FidStep ==
  ASSUME TypeOK, HoldInv, UseInv, OpInv, FidInv, [Next]_vars
  PROVE  FidInv'
<1> USE DEF TypeOK, FsysType, LocalType, CallerType, ServerType, RequestType
<1> DEFINE Same(u) == /\ pc'[u] = pc[u] /\ file'[u] = file[u]
                      /\ req'[u] = req[u] /\ reply'[u] = reply[u]
\* a step of t that leaves the server, the files and the handles alone
<1>1. ASSUME NEW t \in Threads, UNCHANGED <<fids, used, handles, session, lost>>,
             \A u \in Threads \ {t} : Same(u),
             HeldFid(t)'
      PROVE  FidInv'
  <2>1. ASSUME NEW u \in Threads \ {t} PROVE HeldFid(u)'
    BY <1>1, <2>1 DEF FidInv, HeldFid
  <2> QED BY <1>1, <2>1 DEF FidInv
<1>2. ASSUME NEW t \in Threads,
             \/ Open(t) \/ Unmount(t) \/ read9_async(t) \/ rewind9(t) \/ IoFails(t)
             \/ IoEnds(t) \/ UnmountEnds(t)
             \/ \E i \in Files, n \in Counts \cup {0}, j \in Jobs : Use(t, i, j, n)
      PROVE  FidInv'
  <2>1. UNCHANGED <<fids, used, handles, session, lost>>
    BY <1>2 DEF Open, Unmount, read9_async, rewind9, IoFails, IoEnds, UnmountEnds, Use,
         fsysVars, serverVars, histVars
  <2>2. \E l \in {"claim", "unmount", "idle", "lock"} : pc' = [pc EXCEPT ![t] = l]
    BY <1>2 DEF Open, Unmount, read9_async, rewind9, IoFails, IoEnds, UnmountEnds, Use,
         Return, Goto
  <2>3. \A u \in Threads \ {t} :
          file'[u] = file[u] /\ req'[u] = req[u] /\ reply'[u] = reply[u]
    BY <1>2 DEF Open, Unmount, read9_async, rewind9, IoFails, IoEnds, UnmountEnds, Use,
         Return, localVars
  <2>4. HeldFid(t)'
    BY <2>2 DEF HeldFid, Closing
  <2> QED BY <1>1, <2>1, <2>2, <2>3, <2>4
<1>3. ASSUME NEW t \in Threads, UndoReply(t) \/ ClunkReply(t) \/ CloseLocks(t)
      PROVE  FidInv'
  <2>1. UNCHANGED <<fids, used, handles, session, lost, file, req, reply>>
    BY <1>3 DEF UndoReply, ClunkReply, CloseLocks, fsysVars, localVars, serverVars,
         histVars
  <2>2. /\ pc[t] \in {"undo", "clunk", "close"}
        /\ \E l \in {"unclaim", "close", "drain"} : pc' = [pc EXCEPT ![t] = l]
    BY <1>3 DEF UndoReply, ClunkReply, CloseLocks, Goto
  <2>3. HeldFid(t)'
    BY <2>1, <2>2 DEF FidInv, HeldFid, Closing
  <2> QED BY <1>1, <2>1, <2>2, <2>3
<1>4. ASSUME NEW t \in Threads, WalkReply(t) PROVE FidInv'
  <2>1. UNCHANGED <<fids, used, handles, session, lost, file>>
    BY <1>4 DEF WalkReply, Send, fsysVars, serverVars, histVars
  <2>2. \A u \in Threads \ {t} : Same(u)
    BY <1>4, <2>1 DEF WalkReply, Send, Goto
  <2>3. pc[t] = "walk" /\ fids[file[t]] \in {0, reply[t]}
    BY <1>4 DEF WalkReply, FidInv, HeldFid
  <2>4. HeldFid(t)'
    <3>1. CASE Result(t) = Error
      <4>1. pc'[t] = "unclaim"
        BY <1>4, <3>1 DEF WalkReply, Goto
      <4>2. fids[file[t]] = 0
        BY <2>3, <3>1 DEF Result, Error, FidInv
      <4> QED BY <2>1, <4>1, <4>2 DEF HeldFid, Closing
    <3>2. CASE Result(t) # Error
      <4>1. pc'[t] = "open" /\ req'[t].meant = reply[t]
        BY <1>4, <3>2 DEF WalkReply, Goto, Send
      <4> QED BY <2>1, <2>3, <4>1 DEF HeldFid, Closing
    <3> QED BY <3>1, <3>2
  <2> QED BY <1>1, <2>1, <2>2, <2>4
<1>5. ASSUME NEW t \in Threads, StartIo(t) \/ WriteMore(t) PROVE FidInv'
  <2>1. UNCHANGED <<fids, used, handles, session, lost, file>>
    BY <1>5 DEF StartIo, WriteMore, Locks, Send, histVars
  <2>2. \A u \in Threads \ {t} : Same(u)
    BY <1>5, <2>1 DEF StartIo, WriteMore, Send, Goto
  <2>3. pc'[t] = "io"
    BY <1>5 DEF StartIo, WriteMore, Moves, Goto
  <2> QED BY <1>1, <2>1, <2>2, <2>3 DEF HeldFid, Closing
<1>6. ASSUME NEW t \in Threads, Reap(t) \/ ClaimWaits(t) \/ UnmountWaits(t) \/ ServeAsync(t)
      PROVE  FidInv'
  <2>1. UNCHANGED <<fids, used, handles, session, lost, pc, file, req, reply>>
    BY <1>6 DEF Reap, ClaimWaits, UnmountWaits, ServeAsync, fsysVars, localVars,
         serverVars, histVars
  <2> QED BY <2>1 DEF FidInv, HeldFid
<1>7. ASSUME NEW t \in Threads, Claim(t) PROVE FidInv'
  <2>1. PICK i \in Files : /\ ~used[i]
                           /\ used' = [used EXCEPT ![i] = TRUE]
                           /\ file' = [file EXCEPT ![t] = i]
                           /\ UNCHANGED <<fids, lost>>
    BY <1>7 DEF Claim, free_file, free_files, Send
  <2>2. /\ pc' = [pc EXCEPT ![t] = "walk"] /\ UNCHANGED <<handles, session>>
        /\ \A u \in Threads \ {t} : req'[u] = req[u] /\ reply'[u] = reply[u]
    BY <1>7 DEF Claim, Goto, Send
  <2>3. fids[i] = 0
    BY <2>1 DEF FidInv
  <2>4. ASSUME NEW u \in Threads PROVE HeldFid(u)'
    BY <2>1, <2>2, <2>3 DEF FidInv, HeldFid, Closing
  <2> QED BY <2>1, <2>2, <2>4 DEF FidInv
<1>8. ASSUME NEW t \in Threads, Opened(t) PROVE FidInv'
  <2>1. /\ pc[t] = "open" /\ pc' = [pc EXCEPT ![t] = "idle"]
        /\ handles' = handles \cup {file[t]}
        /\ session' = [session EXCEPT ![file[t]] = req[t].meant]
        /\ UNCHANGED <<fids, used, lost>>
        /\ \A u \in Threads \ {t} :
             file'[u] = file[u] /\ req'[u] = req[u] /\ reply'[u] = reply[u]
    BY <1>8 DEF Opened, Return, Goto, serverVars
  <2>2. ASSUME NEW u \in Threads PROVE HeldFid(u)'
    BY <2>1 DEF FidInv, HeldFid, Closing
  <2>3. fids[file[t]] \in {0, req[t].meant}
    BY <2>1 DEF FidInv, HeldFid
  <2> QED BY <2>1, <2>2, <2>3 DEF FidInv
<1>9. ASSUME NEW t \in Threads, NEW i \in Files,
             (OpenFails(t) /\ i = file[t]) \/ Close(t, i)
      PROVE  FidInv'
  <2>1. fids' = [fids EXCEPT ![i] = 0] /\ UNCHANGED <<used, session, lost>>
    BY <1>9 DEF OpenFails, Undo, Close, Send, fsysVars, histVars
  <2>2. /\ handles' \subseteq handles
        /\ pc'[t] \in {"undo", "clunk"} /\ file'[t] = i
        /\ \A u \in Threads \ {t} : Same(u)
    BY <1>9 DEF OpenFails, Undo, Close, Send, Goto
  <2>3. ASSUME NEW u \in Threads PROVE HeldFid(u)'
    BY <2>1, <2>2 DEF FidInv, HeldFid, Closing
  <2>4. \A j \in Files : fids'[j] \in {0, fids[j]}
    BY <2>1
  <2> QED BY <2>1, <2>2, <2>3, <2>4 DEF FidInv
<1>10. ASSUME NEW t \in Threads, Unclaim(t) \/ CloseEnds(t) PROVE FidInv'
  <2>1. /\ pc[t] \in {"unclaim", "drain"} /\ pc' = [pc EXCEPT ![t] = "idle"]
        /\ used' = [used EXCEPT ![file[t]] = FALSE]
        /\ UNCHANGED <<fids, handles, session, lost>>
        /\ \A u \in Threads \ {t} :
             file'[u] = file[u] /\ req'[u] = req[u] /\ reply'[u] = reply[u]
    BY <1>10 DEF Unclaim, CloseEnds, Release, Return, Goto, serverVars, histVars
  <2>2. ASSUME NEW u \in Threads PROVE HeldFid(u)'
    BY <2>1 DEF FidInv, HeldFid, Closing
  <2>3. fids[file[t]] = 0
    BY <2>1 DEF FidInv, HeldFid, Closing
  <2> QED BY <2>1, <2>2, <2>3 DEF FidInv
<1>11. ASSUME NEW t \in Threads, ServeWalk(t) PROVE FidInv'
  <2>1. pc[t] = "walk" /\ ~lost
    BY <1>11 DEF ServeWalk, Serves, Wait9p, Replied, OpInv
  <2>2. /\ fids' = [fids EXCEPT ![file[t]] = nsess + 1]
        /\ reply' = [reply EXCEPT ![t] = nsess + 1]
        /\ UNCHANGED <<used, handles, session, lost, pc, file, req>>
    BY <1>11 DEF ServeWalk, Reply, fsysVars
  <2>3. used[file[t]] /\ file[t] \notin handles
    BY <2>1 DEF HoldInv, Holding
  <2>4. nsess + 1 \in Nat
    OBVIOUS
  <2>5. HeldFid(t)'
    BY <2>1, <2>2, <2>4 DEF HeldFid, Closing
  <2>6. ASSUME NEW u \in Threads \ {t}, pc[u] \in Holding PROVE file[u] # file[t]
    BY <2>1, <2>6 DEF HoldInv, Holding
  <2>7. ASSUME NEW u \in Threads \ {t} PROVE HeldFid(u)'
    BY <2>2, <2>6 DEF FidInv, HeldFid, Holding, Closing
  <2> QED BY <2>1, <2>2, <2>3, <2>5, <2>7 DEF FidInv
<1>12. ASSUME NEW t \in Threads, ServeOpen(t) \/ ServeIo(t) \/ Refuse(t) PROVE FidInv'
  <2>1. /\ UNCHANGED <<fids, used, handles, session, lost, pc, file, req>>
        /\ \A u \in Threads \ {t} : reply'[u] = reply[u]
    BY <1>12 DEF ServeOpen, ServeIo, Refuse, Reply, fsysVars
  <2>2. HeldFid(t)
    BY DEF FidInv
  <2>3. HeldFid(t)'
    <3>1. CASE pc[t] = "walk"
      <4>1. reply[t] = NoReply
        BY <1>12 DEF ServeOpen, ServeIo, Refuse, Serves, Replied
      <4>2. fids[file[t]] = 0
        BY <2>2, <3>1, <4>1 DEF HeldFid, NoReply
      <4> QED BY <2>1, <3>1, <4>2 DEF HeldFid, Closing
    <3>2. CASE pc[t] # "walk"
      BY <2>1, <2>2, <3>2 DEF HeldFid
    <3> QED BY <3>1, <3>2
  <2> QED BY <1>1, <2>1, <2>3
<1>13. CASE Lose \/ \E t \in Threads : UnmountCloses(t)
  <2>1. fids' = [i \in Files |-> 0]
    BY <1>13 DEF Lose, UnmountCloses
  <2>2. handles' \subseteq Files /\ file' \in [Threads -> Files]
    BY <1>13 DEF Lose, UnmountCloses, localVars
  <2>3. ASSUME NEW u \in Threads PROVE HeldFid(u)'
    BY <2>1, <2>2 DEF HeldFid
  <2> QED BY <2>1, <2>2, <2>3 DEF FidInv
<1>14. CASE Quiet \/ UNCHANGED vars
  BY <1>14 DEF Quiet, vars, FidInv, HeldFid, fsysVars, localVars, serverVars, histVars
<1> HIDE DEF Same
<1>15. ASSUME NEW t \in Threads, OpenFails(t) PROVE FidInv'
  BY <1>9, <1>15
<1> QED BY <1>2, <1>3, <1>4, <1>5, <1>6, <1>7, <1>8, <1>9, <1>10, <1>11, <1>12, <1>13,
           <1>14, <1>15 DEF Next, Call, Proceed, Serve, Jobs

-----------------------------------------------------------------------------
(* No request reaches another file.                                        *)

\* Every step keeps it: a request names a fid whose file is held, or used.
LEMMA RightStep ==
  ASSUME TypeOK, HoldInv, UseInv, OpInv, FidInv, RightFile, [Next]_vars
  PROVE  RightFile'
<1> USE DEF TypeOK, FsysType, LocalType, CallerType, ServerType, RequestType
<1>1. ASSUME NEW t \in Threads, NEW op, NEW i \in Files, NEW meant, NEW o, NEW n,
             Send(t, op, i, meant, o, n), fids[i] \in {0, meant}
      PROVE  RightFile'
  BY <1>1 DEF Send, RightFile
<1>2. ASSUME NEW t \in Threads, pc[t] \in {"lock", "io"}
      PROVE  fids[file[t]] \in {0, mine[t]}
  <2>1. CASE file[t] \in handles
    BY <1>2, <2>1 DEF FidInv, UseInv
  <2>2. CASE file[t] \notin handles
    <3>1. PICK u \in Threads : pc[u] \in Closing /\ file[u] = file[t]
      BY <1>2, <2>2 DEF UseInv
    <3> QED BY <3>1 DEF FidInv, HeldFid
  <2> QED BY <2>1, <2>2
<1>3. ASSUME NEW t \in Threads, StartIo(t) PROVE RightFile'
  <2>1. Send(t, job[t], file[t], mine[t], offs[file[t]], Chunk(left[t])) /\ pc[t] = "lock"
    BY <1>3 DEF StartIo, Locks
  <2> QED BY <1>1, <1>2, <2>1
<1>4. ASSUME NEW t \in Threads, WriteMore(t) PROVE RightFile'
  <2>1. /\ Send(t, "write", file[t], mine[t], offs'[file[t]], Chunk(left'[t]))
        /\ pc[t] = "io"
    BY <1>4 DEF WriteMore, Moves
  <2> QED BY <1>1, <1>2, <2>1
<1>5. ASSUME NEW t \in Threads, read9_async(t) PROVE RightFile'
  <2>1. pc[t] = "lock"
    BY <1>5 DEF read9_async, Locks
  <2>2. fids[file[t]] \in {0, mine[t]}
    BY <1>2, <2>1
  <2>3. /\ req'[t].sess = fids[file[t]] /\ req'[t].meant = mine[t]
        /\ \A u \in Threads \ {t} : req'[u] = req[u]
    BY <1>5 DEF read9_async
  <2> QED BY <2>2, <2>3 DEF RightFile
<1>6. ASSUME NEW t \in Threads, Claim(t) PROVE RightFile'
  <2>1. PICK i \in Files : ~used[i] /\ Send(t, "walk", i, 0, 0, 0)
    BY <1>6 DEF Claim, free_file, free_files
  <2>2. fids[i] = 0
    BY <2>1 DEF FidInv
  <2> QED BY <1>1, <2>1, <2>2
<1>7. ASSUME NEW t \in Threads, WalkReply(t) PROVE RightFile'
  <2>1. CASE Result(t) = Error
    BY <1>7, <2>1 DEF WalkReply, RightFile
  <2>2. CASE Result(t) # Error
    <3>1. fids[file[t]] \in {0, reply[t]}
      BY <1>7 DEF WalkReply, FidInv, HeldFid
    <3>2. Send(t, "open", file[t], reply[t], 0, 0)
      BY <1>7, <2>2 DEF WalkReply
    <3> QED BY <1>1, <3>1, <3>2
  <2> QED BY <2>1, <2>2
<1>8. ASSUME NEW t \in Threads, OpenFails(t) PROVE RightFile'
  <2>1. fids[file[t]] \in {0, req[t].meant}
    BY <1>8 DEF OpenFails, FidInv, HeldFid
  <2>2. Send(t, "clunk", file[t], req[t].meant, 0, 0)
    BY <1>8 DEF OpenFails, Undo
  <2> QED BY <1>1, <2>1, <2>2
<1>9. ASSUME NEW t \in Threads, NEW i \in Files, Close(t, i) PROVE RightFile'
  <2>1. fids[i] \in {0, session[i]}
    BY <1>9 DEF Close, FidInv
  <2>2. Send(t, "clunk", i, session[i], 0, 0)
    BY <1>9 DEF Close
  <2> QED BY <1>1, <2>1, <2>2
<1>10. ASSUME NEW t \in Threads,
              \/ Opened(t) \/ Unclaim(t) \/ rewind9(t) \/ IoFails(t) \/ IoEnds(t)
              \/ CloseEnds(t)
       PROVE  RightFile'
  <2>1. req' = [req EXCEPT ![t] = NoReq]
    BY <1>10 DEF Opened, Unclaim, rewind9, IoFails, IoEnds, CloseEnds, Release, Return
  <2> QED BY <2>1 DEF RightFile, NoReq
<1>11. CASE \/ \E t \in Threads :
                 \/ Open(t) \/ Unmount(t) \/ Reap(t) \/ ClaimWaits(t) \/ UndoReply(t)
                 \/ ClunkReply(t) \/ CloseLocks(t) \/ UnmountWaits(t)
                 \/ UnmountCloses(t) \/ UnmountEnds(t) \/ Serve(t)
                 \/ \E i \in Files, n \in Counts \cup {0}, j \in Jobs : Use(t, i, j, n)
            \/ Lose \/ Quiet \/ UNCHANGED vars
  <2>1. UNCHANGED req
    BY <1>11 DEF Open, Unmount, Reap, ClaimWaits, UndoReply, ClunkReply, CloseLocks,
         UnmountWaits, UnmountCloses, UnmountEnds, Serve, ServeWalk, ServeOpen, ServeIo,
         Refuse, ServeAsync, Reply, Use, Lose, Quiet, vars, localVars
  <2> QED BY <2>1 DEF RightFile
<1> QED BY <1>3, <1>4, <1>5, <1>6, <1>7, <1>8, <1>9, <1>10, <1>11
        DEF Next, Call, Proceed, Jobs

\* The conjunction is inductive.
FileInv == TypeOK /\ HoldInv /\ UseInv /\ OpInv /\ FidInv /\ RightFile

\* mount9_client leaves no file in use, and no fid but the root's.
LEMMA FileInit == Init => FileInv
<1> SUFFICES ASSUME Init PROVE FileInv
  OBVIOUS
<1>1. TypeOK
  BY TypeInit
<1>2. HoldInv /\ UseInv /\ OpInv /\ RightFile
  BY DEF Init, HoldInv, UseInv, OpInv, RightFile, Holding, Closing, NoReq
<1>3. FidInv
  BY DEF Init, FidInv, HeldFid, Closing
<1> QED BY <1>1, <1>2, <1>3 DEF FileInv

\* Every step keeps the conjunction.
LEMMA FileStep ==
  ASSUME FileInv, ~BesideBlocked, [Next]_vars
  PROVE  FileInv'
BY TypeStep, HoldStep, UseStep, OpStep, FidStep, RightStep DEF FileInv

\* No request reaches a file that it is not meant for, for any number of files
\* and threads and whatever the server refuses, as long as no close9 is called
\* beside a read9 or write9 that still waits for the mutex of the file
\* (9fsys.c:99-109, 166-173, 182-190).
THEOREM RequestsReachTheirFile ==
  ASSUME ~BesideBlocked
  PROVE  Spec => []RightFile
<1>1. FileInv /\ [Next]_vars => FileInv'
  BY FileStep
<1>2. FileInv => RightFile
  BY DEF FileInv
<1> QED BY <1>1, <1>2, FileInit, PTL DEF Spec

-----------------------------------------------------------------------------
(* The offset of a file is what the server has moved.                      *)

\* The mutex of a file is held by the one thread that reads or writes it, and
\* the file is in use meanwhile.
LEMMA OneIo ==
  ASSUME FileInv, NEW t \in Threads, pc[t] = "io"
  PROVE  /\ fmtx[file[t]] = t /\ used[file[t]] /\ t # NONE
         /\ \A u \in Threads : pc[u] = "io" /\ file[u] = file[t] => u = t
<1>1. \A u \in Threads : pc[u] = "io" => fmtx[file[u]] = u
  BY DEF FileInv, UseInv
<1>2. used[file[t]]
  BY DEF FileInv, UseInv, HoldInv, Holding
<1>3. t # NONE
  BY ThreadAssumption
<1> QED BY <1>1, <1>2, <1>3

\* While the connection lasts, the offset of a file is behind what the server
\* has moved only by a reply that has not been looked at yet, and the request
\* of a read9 or write9 names the offset of its file.
MovedInv ==
  /\ \A i \in Files : (\A t \in Threads : pc[t] = "io" => file[t] # i) => moved[i] = offs[i]
  /\ \A t \in Threads :
       pc[t] = "io" =>
         /\ req[t].offs = offs[file[t]]
         /\ reply[t] \in {NoReply, Error} => moved[file[t]] = offs[file[t]]
         /\ reply[t] \in Nat => moved[file[t]] = offs[file[t]] + reply[t]
SeqInv == ~lost => MovedInv

\* Every step keeps it.
LEMMA SeqStep ==
  ASSUME FileInv, SeqInv, [Next]_vars
  PROVE  SeqInv'
<1> USE DEF NoReply, Error
<1>0. TypeOK
  BY DEF FileInv
<1>t. /\ pc \in [Threads -> Pcs] /\ file \in [Threads -> Files]
      /\ offs \in [Files -> Nat] /\ moved \in [Files -> Nat]
      /\ reply \in [Threads -> Nat \cup {NoReply, Error}]
  BY <1>0 DEF TypeOK, FsysType, LocalType, RequestType, ServerType
<1>r. DOMAIN req = Threads
  BY <1>0 DEF TypeOK, RequestType
<1>l. ~lost' => ~lost
  BY <1>0 DEF TypeOK, Next, Call, Proceed, Serve, Open, Unmount, Reap, Close, Use, Send,
     ClaimWaits, Claim, WalkReply, Opened, OpenFails, Undo, UndoReply, Unclaim, rewind9,
     read9_async, StartIo, IoFails, WriteMore, IoEnds, ClunkReply, CloseLocks, CloseEnds,
     UnmountWaits, UnmountCloses, UnmountEnds, ServeWalk, ServeOpen, ServeIo, Refuse,
     ServeAsync, Reply, Lose, Quiet, vars, serverVars
<1> SUFFICES ASSUME ~lost', ~lost, MovedInv PROVE MovedInv'
  BY <1>l DEF SeqInv
<1> HIDE DEF Files, Pcs
\* a step that starts or ends no transfer and moves nothing
<1>1. ASSUME NEW t \in Threads, pc[t] # "io", pc'[t] # "io", UNCHANGED <<offs, moved>>,
             \A u \in Threads \ {t} : /\ pc'[u] = pc[u] /\ file'[u] = file[u]
                                      /\ req'[u] = req[u] /\ reply'[u] = reply[u]
      PROVE  MovedInv'
  BY <1>1, <1>t DEF MovedInv
\* a step after which no transfer is in progress on file i
<1>2. ASSUME NEW t \in Threads, NEW i \in Files, pc'[t] # "io",
             \A u \in Threads \ {t} : /\ pc'[u] = pc[u] /\ file'[u] = file[u]
                                      /\ req'[u] = req[u] /\ reply'[u] = reply[u]
                                      /\ (pc[u] = "io" => file[u] # i),
             pc[t] = "io" => file[t] = i,
             offs'[i] = moved'[i],
             \A j \in Files \ {i} : offs'[j] = offs[j] /\ moved'[j] = moved[j]
      PROVE  MovedInv'
  BY <1>2, <1>t DEF MovedInv
<1>3. ASSUME NEW t \in Threads,
             \/ Open(t) \/ Unmount(t) \/ UndoReply(t) \/ ClunkReply(t) \/ CloseLocks(t)
             \/ UnmountEnds(t) \/ read9_async(t) \/ WalkReply(t) \/ OpenFails(t)
             \/ Opened(t) \/ Unclaim(t) \/ CloseEnds(t)
             \/ \E i \in Files : Close(t, i)
             \/ \E i \in Files, n \in Counts \cup {0}, j \in Jobs : Use(t, i, j, n)
      PROVE  MovedInv'
  <2>1. \E l \in Pcs \ {"io"} : pc' = [pc EXCEPT ![t] = l]
    BY <1>3 DEF Open, Unmount, UndoReply, ClunkReply, CloseLocks, UnmountEnds,
         read9_async, WalkReply, OpenFails, Undo, Opened, Unclaim, CloseEnds, Close, Use,
         Release, Return, Goto, Pcs
  <2>2. pc[t] # "io" /\ UNCHANGED <<offs, moved>>
    BY <1>3 DEF Open, Unmount, UndoReply, ClunkReply, CloseLocks, UnmountEnds,
         read9_async, WalkReply, OpenFails, Opened, Unclaim, CloseEnds, Close, Use,
         Locks, CanCall, fsysVars, histVars
  <2>3. \A u \in Threads \ {t} : /\ file'[u] = file[u]
                                 /\ req'[u] = req[u] /\ reply'[u] = reply[u]
    BY <1>t, <1>r, <1>3 DEF Open, Unmount, UndoReply, ClunkReply, CloseLocks, UnmountEnds,
         read9_async, WalkReply, OpenFails, Undo, Opened, Unclaim, CloseEnds, Close, Use,
         Release, Return, Send, localVars
  <2> QED BY <1>1, <1>t, <2>1, <2>2, <2>3
<1>4. ASSUME NEW t \in Threads, Claim(t) PROVE MovedInv'
  <2>1. PICK i \in Files : /\ ~used[i]
                           /\ offs' = [offs EXCEPT ![i] = 0]
                           /\ moved' = [moved EXCEPT ![i] = 0]
                           /\ file' = [file EXCEPT ![t] = i]
                           /\ Send(t, "walk", i, 0, 0, 0)
    BY <1>4 DEF Claim, free_file, free_files
  <2>2. pc[t] = "claim" /\ pc' = [pc EXCEPT ![t] = "walk"]
    BY <1>4 DEF Claim, Goto
  <2>3. \A u \in Threads \ {t} : req'[u] = req[u] /\ reply'[u] = reply[u]
    BY <2>1 DEF Send
  <2>4. \A u \in Threads : pc[u] = "io" => file[u] # i
    BY <2>1, OneIo
  <2> QED BY <1>2, <1>t, <2>1, <2>2, <2>3, <2>4
<1>5. ASSUME NEW t \in Threads, rewind9(t) PROVE MovedInv'
  <2>1. pc[t] = "lock" /\ fmtx[file[t]] = NONE /\ Return(t)
    BY <1>5 DEF rewind9, Locks
  <2>2. /\ offs' = [offs EXCEPT ![file[t]] = 0]
        /\ moved' = [moved EXCEPT ![file[t]] = 0]
    BY <1>5 DEF rewind9
  <2>3. PICK i \in Files : i = file[t]
    BY <1>t
  <2>4. \A u \in Threads : pc[u] = "io" => file[u] # i
    BY <2>1, <2>3, OneIo
  <2>5. pc'[t] = "idle" /\ \A u \in Threads \ {t} : /\ pc'[u] = pc[u] /\ file'[u] = file[u]
                                 /\ req'[u] = req[u] /\ reply'[u] = reply[u]
    BY <1>t, <2>1 DEF Return, Goto
  <2> QED BY <1>2, <1>t, <2>1, <2>2, <2>3, <2>4, <2>5
<1>6. ASSUME NEW t \in Threads, StartIo(t) PROVE MovedInv'
  <2>1. pc[t] = "lock" /\ fmtx[file[t]] = NONE /\ UNCHANGED <<offs, moved, file>>
    BY <1>6 DEF StartIo, Locks, histVars
  <2>2. pc' = [pc EXCEPT ![t] = "io"]
    BY <1>6 DEF StartIo, Goto
  <2>3. Send(t, job[t], file[t], mine[t], offs[file[t]], Chunk(left[t]))
    BY <1>6 DEF StartIo
  <2>4. /\ req'[t].offs = offs[file[t]] /\ reply'[t] = NoReply
        /\ \A u \in Threads \ {t} : req'[u] = req[u] /\ reply'[u] = reply[u]
    BY <1>t, <1>r, <2>3 DEF Send
  <2>5. \A u \in Threads : pc[u] = "io" => file[u] # file[t]
    BY <2>1, OneIo
  <2>6. moved[file[t]] = offs[file[t]]
    BY <1>t, <2>5 DEF MovedInv
  <2>7. ASSUME NEW i \in Files, \A u \in Threads : pc'[u] = "io" => file'[u] # i
        PROVE  moved[i] = offs[i]
    <3>1. \A u \in Threads : pc[u] = "io" => file[u] # i
      BY <1>t, <2>1, <2>2, <2>7
    <3> QED BY <3>1 DEF MovedInv
  <2>8. ASSUME NEW u \in Threads, u # t, pc'[u] = "io"
        PROVE  pc[u] = "io" /\ file'[u] = file[u]
    BY <1>t, <2>1, <2>2, <2>8
  <2>9. ASSUME NEW u \in Threads, pc'[u] = "io"
        PROVE  /\ req'[u].offs = offs[file[u]]
               /\ reply'[u] \in {NoReply, Error} => moved[file[u]] = offs[file[u]]
               /\ reply'[u] \in Nat => moved[file[u]] = offs[file[u]] + reply'[u]
    <3>1. CASE u = t
      BY <2>4, <2>6, <3>1
    <3>2. CASE u # t
      BY <2>4, <2>8, <2>9, <3>2 DEF MovedInv
    <3> QED BY <3>1, <3>2
  <2> HIDE DEF NoReply, Error
  <2> QED BY <2>1, <2>7, <2>9 DEF MovedInv
<1>7. ASSUME NEW t \in Threads, IoFails(t) \/ IoEnds(t) PROVE MovedInv'
  <2>1. pc[t] = "io" /\ Replied(t) /\ Return(t) /\ UNCHANGED moved
    BY <1>7 DEF IoFails, IoEnds, Moves, histVars
  <2>2. PICK i \in Files : i = file[t]
    BY <1>t
  <2>3. pc'[t] = "idle" /\ \A u \in Threads \ {t} : /\ pc'[u] = pc[u] /\ file'[u] = file[u]
                                 /\ req'[u] = req[u] /\ reply'[u] = reply[u]
    BY <1>t, <2>1 DEF Return, Goto
  <2>4. \A u \in Threads \ {t} : pc[u] = "io" => file[u] # i
    BY <2>1, <2>2, OneIo
  <2>5. offs'[i] = moved'[i] /\ \A j \in Files \ {i} : offs'[j] = offs[j]
    <3>1. CASE IoFails(t)
      <4>1. reply[t] = Error /\ UNCHANGED offs
        BY <3>1 DEF IoFails, Result
      <4> QED BY <2>1, <2>2, <4>1 DEF MovedInv
    <3>2. CASE IoEnds(t)
      <4>1. reply[t] \in Nat /\ offs' = [offs EXCEPT ![file[t]] = @ + reply[t]]
        BY <1>0, <3>2, MovesTypes DEF IoEnds, Moves
      <4>2. moved[i] = offs[i] + reply[t]
        BY <2>1, <2>2, <4>1 DEF MovedInv
      <4> QED BY <1>t, <2>1, <2>2, <4>1, <4>2
    <3> QED BY <1>7, <3>1, <3>2
  <2> QED BY <1>2, <2>1, <2>2, <2>3, <2>4, <2>5
<1>8. ASSUME NEW t \in Threads, WriteMore(t) PROVE MovedInv'
  <2>1. pc[t] = "io" /\ UNCHANGED <<pc, file, moved>>
    BY <1>8 DEF WriteMore, Moves, histVars
  <2>2. reply[t] \in Nat /\ offs' = [offs EXCEPT ![file[t]] = @ + reply[t]]
    BY <1>0, <1>8, MovesTypes DEF WriteMore, Moves
  <2>3. Send(t, "write", file[t], mine[t], offs'[file[t]], Chunk(left'[t]))
    BY <1>8 DEF WriteMore
  <2>4. /\ req'[t].offs = offs'[file[t]] /\ reply'[t] = NoReply
        /\ \A u \in Threads \ {t} : req'[u] = req[u] /\ reply'[u] = reply[u]
    BY <1>t, <1>r, <2>3 DEF Send
  <2>5. offs'[file[t]] = moved[file[t]]
    BY <1>t, <2>1, <2>2 DEF MovedInv
  <2>6. \A u \in Threads : u # t /\ pc[u] = "io" => file[u] # file[t]
    BY <2>1, OneIo
  <2>7. \A j \in Files : j # file[t] => offs'[j] = offs[j]
    BY <1>t, <2>2
  <2>8. ASSUME NEW i \in Files, \A u \in Threads : pc[u] = "io" => file[u] # i
        PROVE  moved[i] = offs'[i]
    BY <2>1, <2>7, <2>8 DEF MovedInv
  <2>9. ASSUME NEW u \in Threads, pc[u] = "io"
        PROVE  /\ req'[u].offs = offs'[file[u]]
               /\ reply'[u] \in {NoReply, Error} => moved[file[u]] = offs'[file[u]]
               /\ reply'[u] \in Nat => moved[file[u]] = offs'[file[u]] + reply'[u]
    <3>1. CASE u = t
      BY <2>4, <2>5, <3>1
    <3>2. CASE u # t
      <4>1. file[u] \in Files /\ file[u] # file[t]
        BY <1>t, <2>6, <2>9, <3>2
      <4>2. offs'[file[u]] = offs[file[u]] /\ req'[u] = req[u] /\ reply'[u] = reply[u]
        BY <2>4, <2>7, <3>2, <4>1
      <4> QED BY <2>9, <4>2 DEF MovedInv
    <3> QED BY <3>1, <3>2
  <2> HIDE DEF NoReply, Error
  <2> QED BY <2>1, <2>8, <2>9 DEF MovedInv
<1>9. ASSUME NEW t \in Threads, ServeIo(t) PROVE MovedInv'
  <2>1. pc[t] = "io" /\ reply[t] = NoReply
    BY <1>9 DEF ServeIo, Serves, Wait9p, Replied, FileInv, OpInv
  <2>2. PICK n \in 0 .. req[t].n : Reply(t, n) /\ moved' = [moved EXCEPT ![file[t]] = @ + n]
    BY <1>9 DEF ServeIo
  <2>3. n \in Nat
    BY <1>0 DEF TypeOK, RequestType
  <2>4. UNCHANGED <<pc, file, offs, req>> /\ reply' = [reply EXCEPT ![t] = n]
    BY <2>2 DEF Reply, fsysVars
  <2>5. moved'[file[t]] = offs[file[t]] + n
    BY <1>t, <2>1, <2>2, <2>3 DEF MovedInv
  <2>6. \A u \in Threads : u # t /\ pc[u] = "io" => file[u] # file[t]
    BY <2>1, OneIo
  <2>7. \A j \in Files : j # file[t] => moved'[j] = moved[j]
    BY <1>t, <2>2
  <2>8. ASSUME NEW i \in Files, \A u \in Threads : pc[u] = "io" => file[u] # i
        PROVE  moved'[i] = offs[i]
    BY <2>1, <2>7, <2>8 DEF MovedInv
  <2>9. ASSUME NEW u \in Threads, pc[u] = "io"
        PROVE  /\ req[u].offs = offs[file[u]]
               /\ reply'[u] \in {NoReply, Error} => moved'[file[u]] = offs[file[u]]
               /\ reply'[u] \in Nat => moved'[file[u]] = offs[file[u]] + reply'[u]
    <3>1. CASE u = t
      <4>1. reply'[u] = n /\ req[u].offs = offs[file[u]]
        BY <1>t, <2>1, <2>4, <3>1 DEF MovedInv
      <4> QED BY <2>3, <2>5, <3>1, <4>1
    <3>2. CASE u # t
      <4>1. file[u] \in Files /\ file[u] # file[t]
        BY <1>t, <2>6, <2>9, <3>2
      <4>2. moved'[file[u]] = moved[file[u]] /\ reply'[u] = reply[u]
        BY <1>t, <2>4, <2>7, <3>2, <4>1
      <4> QED BY <2>9, <4>2 DEF MovedInv
    <3> QED BY <3>1, <3>2
  <2> HIDE DEF NoReply, Error
  <2> QED BY <2>4, <2>8, <2>9 DEF MovedInv
<1>10. ASSUME NEW t \in Threads, ServeWalk(t) \/ ServeOpen(t) PROVE MovedInv'
  <2>1. pc[t] # "io"
    BY <1>10 DEF ServeWalk, ServeOpen, FileInv, OpInv
  <2>2. UNCHANGED <<pc, file, offs, moved, req>> /\ \A u \in Threads \ {t} : reply'[u] = reply[u]
    BY <1>t, <1>10 DEF ServeWalk, ServeOpen, Reply, fsysVars
  <2> QED BY <1>1, <2>1, <2>2
<1>11. ASSUME NEW t \in Threads, Refuse(t) PROVE MovedInv'
  <2>1. reply[t] = NoReply /\ reply' = [reply EXCEPT ![t] = Error]
    BY <1>11 DEF Refuse, Reply, Serves, Replied
  <2>2. UNCHANGED <<pc, file, offs, moved, req>>
    BY <1>11 DEF Refuse, Reply, fsysVars
  <2> QED BY <1>t, <2>1, <2>2 DEF MovedInv
<1>12. CASE \/ \E t \in Threads : \/ Reap(t) \/ ServeAsync(t) \/ ClaimWaits(t)
                                 \/ UnmountWaits(t)
            \/ Quiet \/ UNCHANGED vars
  <2>1. UNCHANGED <<pc, file, offs, moved, req, reply>>
    BY <1>12 DEF Reap, ServeAsync, ClaimWaits, UnmountWaits, Quiet, vars, fsysVars,
         localVars, histVars
  <2> QED BY <2>1 DEF MovedInv
<1>13. ~Lose /\ \A t \in Threads : ~UnmountCloses(t)
  BY DEF Lose, UnmountCloses
<1> HIDE DEF NoReply, Error
<1> QED BY <1>3, <1>4, <1>5, <1>6, <1>7, <1>8, <1>9, <1>10, <1>11, <1>12, <1>13
        DEF Next, Call, Proceed, Serve, Jobs

\* Each read9 and write9, and each part of a write9, starts where the one
\* before it has ended, for any number of threads that share a file, any
\* counts, and replies as short as the server likes, as long as no close9 is
\* called beside a read9 or write9 that still waits for the mutex
\* (9fsys.c:200-221, 344-374).
THEOREM TransfersAreSequential ==
  ASSUME ~BesideBlocked
  PROVE  Spec => []Sequential
<1> DEFINE Inv == FileInv /\ SeqInv
<1>1. Init => Inv
  BY FileInit DEF Init, SeqInv, MovedInv
<1>2. Inv /\ [Next]_vars => Inv'
  BY FileStep, SeqStep
<1>3. Inv => Sequential
  <2> SUFFICES ASSUME FileInv, SeqInv, NEW t \in Threads, pc[t] = "io", ~Replied(t)
               PROVE  req[t].offs = moved[file[t]]
    BY DEF Sequential
  <2>1. ~lost /\ reply[t] = NoReply
    BY DEF Replied
  <2> QED BY <2>1 DEF SeqInv, MovedInv
<1> HIDE DEF Inv
<1> QED BY <1>1, <1>2, <1>3, PTL DEF Spec

-----------------------------------------------------------------------------
(* unmount9 is the last to leave.                                          *)

\* One thread unmounts, none opens a file meanwhile, and the connection is
\* closed only when no file is in use.
UnmountInv ==
  /\ \A t, u \in Threads :
       pc[t] \in {"unmount", "closing"} /\ u # t => pc[u] \notin {"unmount", "closing", "claim"}
  /\ \A t \in Threads : pc[t] = "closing" => \A i \in Files : ~used[i]

\* Every step keeps it.
LEMMA UnmountStep ==
  ASSUME TypeOK, UnmountInv, [Next]_vars
  PROVE  UnmountInv'
<1> USE DEF TypeOK, FsysType, LocalType, UnmountInv
<1>1. ASSUME NEW t \in Threads, Open(t) PROVE UnmountInv'
  <2>1. pc' = [pc EXCEPT ![t] = "claim"] /\ UNCHANGED used
    BY <1>1 DEF Open, Goto, fsysVars
  <2>2. \A u \in Threads : pc[u] \notin {"unmount", "closing"}
    BY <1>1 DEF Open, Unmounting
  <2> QED BY <2>1, <2>2
<1>2. ASSUME NEW t \in Threads, Unmount(t) PROVE UnmountInv'
  <2>1. pc' = [pc EXCEPT ![t] = "unmount"] /\ UNCHANGED used
    BY <1>2 DEF Unmount, Goto, fsysVars
  <2>2. \A u \in Threads : pc[u] \notin {"unmount", "closing", "claim"}
    BY <1>2 DEF Unmount, Unmounting
  <2> QED BY <2>1, <2>2
<1>3. ASSUME NEW t \in Threads, Claim(t) PROVE UnmountInv'
  <2>1. pc[t] = "claim" /\ pc' = [pc EXCEPT ![t] = "walk"]
    BY <1>3 DEF Claim, Goto
  <2>2. \A u \in Threads : pc[u] \notin {"unmount", "closing"}
    BY <2>1
  <2> QED BY <2>1, <2>2
<1>4. ASSUME NEW t \in Threads, UnmountCloses(t) PROVE UnmountInv'
  <2>1. /\ pc[t] = "unmount" /\ pc' = [pc EXCEPT ![t] = "closing"]
        /\ UNCHANGED used /\ \A i \in Files : ~used[i]
    BY <1>4 DEF UnmountCloses, Unmounts, has_open_files, Goto
  <2> QED BY <2>1
<1>5. ASSUME NEW t \in Threads,
             \/ WalkReply(t) \/ Opened(t) \/ OpenFails(t) \/ UndoReply(t) \/ Unclaim(t)
             \/ rewind9(t) \/ read9_async(t) \/ StartIo(t) \/ IoFails(t) \/ IoEnds(t)
             \/ ClunkReply(t) \/ CloseLocks(t) \/ CloseEnds(t) \/ UnmountEnds(t)
             \/ \E i \in Files : Close(t, i)
             \/ \E i \in Files, n \in Counts \cup {0}, j \in Jobs : Use(t, i, j, n)
      PROVE  UnmountInv'
  <2>1. \E l \in Pcs \ {"unmount", "closing", "claim"} : pc' = [pc EXCEPT ![t] = l]
    BY <1>5 DEF WalkReply, Opened, OpenFails, Undo, UndoReply, Unclaim, rewind9,
         read9_async, StartIo, IoFails, IoEnds, ClunkReply, CloseLocks, CloseEnds,
         UnmountEnds, Close, Use, Release, Return, Goto, Pcs
  <2>2. used' = used \/ used' = [used EXCEPT ![file[t]] = FALSE]
    BY <1>5 DEF WalkReply, Opened, OpenFails, UndoReply, Unclaim, rewind9,
         read9_async, StartIo, IoFails, IoEnds, ClunkReply, CloseLocks, CloseEnds,
         UnmountEnds, Close, Use, Release, fsysVars
  <2> QED BY <2>1, <2>2
<1>6. CASE \/ \E t \in Threads : \/ Reap(t) \/ WriteMore(t) \/ Serve(t) \/ ClaimWaits(t)
                                \/ UnmountWaits(t)
           \/ Lose \/ Quiet \/ UNCHANGED vars
  <2>1. UNCHANGED <<pc, used>>
    BY <1>6 DEF Reap, WriteMore, Serve, ServeWalk, ServeOpen, ServeIo, Refuse, ServeAsync,
         Reply, ClaimWaits, UnmountWaits, Lose, Quiet, vars, fsysVars
  <2> QED BY <2>1
<1> QED BY <1>1, <1>2, <1>3, <1>4, <1>5, <1>6 DEF Next, Call, Proceed, Jobs

\* unmount9 closes the client only when no other call is inside the file
\* system, for any number of files and threads (9fsys.c:77-87).
THEOREM UnmountIsLast ==
  ASSUME ~BesideBlocked
  PROVE  Spec => []UnmountLast
<1> DEFINE Inv == FileInv /\ UnmountInv
<1>1. Init => Inv
  BY FileInit DEF Init, UnmountInv
<1>2. Inv /\ [Next]_vars => Inv'
  BY FileStep, UnmountStep DEF FileInv
<1>3. Inv => UnmountLast
  <2> SUFFICES ASSUME FileInv, UnmountInv, NEW t \in Threads, pc[t] = "closing"
               PROVE  handles = {} /\ \A u \in Threads \ {t} : pc[u] = "idle"
    BY DEF UnmountLast
  <2>1. \A i \in Files : ~used[i]
    BY DEF UnmountInv
  <2>2. handles = {}
    BY <2>1 DEF FileInv, HoldInv, TypeOK, CallerType
  <2>3. \A u \in Threads : pc[u] \notin Holding
    BY <2>1 DEF FileInv, HoldInv, TypeOK, LocalType
  <2>4. \A u \in Threads : pc[u] \notin {"lock", "io"}
    BY <2>2, <2>3 DEF FileInv, UseInv, Holding
  <2>5. \A u \in Threads \ {t} : pc[u] \notin {"unmount", "closing", "claim"}
    BY DEF UnmountInv
  <2>6. \A u \in Threads : pc[u] \in Pcs
    BY DEF FileInv, TypeOK, LocalType
  <2> QED BY <2>2, <2>3, <2>4, <2>5, <2>6 DEF Holding, Closing, Pcs
<1> QED BY <1>1, <1>2, <1>3, PTL DEF Spec
=============================================================================
