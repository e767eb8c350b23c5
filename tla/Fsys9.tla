-------------------------------- MODULE Fsys9 --------------------------------
(***************************************************************************)
(* The 9P file system of src/9/9fsys.c after mount9: threads that share    *)
(* its MAX_OPEN_FILES files, the condition variable on which open9 waits   *)
(* for a free file and unmount9 for all of them, and a mutex for each      *)
(* file.                                                                   *)
(*                                                                         *)
(* As in Client9p, a critical section that neither blocks nor unlocks on   *)
(* the way is one action with the guard mtx = NONE, and a call of wait9p   *)
(* is two: the request is sent, the reply comes back.  The 9P client and   *)
(* server are external: the server looks a fid up in the order in which    *)
(* requests were sent, answers them in any order, and may refuse any of    *)
(* them; the connection may be lost, after which each request fails.       *)
(*                                                                         *)
(* A session is one open of a fid, numbered, so that a request that gets   *)
(* to another file under the same fid can be told from one that does not.  *)
(***************************************************************************)
EXTENDS Integers, FiniteSets

CONSTANTS
  Threads,
  NONE,              \* no thread
  MAX_OPEN_FILES,
  IOUNIT,            \* the r->open.iounit of the server
  Counts,            \* byte counts that callers read and write
  Refusals,          \* requests that the server may refuse
  MaxCalls,          \* bound: calls of a behaviour, beside close9 and unmount9
  BesideBlocked      \* callers may call close9 while a read9 or write9 of the
                     \* file waits for its mutex behind another one

ASSUME ThreadAssumption == NONE \notin Threads
ASSUME FileAssumption == MAX_OPEN_FILES \in Nat \ {0}
ASSUME CountAssumption ==
  IOUNIT \in Nat \ {0} /\ Counts \subseteq Nat \ {0} /\ MaxCalls \in Nat
ASSUME OptionAssumption ==
  Refusals \subseteq {"walk", "open", "read", "write"} /\ BesideBlocked \in BOOLEAN

VARIABLES
  \* struct fsys9 and its files
  mtx, waitSet, closed, used, fmtx, offs,
  freed,         \* unmount9 has freed the Fsys9
  \* the calling threads: where they are, their file, bytes left to move
  pc, job, file, left, ncalls,
  req, reply,    \* the request of a thread in wait9p; its reply: a count or a
                 \* session, Error, or NoReply
  tag,           \* its read9_async, "none", "sent" or "answered"
  handles,       \* files that callers may use: opened, and not being closed
  \* the server
  fids,          \* the session of each fid, 0 if it knows none
  nsess, lost,
  \* history: the session of each file; the session of the file that a thread
  \* has called with; bytes the server has moved since open9 or rewind9
  session, mine, moved

fsysVars == <<mtx, waitSet, closed, used, fmtx, offs, freed>>
localVars == <<job, file, left, mine, req, reply>>
serverVars == <<fids, nsess, lost>>
histVars == <<session, moved>>
vars == <<fsysVars, pc, localVars, ncalls, tag, handles, serverVars, histVars>>

Files == 0 .. MAX_OPEN_FILES - 1     \* and fids: a file has the fid of its index
Pcs == {"idle", "claim", "walk", "open", "undo", "unclaim", "lock", "io", "clunk",
        "close", "drain", "unmount", "closing"}
Ops == {"walk", "open", "clunk", "read", "write"}
NoReply == -2
Error   == -1
\* A request: the session that the server found under its fid, the session
\* that it was meant for, an offset and a count.
NoReq == [op |-> "none", sess |-> 0, meant |-> 0, offs |-> 0, n |-> 0]

FsysType ==
  /\ mtx \in Threads \cup {NONE} /\ waitSet \subseteq Threads
  /\ closed \in BOOLEAN /\ freed \in BOOLEAN
  /\ used \in [Files -> BOOLEAN]
  /\ fmtx \in [Files -> Threads \cup {NONE}]
  /\ offs \in [Files -> Nat]

LocalType ==
  /\ pc \in [Threads -> Pcs]
  /\ job \in [Threads -> {"none", "read", "write", "rewind", "async"}]
  /\ file \in [Threads -> Files]
  /\ left \in [Threads -> Nat] /\ mine \in [Threads -> Nat]

RequestType ==
  /\ req \in [Threads -> [op : Ops \cup {"none"}, sess : Nat, meant : Nat, offs : Nat,
                          n : Nat]]
  /\ reply \in [Threads -> Nat \cup {NoReply, Error}]

ServerType ==
  /\ fids \in [Files -> Nat] /\ nsess \in Nat /\ lost \in BOOLEAN
  /\ session \in [Files -> Nat] /\ moved \in [Files -> Nat]

CallerType ==
  /\ ncalls \in 0 .. MaxCalls
  /\ tag \in [Threads -> {"none", "sent", "answered"}]
  /\ handles \subseteq Files

TypeOK == FsysType /\ LocalType /\ RequestType /\ ServerType /\ CallerType

\* mount9_client, when it succeeds.
Init ==
  /\ mtx = NONE /\ waitSet = {} /\ closed = FALSE /\ freed = FALSE
  /\ used = [i \in Files |-> FALSE]
  /\ fmtx = [i \in Files |-> NONE]
  /\ offs = [i \in Files |-> 0] /\ moved = [i \in Files |-> 0]
  /\ pc = [t \in Threads |-> "idle"] /\ job = [t \in Threads |-> "none"]
  /\ file = [t \in Threads |-> 0] /\ left = [t \in Threads |-> 0]
  /\ ncalls = 0
  /\ req = [t \in Threads |-> NoReq] /\ reply = [t \in Threads |-> NoReply]
  /\ tag = [t \in Threads |-> "none"]
  /\ handles = {}
  /\ fids = [i \in Files |-> 0] /\ nsess = 0 /\ lost = FALSE
  /\ session = [i \in Files |-> 0] /\ mine = [t \in Threads |-> 0]

free_files == {i \in Files : ~used[i]}
free_file == {i \in free_files : \A j \in free_files : i <= j}     \* or none

Wait9p == {"walk", "open", "undo", "io", "clunk"}      \* in wait9p

\* The request is sent and the server looks up the fid of file i.  A clunked
\* fid is unknown at once.
Send(t, op, i, meant, o, n) ==
  /\ req' = [req EXCEPT ![t] =
               [op |-> op, sess |-> fids[i], meant |-> meant, offs |-> o, n |-> n]]
  /\ reply' = [reply EXCEPT ![t] = NoReply]
  /\ fids' = IF op = "clunk" THEN [fids EXCEPT ![i] = 0] ELSE fids
  /\ UNCHANGED <<nsess, lost>>

\* What wait9p returns; every request fails once the connection is lost.
Replied(t) == lost \/ reply[t] # NoReply
Result(t) == IF lost THEN Error ELSE reply[t]

Goto(t, l) == pc' = [pc EXCEPT ![t] = l]

\* The call returns and its locals are gone.
Return(t) ==
  /\ Goto(t, "idle")
  /\ job' = [job EXCEPT ![t] = "none"] /\ file' = [file EXCEPT ![t] = 0]
  /\ left' = [left EXCEPT ![t] = 0]    /\ mine' = [mine EXCEPT ![t] = 0]
  /\ req' = [req EXCEPT ![t] = NoReq]  /\ reply' = [reply EXCEPT ![t] = NoReply]

\* Mutant: cond_signal instead of cond_broadcast9.
Signal == waitSet' \in {waitSet \ {t} : t \in waitSet} \cup ({waitSet} \cap {{}})
Broadcast == waitSet' = {}

\* file->fsys = NULL under fsys->mtx, and the broadcast.
Release(t) ==
  /\ used' = [used EXCEPT ![file[t]] = FALSE]
  /\ Broadcast
  /\ Return(t)

CanCall(t) == pc[t] = "idle" /\ ncalls < MaxCalls
Called == ncalls' = ncalls + 1

\* unmount9 has been called.
Unmounting == freed \/ \E u \in Threads : pc[u] \in {"unmount", "closing"}

-----------------------------------------------------------------------------
(* open9.  The callers open no file once they have called unmount9.        *)

Open(t) ==
  /\ CanCall(t) /\ ~Unmounting
  /\ Goto(t, "claim")
  /\ Called
  /\ UNCHANGED <<fsysVars, localVars, tag, handles, serverVars, histVars>>

ClaimWaits(t) ==
  /\ pc[t] = "claim" /\ t \notin waitSet /\ mtx = NONE
  /\ free_files = {}
  /\ waitSet' = waitSet \cup {t}
  /\ UNCHANGED <<mtx, closed, used, fmtx, offs, freed, pc, localVars, ncalls, tag,
                 handles, serverVars, histVars>>

\* The file is zeroed and claimed, and the walk is sent.
Claim(t) ==
  /\ pc[t] = "claim" /\ t \notin waitSet /\ mtx = NONE
  /\ \E i \in free_file :
       /\ used' = [used EXCEPT ![i] = TRUE]
       /\ offs' = [offs EXCEPT ![i] = 0]
       /\ fmtx' = [fmtx EXCEPT ![i] = NONE]
       /\ file' = [file EXCEPT ![t] = i]
       /\ moved' = [moved EXCEPT ![i] = 0]
       /\ Send(t, "walk", i, 0, 0, 0)
  /\ Goto(t, "walk")
  /\ UNCHANGED <<mtx, waitSet, closed, freed, job, left, mine, ncalls, tag, handles,
                 session>>

WalkReply(t) ==
  /\ pc[t] = "walk" /\ Replied(t)
  /\ IF Result(t) = Error
     THEN Goto(t, "unclaim") /\ UNCHANGED <<req, reply, serverVars>>
     ELSE Goto(t, "open") /\ Send(t, "open", file[t], reply[t], 0, 0)
  /\ UNCHANGED <<fsysVars, job, file, left, mine, ncalls, tag, handles, histVars>>

Opened(t) ==
  /\ pc[t] = "open" /\ Replied(t) /\ Result(t) # Error
  /\ fmtx' = [fmtx EXCEPT ![file[t]] = NONE]
  /\ session' = [session EXCEPT ![file[t]] = req[t].meant]
  /\ handles' = handles \cup {file[t]}
  /\ Return(t)
  /\ UNCHANGED <<mtx, waitSet, closed, used, offs, freed, ncalls, tag, serverVars,
                 moved>>

\* Mutant: the fid of the walk is forgotten.
NoUndo(t) == Goto(t, "unclaim") /\ UNCHANGED <<req, reply, serverVars>>
Undo(t) == Goto(t, "undo") /\ Send(t, "clunk", file[t], req[t].meant, 0, 0)

OpenFails(t) ==
  /\ pc[t] = "open" /\ Replied(t) /\ Result(t) = Error
  /\ Undo(t)
  /\ UNCHANGED <<fsysVars, job, file, left, mine, ncalls, tag, handles, histVars>>

UndoReply(t) ==
  /\ pc[t] = "undo" /\ Replied(t)
  /\ Goto(t, "unclaim")
  /\ UNCHANGED <<fsysVars, localVars, ncalls, tag, handles, serverVars, histVars>>

Unclaim(t) ==
  /\ pc[t] = "unclaim" /\ mtx = NONE
  /\ Release(t)
  /\ UNCHANGED <<mtx, closed, fmtx, offs, freed, ncalls, tag, handles, serverVars,
                 histVars>>

-----------------------------------------------------------------------------
(* read9, write9, rewind9 and read9_async of an open file.                 *)

Use(t, i, j, n) ==
  /\ CanCall(t) /\ i \in handles
  /\ j = "async" => tag[t] = "none"
  /\ Goto(t, "lock")
  /\ job' = [job EXCEPT ![t] = j]
  /\ file' = [file EXCEPT ![t] = i]
  /\ left' = [left EXCEPT ![t] = n]
  /\ mine' = [mine EXCEPT ![t] = session[i]]
  /\ Called
  /\ UNCHANGED <<fsysVars, req, reply, tag, handles, serverVars, histVars>>

Locks(t, j) == pc[t] = "lock" /\ job[t] \in j /\ fmtx[file[t]] = NONE

Chunk(n) == IF n > IOUNIT THEN IOUNIT ELSE n

rewind9(t) ==
  /\ Locks(t, {"rewind"})
  /\ offs' = [offs EXCEPT ![file[t]] = 0]
  /\ moved' = [moved EXCEPT ![file[t]] = 0]
  /\ Return(t)
  /\ UNCHANGED <<mtx, waitSet, closed, used, fmtx, freed, ncalls, tag, handles,
                 serverVars, session>>

\* read9_async names the offset itself, and gives the mutex up at once.
read9_async(t) ==
  /\ Locks(t, {"async"})
  /\ req' = [req EXCEPT ![t] = [op |-> "read", sess |-> fids[file[t]], meant |-> mine[t],
                                 offs |-> 0, n |-> Chunk(left[t])]]
  /\ tag' = [tag EXCEPT ![t] = "sent"]
  /\ Goto(t, "idle")
  /\ UNCHANGED <<fsysVars, job, file, left, mine, reply, ncalls, handles,
                 serverVars, histVars>>

\* read9_wait, and read9_poll when it returns done.
Reap(t) ==
  /\ pc[t] = "idle"
  /\ tag[t] = "answered" \/ (tag[t] = "sent" /\ lost)
  /\ tag' = [tag EXCEPT ![t] = "none"]
  /\ UNCHANGED <<fsysVars, pc, localVars, ncalls, handles, serverVars, histVars>>

\* Mutant: like read9_async, read9 and write9 keep the mutex for the send only.
SendUnlocks(t) == UNCHANGED fmtx
HoldWhileWaiting(t) == fmtx' = [fmtx EXCEPT ![file[t]] = t]

StartIo(t) ==
  /\ Locks(t, {"read", "write"})
  /\ HoldWhileWaiting(t)
  /\ Send(t, job[t], file[t], mine[t], offs[file[t]], Chunk(left[t]))
  /\ Goto(t, "io")
  /\ UNCHANGED <<mtx, waitSet, closed, used, offs, freed, job, file, left, mine,
                 ncalls, tag, handles, histVars>>

\* Mutant: an error returns with the mutex locked.
ErrorKeepsLock(t) == UNCHANGED fmtx
Unlock(t) == fmtx' = [fmtx EXCEPT ![file[t]] = NONE]

IoFails(t) ==
  /\ pc[t] = "io" /\ Replied(t) /\ Result(t) = Error
  /\ Unlock(t)
  /\ Return(t)
  /\ UNCHANGED <<mtx, waitSet, closed, used, offs, freed, ncalls, tag, handles,
                 serverVars, histVars>>

\* write9 goes on until all is written or the server writes nothing.
WriteGoesOn(t) == job[t] = "write" /\ reply[t] \in 1 .. left[t] - 1

\* Mutant: the type of the reply is not looked at.
MovesUnchecked(t) ==
  /\ pc[t] = "io" /\ Replied(t)
  /\ offs' = [offs EXCEPT ![file[t]] = @ + reply[t]]
Moves(t) ==
  /\ pc[t] = "io" /\ Replied(t) /\ Result(t) # Error
  /\ offs' = [offs EXCEPT ![file[t]] = @ + reply[t]]

WriteMore(t) ==
  /\ Moves(t) /\ WriteGoesOn(t)
  /\ left' = [left EXCEPT ![t] = @ - reply[t]]
  /\ Send(t, "write", file[t], mine[t], offs'[file[t]], Chunk(left'[t]))
  /\ UNCHANGED <<mtx, waitSet, closed, used, fmtx, freed, pc, job, file, mine,
                 ncalls, tag, handles, histVars>>

IoEnds(t) ==
  /\ Moves(t) /\ ~WriteGoesOn(t)
  /\ Unlock(t)
  /\ Return(t)
  /\ UNCHANGED <<mtx, waitSet, closed, used, freed, ncalls, tag, handles,
                 serverVars, histVars>>

-----------------------------------------------------------------------------
(* close9.  The callers use no file that they have passed to close9.       *)

Entering(i) == \E u \in Threads : pc[u] = "lock" /\ file[u] = i

Close(t, i) ==
  /\ pc[t] = "idle" /\ i \in handles
  /\ Entering(i) => BesideBlocked /\ fmtx[i] # NONE
  /\ handles' = handles \ {i}
  /\ file' = [file EXCEPT ![t] = i]
  /\ Send(t, "clunk", i, session[i], 0, 0)
  /\ Goto(t, "clunk")
  /\ UNCHANGED <<fsysVars, job, left, mine, ncalls, tag, histVars>>

ClunkReply(t) ==
  /\ pc[t] = "clunk" /\ Replied(t)
  /\ Goto(t, "close")
  /\ UNCHANGED <<fsysVars, localVars, ncalls, tag, handles, serverVars, histVars>>

CloseLocks(t) ==
  /\ pc[t] = "close" /\ mtx = NONE
  /\ mtx' = t
  /\ Goto(t, "drain")
  /\ UNCHANGED <<waitSet, closed, used, fmtx, offs, freed, localVars, ncalls, tag,
                 handles, serverVars, histVars>>

Drained(t) == fmtx[file[t]] = NONE

CloseEnds(t) ==
  /\ pc[t] = "drain"
  /\ Drained(t)
  /\ Release(t)
  /\ mtx' = NONE
  /\ UNCHANGED <<closed, fmtx, offs, freed, ncalls, tag, handles, serverVars,
                 histVars>>

-----------------------------------------------------------------------------
(* unmount9, called once, with no open9 waiting for a file.                *)

Unmount(t) ==
  /\ pc[t] = "idle" /\ ~Unmounting /\ tag[t] = "none"
  /\ \A u \in Threads : pc[u] # "claim"
  /\ Goto(t, "unmount")
  /\ UNCHANGED <<fsysVars, localVars, ncalls, tag, handles, serverVars, histVars>>

\* Mutant: the last file is not looked at.
OpenFilesButLast == \E i \in Files \ {MAX_OPEN_FILES - 1} : used[i]
has_open_files == \E i \in Files : used[i]

Unmounts(t) ==
  /\ pc[t] = "unmount" /\ t \notin waitSet /\ mtx = NONE
  /\ closed' = TRUE

UnmountWaits(t) ==
  /\ Unmounts(t) /\ has_open_files
  /\ waitSet' = waitSet \cup {t}
  /\ UNCHANGED <<mtx, used, fmtx, offs, freed, pc, localVars, ncalls, tag, handles,
                 serverVars, histVars>>

\* close9p ends the connection ...
UnmountCloses(t) ==
  /\ Unmounts(t) /\ ~has_open_files
  /\ Goto(t, "closing")
  /\ lost' = TRUE /\ fids' = [i \in Files |-> 0]
  /\ UNCHANGED <<mtx, waitSet, used, fmtx, offs, freed, localVars, ncalls, tag,
                 handles, nsess, histVars>>

\* ... and returns when no request is left.
UnmountEnds(t) ==
  /\ pc[t] = "closing"
  /\ \A u \in Threads : pc[u] \notin Wait9p /\ tag[u] = "none"
  /\ freed' = TRUE
  /\ Goto(t, "idle")
  /\ UNCHANGED <<mtx, waitSet, closed, used, fmtx, offs, localVars, ncalls, tag,
                 handles, serverVars, histVars>>

-----------------------------------------------------------------------------
(* The connection and the server.                                          *)

Serves(t) == pc[t] \in Wait9p /\ ~Replied(t)
Reply(t, r) ==
  /\ reply' = [reply EXCEPT ![t] = r]
  /\ UNCHANGED <<fsysVars, pc, job, file, left, mine, req, ncalls, tag, handles,
                 lost, session>>

ServeWalk(t) ==
  /\ Serves(t) /\ req[t].op = "walk"
  /\ Reply(t, nsess + 1)
  /\ nsess' = nsess + 1
  /\ fids' = [fids EXCEPT ![file[t]] = nsess + 1]
  /\ UNCHANGED moved

ServeOpen(t) ==
  /\ Serves(t) /\ req[t].op \in {"open", "clunk"}
  /\ Reply(t, 0)
  /\ UNCHANGED <<fids, nsess, moved>>

ServeIo(t) ==
  /\ Serves(t) /\ req[t].op \in {"read", "write"} /\ req[t].sess # 0
  /\ \E n \in 0 .. req[t].n :
       /\ Reply(t, n)
       /\ moved' = [moved EXCEPT ![file[t]] = @ + n]
  /\ UNCHANGED <<fids, nsess>>

\* An error, or a walk that stops short.  A fid that is not known is refused.
Refuse(t) ==
  /\ Serves(t)
  /\ req[t].op \in Refusals \/ (req[t].op \in {"read", "write"} /\ req[t].sess = 0)
  /\ Reply(t, Error)
  /\ UNCHANGED <<fids, nsess, moved>>

ServeAsync(t) ==
  /\ tag[t] = "sent" /\ ~lost
  /\ tag' = [tag EXCEPT ![t] = "answered"]
  /\ UNCHANGED <<fsysVars, pc, localVars, ncalls, handles, serverVars, histVars>>

\* The client is closed, for instance since the server has gone away.
Lose ==
  /\ ~lost
  /\ lost' = TRUE /\ fids' = [i \in Files |-> 0]
  /\ UNCHANGED <<fsysVars, pc, localVars, ncalls, tag, handles, nsess, histVars>>

-----------------------------------------------------------------------------

Call(t) ==
  \/ Open(t) \/ Unmount(t) \/ Reap(t)
  \/ \E i \in Files : Close(t, i)
  \/ \E i \in Files, n \in Counts, j \in {"read", "write", "async"} : Use(t, i, j, n)
  \/ \E i \in Files : Use(t, i, "rewind", 0)

\* What a thread does by itself once it is inside a call.
Proceed(t) ==
  \/ ClaimWaits(t) \/ Claim(t) \/ WalkReply(t) \/ Opened(t) \/ OpenFails(t)
  \/ UndoReply(t) \/ Unclaim(t)
  \/ rewind9(t) \/ read9_async(t) \/ StartIo(t) \/ IoFails(t) \/ WriteMore(t) \/ IoEnds(t)
  \/ ClunkReply(t) \/ CloseLocks(t) \/ CloseEnds(t)
  \/ UnmountWaits(t) \/ UnmountCloses(t) \/ UnmountEnds(t)

Serve(t) == ServeWalk(t) \/ ServeOpen(t) \/ ServeIo(t) \/ Refuse(t) \/ ServeAsync(t)

\* Nobody need call again; open9 waits while all files are in use, and
\* unmount9 while the callers keep files or reads.
Quiet ==
  /\ \A t \in Threads :
       pc[t] \in {"idle", "closing"} \/ (pc[t] \in {"claim", "unmount"} /\ t \in waitSet)
  /\ UNCHANGED vars

Next == (\E t \in Threads : Call(t) \/ Proceed(t) \/ Serve(t)) \/ Lose \/ Quiet

Spec == Init /\ [][Next]_vars

\* Threads are scheduled and the server answers.  The callers need do nothing.
FairSpec ==
  Spec /\ \A t \in Threads : WF_vars(Proceed(t)) /\ WF_vars(Serve(t))

-----------------------------------------------------------------------------
(* Properties.                                                             *)

\* A request reaches the file it is meant for, or none that the server knows:
\* a fid that a file takes is not known to the server any more, after a failed
\* open9 too, and no file is given away while a read or write that has begun
\* will still use its fid (9fsys.c:99-109, 166-173, 182-190).
RightFile == \A t \in Threads : req[t].sess \in {req[t].meant, 0}

\* Each read9 and write9, and each part of a write9, starts where the one
\* before it on the same file has ended, also when several threads share the
\* file and writes are short: nothing is read twice, overwritten or skipped
\* (9fsys.c:200-221, 344-374).
Sequential ==
  \A t \in Threads :
    pc[t] = "io" /\ ~Replied(t) /\ req[t].sess # 0 => req[t].offs = moved[file[t]]

\* Nobody sleeps who could go on: an open9 while a file is free, an unmount9
\* while none is open (9fsys.c:79-81, 101-104, 171-172, 187-189).
Woken ==
  \A t \in waitSet :
    IF pc[t] = "claim" THEN \A i \in Files : used[i] ELSE \E i \in Files : used[i]

\* unmount9 goes on to close the client and free the file system only when no
\* call is inside it (9fsys.c:77-87).
UnmountLast ==
  \A t \in Threads :
    pc[t] = "closing" => handles = {} /\ \A u \in Threads \ {t} : pc[u] = "idle"

\* Calls return: those of open9 that have a file, of read9, write9, rewind9,
\* read9_async and close9, whatever the server refuses and if it goes away;
\* unmount9 when the callers have closed their files and have waited for their
\* asynchronous reads (9fsys.c:73-374).
CallsReturn ==
  \A t \in Threads :
    /\ pc[t] \in Pcs \ {"claim", "unmount", "closing"} ~> pc[t] = "idle"
    /\ pc[t] = "unmount" ~> freed \/ handles # {} \/ \E u \in Threads : tag[u] # "none"

\* "Wait for any active read/write to finish" (9fsys.c:182): close9 gives the
\* file up only when no read9 or write9 of it that has begun is still inside.
CloseWaits ==
  \A t \in Threads :
    pc[t] \in {"lock", "io"} /\ job[t] # "async" => used[file[t]] /\ session[file[t]] = mine[t]
=============================================================================
