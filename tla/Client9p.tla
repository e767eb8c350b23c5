------------------------------ MODULE Client9p ------------------------------
(***************************************************************************)
(* The 9P client of src/9/9p.c: one receiver thread, any number of calling *)
(* threads and one closing thread share a Client9p, its mutex, its single  *)
(* condition variable and its QUEUE_SIZE request slots, over one socket.   *)
(*                                                                         *)
(* A critical section that neither blocks nor unlocks on the way is one    *)
(* action with the guard mtx = NONE.  mtx names a holder only where the    *)
(* code blocks with the mutex held, in write_full.  cond_wait9 puts a      *)
(* thread into waitSet, cond_broadcast9 empties it, and a thread outside   *)
(* waitSet contends for the mutex again.  The socket and the 9P server are *)
(* external: two bounded FIFOs of chunks, and a server that answers in any *)
(* order.  A chunk is what one read_full or one write_full moves.          *)
(***************************************************************************)
EXTENDS Integers, Sequences, FiniteSets

CONSTANTS
  Callers,     \* threads that send requests and wait for their replies
  NONE,        \* NULL, no thread, no message
  QUEUE_SIZE,  \* slots, hence tags, of a client
  Kinds,       \* request types the callers use, besides "version"
  Sizes,       \* sizes of their requests: 1 fits any limit, 2 needs the
               \* negotiated msize, 3 is over it
  Counts,      \* byte counts of read replies (the buffers hold one unit)
  Faults,      \* what the server may do wrong (see ServerFault, Disconnect)
  MaxFaults,   \* bound: faults in a behaviour
  MaxReqs,     \* bound: requests of one caller
  SockCap      \* bound: chunks that fit in one direction of the socket

ASSUME SlotAssumption == QUEUE_SIZE \in Nat \ {0}
ASSUME ThreadAssumption == Callers \cap {"recv", "closer", NONE} = {}
ASSUME NoneAssumption == NONE \notin {"recv", "closer"}
ASSUME BoundAssumption == MaxReqs \in Nat /\ Sizes \subseteq Nat /\ Counts \subseteq Nat
ASSUME FaultAssumption ==
  Faults \subseteq {"error reply", "bad tag", "bad type", "too big", "0 byte",
                   "big count", "flush", "duplicate", "disconnect"}

VARIABLES
  \* struct Client9p
  mtx, waitSet, closed, recv_done, queue, max_send_size, max_recv_size,
  fd_ok,       \* fd still names the socket
  deaf,        \* waiters whose wakeups the condition variable has lost
  \* the calling threads: where they are, and their arguments and results
  pc, req, tag, got, nreq,
  \* locals of recv_thread
  rpc, rmsg, rbuf,
  \* close9p, and the death of the process
  cpc, aborted,
  \* the socket and the server
  c2s, s2c, pending, srv_out, eof, nfaults

structVars == <<mtx, waitSet, closed, recv_done, queue, max_send_size,
                max_recv_size, fd_ok, deaf>>
callerVars == <<pc, req, tag, got, nreq>>
recvVars   == <<rpc, rmsg, rbuf>>
closeVars  == <<cpc, aborted>>
netVars    == <<c2s, s2c, pending, srv_out, eof, nfaults>>
vars == <<structVars, callerVars, recvVars, closeVars, netVars>>

Tags     == 0 .. QUEUE_SIZE - 1
Threads  == Callers \cup {"recv", "closer"}
AllKinds == Kinds \cup {"version"}
INIT_MAX_SEND_SIZE == 1
MSIZE == 2

\* A request carries its identity, so that a reply can be told from another
\* one with the same tag and type.
Requests == [by: Callers, seq: 1 .. MaxReqs, kind: AllKinds, size: Nat]
Replies  == [what: {"answer", "error", "too big", "closed", "bad tag"},
             req: Requests]
Messages == [tag: Tags \cup {QUEUE_SIZE},
             type: AllKinds \cup {"error", "flush", "bogus"},
             size: Nat, req: Requests, count: Nat, bad: BOOLEAN,
             part: {"header", "body", "data"}]
ErrorReply(what, r) == [what |-> what, req |-> r]

ASSUME NullAssumption == NONE \notin Messages

EmptySlot == [in_use |-> FALSE, sent_type |-> NONE, reply |-> NONE,
              read_buf |-> NONE]
\* Mutants: an answered slot counts as free; a broadcast is forgotten.
FreeTagsAnswered == {k \in Tags : ~queue[k].in_use \/ queue[k].reply # NONE}
NoBroadcast      == UNCHANGED waitSet

FreeTags     == {k \in Tags : ~queue[k].in_use}
FirstFree    == CHOOSE k \in FreeTags : \A j \in FreeTags : k <= j
AwaitedTags  == {k \in Tags : queue[k].in_use /\ queue[k].reply = NONE}
BufSize(buf) == IF buf = NONE THEN 0 ELSE 1

\* Thread t runs a critical section to its end: it holds the mutex, nobody
\* aborted the process, and close9p has not freed the client.
Locks(t)   == mtx = NONE /\ t \notin waitSet /\ cpc # "freed" /\ aborted = NONE
Broadcast  == waitSet' = deaf
CondWait(t) == waitSet' = waitSet \cup {t}

Slots == [in_use: BOOLEAN, sent_type: AllKinds \cup {NONE},
          reply: Replies \cup {NONE}, read_buf: Callers \cup {NONE}]

StructType ==
  /\ mtx \in Callers \cup {NONE}
  /\ waitSet \subseteq Threads /\ deaf \subseteq waitSet
  /\ queue \in [Tags -> Slots]
  /\ max_send_size \in {INIT_MAX_SEND_SIZE, MSIZE}
  /\ max_recv_size \in {0, MSIZE}

CallerType ==
  /\ pc \in [Callers -> {"idle", "send", "slot wait", "write", "data",
                         "tagged", "wait"}]
  /\ req \in [Callers -> Requests \cup {NONE}]
  /\ \A t \in Callers : pc[t] # "idle" => req[t] \in Requests
  /\ tag \in [Callers -> Tags \cup {-1}]
  /\ got \in [Callers -> Replies \cup {NONE}]
  /\ nreq \in [Callers -> 0 .. MaxReqs]

RecvType ==
  /\ rpc \in {"top", "header", "check", "body", "store", "arg", "data",
              "stored", "exited"}
  /\ rmsg \in Messages \cup {NONE}
  /\ rpc \in {"body", "arg", "data"} => rmsg # NONE
  /\ rpc \in {"body", "store", "arg", "data", "stored"} /\ rmsg # NONE
       => rmsg.tag \in Tags
  /\ rbuf \in Callers \cup {NONE}
  /\ cpc \in {"open", "closing", "freed"}
  /\ aborted \in {NONE, "use after free", "bad message type"}

NetType ==
  /\ c2s \in Seq([tag: Tags, req: Requests, last: BOOLEAN])
  /\ pending \subseteq [tag: Tags, req: Requests]
  /\ srv_out \in Seq(Messages) /\ s2c \in Seq(Messages)

FlagType == /\ closed \in BOOLEAN /\ recv_done \in BOOLEAN
            /\ fd_ok \in BOOLEAN /\ eof \in BOOLEAN

TypeOK == StructType /\ CallerType /\ RecvType /\ NetType /\ FlagType

-----------------------------------------------------------------------------
(* connect_fd9p: the structure is zeroed, and the receiver thread started. *)

Init ==
  /\ mtx = NONE /\ waitSet = {} /\ deaf = {} /\ fd_ok = TRUE
  /\ closed = FALSE /\ recv_done = FALSE
  /\ queue = [k \in Tags |-> EmptySlot]
  /\ max_send_size = INIT_MAX_SEND_SIZE /\ max_recv_size = 0
  /\ pc = [t \in Callers |-> "idle"] /\ req = [t \in Callers |-> NONE]
  /\ tag = [t \in Callers |-> -1] /\ got = [t \in Callers |-> NONE]
  /\ nreq = [t \in Callers |-> 0]
  /\ rpc = "top" /\ rmsg = NONE /\ rbuf = NONE
  /\ cpc = "open" /\ aborted = NONE
  /\ c2s = << >> /\ s2c = << >> /\ pending = {} /\ srv_out = << >>
  /\ eof = FALSE /\ nfaults = 0

-----------------------------------------------------------------------------
(* send_with_buffer, called by version9p, attach9p, walk9p and the others. *)

\* The caller builds its message.  version9p stores max_recv_size without
\* the mutex.  9fsys and the tests call version9p before anything else, and
\* nobody starts a request once close9p has been called.
Call(t) ==
  /\ pc[t] = "idle" /\ nreq[t] < MaxReqs /\ cpc = "open" /\ aborted = NONE
  /\ \E kind \in AllKinds, size \in Sizes :
       /\ (kind = "version") <=> (max_recv_size = 0)
       /\ kind = "version" => size = 1
       /\ req' = [req EXCEPT ![t] = [by |-> t, seq |-> nreq[t] + 1,
                                     kind |-> kind, size |-> size]]
  /\ max_recv_size' = MSIZE
  /\ nreq' = [nreq EXCEPT ![t] = @ + 1]
  /\ pc' = [pc EXCEPT ![t] = "send"]
  /\ UNCHANGED <<mtx, waitSet, closed, recv_done, queue, max_send_size, fd_ok,
                 deaf, tag, got, recvVars, closeVars, netVars>>

\* All slots are in use: wait for one.
SendBlock(t) ==
  /\ pc[t] \in {"send", "slot wait"} /\ Locks(t)
  /\ ~closed /\ FreeTags = {}
  /\ pc' = [pc EXCEPT ![t] = "slot wait"]
  /\ CondWait(t)
  /\ UNCHANGED <<mtx, closed, recv_done, queue, max_send_size, max_recv_size,
                 fd_ok, deaf, req, tag, got, nreq, recvVars, closeVars,
                 netVars>>

SendClosed(t) ==
  /\ pc[t] \in {"send", "slot wait"} /\ Locks(t)
  /\ closed
  /\ tag' = [tag EXCEPT ![t] = -1]
  /\ pc' = [pc EXCEPT ![t] = "tagged"]
  /\ UNCHANGED <<structVars, req, got, nreq, recvVars, closeVars, netVars>>

\* Taking a slot leaves its reply alone: it is NULL unless a late reply was
\* stored after the slot was cleared.
TakeSlot(k, t) ==
  [queue[k] EXCEPT !.in_use = TRUE, !.sent_type = req[t].kind,
                   !.read_buf = IF req[t].kind = "read" THEN t ELSE @]

\* The message is over the negotiated size: the slot is answered at once and
\* nothing is written.
SendTooBig(t) ==
  /\ pc[t] \in {"send", "slot wait"} /\ Locks(t)
  /\ ~closed /\ FreeTags # {} /\ req[t].size > max_send_size
  /\ queue' = [queue EXCEPT ![FirstFree] = [TakeSlot(FirstFree, t) EXCEPT
                               !.reply = ErrorReply("too big", req[t])]]
  /\ tag' = [tag EXCEPT ![t] = FirstFree]
  /\ pc' = [pc EXCEPT ![t] = "tagged"]
  /\ Broadcast
  /\ UNCHANGED <<mtx, closed, recv_done, max_send_size, max_recv_size, fd_ok,
                 deaf, req, got, nreq, recvVars, closeVars, netVars>>

\* The slot is taken and write_full starts; the mutex stays held.
SendTake(t) ==
  /\ pc[t] \in {"send", "slot wait"} /\ Locks(t)
  /\ ~closed /\ FreeTags # {} /\ req[t].size <= max_send_size
  /\ queue' = [queue EXCEPT ![FirstFree] = TakeSlot(FirstFree, t)]
  /\ tag' = [tag EXCEPT ![t] = FirstFree]
  /\ pc' = [pc EXCEPT ![t] = "write"]
  /\ mtx' = t
  /\ UNCHANGED <<waitSet, closed, recv_done, max_send_size, max_recv_size,
                 fd_ok, deaf, req, got, nreq, recvVars, closeVars, netVars>>

\* write_full puts a chunk into the socket; on a write request the data
\* follows in a chunk of its own.
WriteMessage(t) ==
  /\ pc[t] = "write" /\ aborted = NONE
  /\ fd_ok /\ ~eof /\ Len(c2s) < SockCap
  /\ LET more == req[t].kind = "write" IN
       /\ c2s' = Append(c2s, [tag |-> tag[t], req |-> req[t], last |-> ~more])
       /\ pc' = [pc EXCEPT ![t] = IF more THEN "data" ELSE "tagged"]
       /\ IF more THEN UNCHANGED <<mtx, waitSet>>
                  ELSE mtx' = NONE /\ Broadcast
  /\ UNCHANGED <<closed, recv_done, queue, max_send_size, max_recv_size,
                 fd_ok, deaf, req, tag, got, nreq, recvVars, closeVars,
                 s2c, pending, srv_out, eof, nfaults>>

WriteData(t) ==
  /\ pc[t] = "data" /\ aborted = NONE
  /\ fd_ok /\ ~eof /\ Len(c2s) < SockCap
  /\ c2s' = Append(c2s, [tag |-> tag[t], req |-> req[t], last |-> TRUE])
  /\ pc' = [pc EXCEPT ![t] = "tagged"]
  /\ mtx' = NONE /\ Broadcast
  /\ UNCHANGED <<closed, recv_done, queue, max_send_size, max_recv_size,
                 fd_ok, deaf, req, tag, got, nreq, recvVars, closeVars,
                 s2c, pending, srv_out, eof, nfaults>>

\* write_full fails, the server being gone: the slot is cleared, and the tag
\* is -1.  When it was the first of the two writes of a write request, the
\* second one is tried all the same, fails too, and clears queue[-1]: the
\* bytes of fd and of the end of cnd, which lie before the queue (closed and
\* recv_done are there too, but a sender that holds the mutex knows they are
\* false).  The outcome is undefined: fd may be lost, and the wakeups of the
\* present waiters too.
WriteFails(t) ==
  /\ pc[t] \in {"write", "data"} /\ aborted = NONE
  /\ eof \/ ~fd_ok
  /\ queue' = [queue EXCEPT ![tag[t]] = EmptySlot]
  /\ tag' = [tag EXCEPT ![t] = -1]
  /\ pc' = [pc EXCEPT ![t] = "tagged"]
  /\ IF pc[t] = "write" /\ req[t].kind = "write"
       THEN fd_ok' \in {fd_ok, FALSE} /\ deaf' \in {deaf, waitSet}
       ELSE UNCHANGED <<fd_ok, deaf>>
  /\ mtx' = NONE /\ waitSet' = deaf'
  /\ UNCHANGED <<closed, recv_done, max_send_size, max_recv_size, req, got,
                 nreq, recvVars, closeVars, netVars>>

-----------------------------------------------------------------------------
(* wait9p and poll9p.  A poll9p that finds no reply on an open client      *)
(* returns NULL and leaves everything as it was.                           *)

Return(t, reply) ==
  /\ got' = [got EXCEPT ![t] = reply]
  /\ pc' = [pc EXCEPT ![t] = "idle"]
  /\ tag' = [tag EXCEPT ![t] = -1]

BadTag(t) == tag[t] \in Tags => ~queue[tag[t]].in_use

WaitBadTag(t) ==
  /\ pc[t] = "tagged" /\ Locks(t)
  /\ BadTag(t)
  /\ Return(t, ErrorReply("bad tag", req[t]))
  /\ UNCHANGED <<structVars, req, nreq, recvVars, closeVars, netVars>>

\* Mutant: "if" for the "while" around cond_wait9 in wait9p.
WaitReadyWoken(t) == pc[t] = "wait" \/ closed \/ queue[tag[t]].reply # NONE
WaitReady(t) == closed \/ queue[tag[t]].reply # NONE

WaitBlock(t) ==
  /\ pc[t] \in {"tagged", "wait"} /\ Locks(t)
  /\ pc[t] = "tagged" => ~BadTag(t)
  /\ ~WaitReady(t)
  /\ pc' = [pc EXCEPT ![t] = "wait"]
  /\ CondWait(t)
  /\ UNCHANGED <<mtx, closed, recv_done, queue, max_send_size, max_recv_size,
                 fd_ok, deaf, req, tag, got, nreq, recvVars, closeVars,
                 netVars>>

\* The slot is cleared even when the client was closed, and then a reply
\* that is there is dropped.
WaitTake(t) ==
  /\ pc[t] \in {"tagged", "wait"} /\ Locks(t)
  /\ pc[t] = "tagged" => ~BadTag(t)
  /\ WaitReady(t)
  /\ Return(t, IF closed THEN ErrorReply("closed", req[t])
                         ELSE queue[tag[t]].reply)
  /\ queue' = [queue EXCEPT ![tag[t]] = EmptySlot]
  /\ Broadcast
  /\ UNCHANGED <<mtx, closed, recv_done, max_send_size, max_recv_size, fd_ok,
                 deaf, req, nreq, recvVars, closeVars, netVars>>

\* Unlike wait9p, poll9p gives a reply that is there even when closed.
PollTake(t) ==
  /\ pc[t] = "tagged" /\ Locks(t)
  /\ ~BadTag(t)
  /\ WaitReady(t)
  /\ Return(t, IF queue[tag[t]].reply # NONE THEN queue[tag[t]].reply
                                             ELSE ErrorReply("closed", req[t]))
  /\ queue' = [queue EXCEPT ![tag[t]] = EmptySlot]
  /\ Broadcast
  /\ UNCHANGED <<mtx, closed, recv_done, max_send_size, max_recv_size, fd_ok,
                 deaf, req, nreq, recvVars, closeVars, netVars>>

-----------------------------------------------------------------------------
(* recv_thread.  It reads only while some request is unanswered, gives up  *)
(* the mutex while it reads, and keeps q, a pointer into the queue, which  *)
(* is rmsg.tag here, across the reads.                                     *)

\* q, and a mutant: the reply goes to the first request that waits for one.
FirstAwaited == CHOOSE k \in Tags : AwaitedTags # {} =>
                  k \in AwaitedTags /\ \A j \in AwaitedTags : k <= j
q == rmsg.tag

\* A read takes the next chunk, or fails once the server is gone.
\* m is what a read that succeeds leaves in the locals.
Read(m) ==
  \/ s2c # << >> /\ rmsg' = m /\ s2c' = Tail(s2c)
  \/ ((s2c = << >> /\ eof) \/ ~fd_ok) /\ rmsg' = NONE /\ UNCHANGED s2c

\* Mutant: recv_thread ends and does not close the client.
RecvExitOpen ==
  /\ recv_done' = TRUE
  /\ rpc' = "exited" /\ rmsg' = NONE
  /\ Broadcast
  /\ UNCHANGED <<mtx, closed, queue, max_send_size, max_recv_size, fd_ok, deaf,
                 callerVars, rbuf, closeVars, netVars>>

RecvExit ==
  /\ closed' = TRUE /\ recv_done' = TRUE
  /\ rpc' = "exited" /\ rmsg' = NONE
  /\ Broadcast
  /\ UNCHANGED <<mtx, queue, max_send_size, max_recv_size, fd_ok, deaf,
                 callerVars, rbuf, closeVars, netVars>>

RecvGoto(l) ==
  /\ rpc' = l
  /\ UNCHANGED <<structVars, callerVars, rmsg, rbuf, closeVars, netVars>>

RecvIdle ==
  /\ rpc = "top" /\ Locks("recv")
  /\ ~closed /\ AwaitedTags = {}
  /\ CondWait("recv")
  /\ UNCHANGED <<mtx, closed, recv_done, queue, max_send_size, max_recv_size,
                 fd_ok, deaf, callerVars, recvVars, closeVars, netVars>>

RecvStart ==
  /\ rpc = "top" /\ Locks("recv")
  /\ ~closed /\ AwaitedTags # {}
  /\ RecvGoto("header")

RecvClosed ==
  /\ rpc = "top" /\ Locks("recv")
  /\ closed
  /\ RecvExit

RecvHeader ==
  /\ rpc = "header" /\ aborted = NONE
  /\ Read(Head(s2c))
  /\ rpc' = "check"
  /\ UNCHANGED <<structVars, callerVars, rbuf, closeVars, c2s, pending,
                 srv_out, eof, nfaults>>

HeaderOk ==
  /\ rmsg # NONE
  /\ rmsg.size <= max_recv_size
  /\ rmsg.tag \in Tags
  /\ queue[rmsg.tag].sent_type # NONE
  /\ rmsg.type \in {"error", "flush", queue[rmsg.tag].sent_type}

RecvCheck ==
  /\ rpc = "check" /\ Locks("recv")
  /\ IF HeaderOk THEN RecvGoto("body") ELSE RecvExit

RecvBody ==
  /\ rpc = "body" /\ aborted = NONE
  /\ Read(rmsg)
  /\ rpc' = "store"
  /\ UNCHANGED <<structVars, callerVars, rbuf, closeVars, c2s, pending,
                 srv_out, eof, nfaults>>

\* Mutant: msize is taken from every reply, 0 where the reply has none.
NextSendSizeAlways == IF rmsg.type = "version" THEN MSIZE ELSE 0
NextSendSize == IF rmsg.type = "version" THEN MSIZE ELSE max_send_size

\* q->reply = r, whatever became of the slot during the reads.
PutReply ==
  /\ queue' = [queue EXCEPT ![q].reply =
                 ErrorReply(IF rmsg.type = "error" THEN "error" ELSE "answer",
                            rmsg.req)]
  /\ max_send_size' = NextSendSize
  /\ rpc' = "top" /\ rmsg' = NONE
  /\ Broadcast
  /\ UNCHANGED <<mtx, closed, recv_done, max_recv_size, fd_ok, deaf,
                 callerVars, rbuf, closeVars, netVars>>

RecvStore ==
  /\ rpc = "store" /\ Locks("recv")
  /\ rmsg # NONE => rmsg.type # "flush"
  /\ IF rmsg = NONE \/ rmsg.bad THEN RecvExit
     ELSE IF rmsg.type # "read" THEN PutReply
     ELSE IF rmsg.count > BufSize(queue[q].read_buf) THEN RecvExit
     ELSE RecvGoto("arg")

\* deserialize_reply knows no flush reply.
RecvAbort ==
  /\ rpc = "store" /\ Locks("recv")
  /\ rmsg # NONE /\ rmsg.type = "flush"
  /\ aborted' = "bad message type"
  /\ UNCHANGED <<structVars, callerVars, recvVars, cpc, netVars>>

\* q->read_buf is evaluated for read_full when the mutex is free again.
RecvArg ==
  /\ rpc = "arg" /\ aborted = NONE
  /\ rbuf' = queue[q].read_buf
  /\ rpc' = "data"
  /\ UNCHANGED <<structVars, callerVars, rmsg, closeVars, netVars>>

\* Nothing is read for a count of 0, and a read into NULL fails.
RecvData ==
  /\ rpc = "data" /\ aborted = NONE
  /\ IF rmsg.count = 0 THEN UNCHANGED <<rmsg, s2c>>
     ELSE IF rbuf = NONE THEN rmsg' = NONE /\ UNCHANGED s2c
     ELSE Read(rmsg)
  /\ rbuf' = NONE
  /\ rpc' = "stored"
  /\ UNCHANGED <<structVars, callerVars, closeVars, c2s, pending, srv_out,
                 eof, nfaults>>

RecvStored ==
  /\ rpc = "stored" /\ Locks("recv")
  /\ IF rmsg = NONE THEN RecvExit ELSE PutReply

-----------------------------------------------------------------------------
(* close9p.  It frees the client when no slot is in use and recv_thread is *)
(* done.  A thread that is still inside, or about to enter, send9p or      *)
(* wait9p then uses freed memory, which the build's sanitizer aborts on.   *)

CloseDone == recv_done /\ FreeTags = Tags

CloseBegin ==
  /\ cpc = "open" /\ Locks("closer")
  /\ closed' = TRUE
  /\ cpc' = "closing"
  /\ waitSet' = IF CloseDone THEN deaf ELSE deaf \cup {"closer"}
  /\ UNCHANGED <<mtx, recv_done, queue, max_send_size, max_recv_size, fd_ok,
                 deaf, callerVars, recvVars, aborted, netVars>>

CloseBlock ==
  /\ cpc = "closing" /\ Locks("closer")
  /\ ~CloseDone
  /\ CondWait("closer")
  /\ UNCHANGED <<mtx, closed, recv_done, queue, max_send_size, max_recv_size,
                 fd_ok, deaf, callerVars, recvVars, closeVars, netVars>>

CloseFree ==
  /\ cpc = "closing" /\ Locks("closer")
  /\ CloseDone
  /\ cpc' = "freed"
  /\ UNCHANGED <<structVars, callerVars, recvVars, aborted, netVars>>

UseAfterFree(t) ==
  /\ cpc = "freed" /\ aborted = NONE
  /\ pc[t] # "idle"
  /\ aborted' = "use after free"
  /\ UNCHANGED <<structVars, callerVars, recvVars, cpc, netVars>>

-----------------------------------------------------------------------------
(* The socket and the server.  The server handles one chunk at a time: it  *)
(* reads no request while a reply is on its way out.                       *)

\* A reply comes as a header, a body, and the data of a read.  recv_thread does not
\* see which part a chunk is: it takes the next one for what it expects.
HasData(m) == m.type = "read" /\ m.count > 0
Part(m, p) == [m EXCEPT !.part = p]
Chunks(m)  == IF HasData(m) THEN <<m, Part(m, "body"), Part(m, "data")>>
                            ELSE <<m, Part(m, "body")>>

AnswerTo(p, n) == [tag |-> p.tag, type |-> p.req.kind, size |-> 1,
                   req |-> p.req, count |-> n, bad |-> FALSE,
                   part |-> "header"]

Corrupt(fault, m) ==
  CASE fault = "error reply" -> [m EXCEPT !.type = "error"]
    [] fault = "bad tag"     -> [m EXCEPT !.tag = QUEUE_SIZE]
    [] fault = "bad type"    -> [m EXCEPT !.type = "bogus"]
    [] fault = "too big"     -> [m EXCEPT !.size = MSIZE + 1]
    [] fault = "0 byte"      -> [m EXCEPT !.bad = TRUE]
    [] fault = "big count"   -> [m EXCEPT !.count = 2]
    [] fault = "flush"       -> [m EXCEPT !.type = "flush"]
    [] fault = "duplicate"   -> m

ServerRecv ==
  /\ c2s # << >> /\ srv_out = << >> /\ ~eof /\ aborted = NONE
  /\ c2s' = Tail(c2s)
  /\ pending' = IF Head(c2s).last
                  THEN pending \cup {[tag |-> Head(c2s).tag, req |-> Head(c2s).req]}
                  ELSE pending
  /\ UNCHANGED <<structVars, callerVars, recvVars, closeVars, s2c, srv_out,
                 eof, nfaults>>

ServerReply ==
  /\ srv_out = << >> /\ ~eof /\ aborted = NONE
  /\ \E p \in pending, n \in Counts :
       /\ srv_out' = Chunks(AnswerTo(p, n))
       /\ pending' = pending \ {p}
  /\ UNCHANGED <<structVars, callerVars, recvVars, closeVars, c2s, s2c, eof,
                 nfaults>>

ServerFault ==
  /\ srv_out = << >> /\ ~eof /\ aborted = NONE
  /\ nfaults < MaxFaults
  /\ nfaults' = nfaults + 1
  /\ \E p \in pending, n \in Counts, fault \in Faults \ {"disconnect"} :
       /\ srv_out' = Chunks(Corrupt(fault, AnswerTo(p, n)))
       /\ pending' = IF fault = "duplicate" THEN pending ELSE pending \ {p}
  /\ UNCHANGED <<structVars, callerVars, recvVars, closeVars, c2s, s2c, eof>>

ServerWrite ==
  /\ srv_out # << >> /\ Len(s2c) < SockCap /\ ~eof /\ aborted = NONE
  /\ s2c' = Append(s2c, Head(srv_out))
  /\ srv_out' = Tail(srv_out)
  /\ UNCHANGED <<structVars, callerVars, recvVars, closeVars, c2s, pending,
                 eof, nfaults>>

Disconnect ==
  /\ "disconnect" \in Faults /\ ~eof /\ aborted = NONE
  /\ eof' = TRUE
  /\ c2s' = << >> /\ pending' = {} /\ srv_out' = << >>
  /\ UNCHANGED <<structVars, callerVars, recvVars, closeVars, s2c, nfaults>>

-----------------------------------------------------------------------------

SendStep(t) == \/ SendBlock(t) \/ SendClosed(t) \/ SendTooBig(t)
               \/ SendTake(t) \/ WriteMessage(t) \/ WriteData(t)
               \/ WriteFails(t)
WaitStep(t) == WaitBadTag(t) \/ WaitBlock(t) \/ WaitTake(t) \/ PollTake(t)
RecvStep    == \/ RecvIdle \/ RecvStart \/ RecvClosed \/ RecvHeader
               \/ RecvCheck \/ RecvBody \/ RecvStore \/ RecvAbort \/ RecvArg
               \/ RecvData \/ RecvStored
CloseStep   == CloseBlock \/ CloseFree
ServerStep  == ServerRecv \/ ServerReply \/ ServerWrite

\* Everything has come to an end: the process died, or the client is closed
\* and no thread is inside it.
Terminated ==
  /\ aborted # NONE \/ (cpc = "freed" /\ \A t \in Callers : pc[t] = "idle")
  /\ UNCHANGED vars

Next ==
  \/ \E t \in Callers : \/ Call(t) \/ SendStep(t) \/ WaitStep(t)
                        \/ UseAfterFree(t)
  \/ RecvStep
  \/ CloseBegin \/ CloseStep
  \/ ServerStep \/ ServerFault \/ Disconnect
  \/ Terminated

Spec == Init /\ [][Next]_vars

\* The scheduler runs every thread that can run, and the server reads, and
\* answers, what it got.  Nobody has to send, to close, or to misbehave.
Fairness ==
  /\ \A t \in Callers :
       WF_vars(SendStep(t)) /\ WF_vars(WaitStep(t)) /\ WF_vars(UseAfterFree(t))
  /\ WF_vars(RecvStep)
  /\ WF_vars(CloseStep)
  /\ WF_vars(ServerRecv) /\ WF_vars(ServerReply) /\ WF_vars(ServerWrite)

FairSpec == Spec /\ Fairness

-----------------------------------------------------------------------------
(* Properties.                                                             *)

\* Thread t owns a slot: send_with_buffer has taken it for t, and no wait9p
\* or poll9p has given it back.
Holds(t) == pc[t] \in {"write", "data", "wait"} \/ (pc[t] = "tagged" /\ tag[t] # -1)

\* A slot in use is owned by exactly one thread and describes its request;
\* the tag a thread holds is a slot in use.  So wait9p of a tag that was
\* returned never says "bad tag", and no slot leaks, whatever the server
\* sends and whenever the client is closed (9p.c:508-527, 543, 574, 596).
OwnedSlot(t) ==
  Holds(t) => /\ tag[t] \in Tags
              /\ queue[tag[t]].in_use
              /\ queue[tag[t]].sent_type = req[t].kind
              /\ req[t].kind = "read" => queue[tag[t]].read_buf = t
SlotOwners ==
  /\ \A t \in Callers : OwnedSlot(t)
  /\ \A t, u \in Callers : Holds(t) /\ Holds(u) /\ tag[t] = tag[u] => t = u
  /\ \A k \in Tags : queue[k].in_use => \E t \in Callers : Holds(t) /\ tag[t] = k

\* With a server that answers each request at most once, a reply goes to the
\* thread whose request it answers, in its slot and as the result of wait9p
\* or poll9p, though tags are reused and replies come in any order.  A reply in
\* a slot that nobody owns can be there only on a closed client: on an open one
\* the next sender to take the slot would be given it (9p.c:156, 212, 522-524, 573).
RepliesMatch ==
  /\ \A t \in Callers :
       /\ Holds(t) /\ queue[tag[t]].reply # NONE => queue[tag[t]].reply.req = req[t]
       /\ pc[t] = "idle" /\ got[t] # NONE => got[t].req = req[t]
  /\ \A k \in Tags : queue[k].reply # NONE /\ ~closed => queue[k].in_use

\* While the client is open, recv_thread fills the buffer of a thread that
\* is still waiting for that very read (9p.c:198 runs without the mutex).
BufferOwned ==
  rpc = "data" /\ rbuf # NONE /\ ~closed =>
    /\ Holds(rbuf) /\ tag[rbuf] = rmsg.tag
    /\ req[rbuf] = rmsg.req /\ queue[rmsg.tag].reply = NONE

\* close9p frees the client only after recv_thread is done and every thread
\* that holds a tag has taken its reply (9p.c:105-111).
FreedAfterOwners ==
  cpc = "freed" => rpc = "exited" /\ \A t \in Callers : ~Holds(t)

\* Every call returns.  wait9p: the server answers or goes away, or the client is
\* closed, and the wakeup is not lost; a sender gets a slot or an error; close9p
\* returns once every answer that is under way has come
\* (9p.c:107-112, 509-512, 570-572).
CallsReturn ==
  /\ \A t \in Callers : pc[t] = "wait" ~> (pc[t] = "idle" \/ aborted # NONE)
  /\ \A t \in Callers :
       pc[t] = "slot wait" ~> (pc[t] \in {"write", "tagged"} \/ aborted # NONE)
  /\ cpc = "closing" ~> (cpc = "freed" \/ aborted # NONE)

\* The same calls without slots and stream.  A request is in flight from when its
\* last chunk is written until its reply is stored.
StageOf(t) ==
  CASE pc[t] = "idle"                  -> "out"
    [] pc[t] \in {"send", "slot wait"} -> "calling"
    [] pc[t] \in {"write", "data"}     -> "sending"
    [] Holds(t) /\ pc[t] \in {"tagged", "wait"} -> "waiting"
    [] OTHER                           -> "refused"
ReplyOf(t) == IF Holds(t) THEN queue[tag[t]].reply ELSE NONE
InFlight ==
  {c2s[i].req : i \in {j \in 1 .. Len(c2s) : c2s[j].last}}
  \cup {p.req : p \in pending}
  \cup {srv_out[i].req : i \in 1 .. Len(srv_out)}
  \cup {s2c[i].req : i \in 1 .. Len(s2c)}
  \cup {m.req : m \in {rmsg} \ {NONE}}

Calls == INSTANCE Calls9p WITH
  Limit <- QUEUE_SIZE, Kinds <- AllKinds,
  stage <- [t \in Callers |-> StageOf(t)], calls <- nreq,
  reply <- [t \in Callers |-> ReplyOf(t)], flight <- InFlight,
  open <- ~closed, lost <- eof, freed <- (cpc = "freed")

\* With a server that answers each request at most once, the client does what
\* Calls9p promises: at most QUEUE_SIZE requests are admitted, each goes out once
\* and whole, its answer is given once and to its caller, none is lost on an open
\* client with a server, and a call ends without one only if the client is closed or
\* the server gone (9p.c:101-115, 138-231, 502-600).
Implements == Calls!Spec

\* close9p waits "for the waiters to go away" (9p.c:106): no thread is still
\* in the cond_wait loop of send_with_buffer when it frees the client.
WaitersGone == cpc = "freed" => \A t \in Callers : pc[t] # "slot wait"
=============================================================================
