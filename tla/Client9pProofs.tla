--------------------------- MODULE Client9pProofs ---------------------------
(***************************************************************************)
(* Proofs about Client9p, for any number of callers, slots and requests,   *)
(* any socket capacity and every fault of the server and the connection.   *)
(***************************************************************************)
EXTENDS Client9p, FiniteSetTheorems, SequenceTheorems, TLAPS

-----------------------------------------------------------------------------
(* free_queue_slot returns a free slot whenever there is one.              *)

\* Every nonempty set of naturals has a least element.  The initial segments
\* of S are finite sets, ordered well-foundedly by strict inclusion.
LEMMA LeastNatural ==
  ASSUME NEW S \in SUBSET Nat, S # {}
  PROVE  \E m \in S : \A n \in S : m <= n
<1> DEFINE Upto(n) == {i \in S : i <= n}
           Segments == {Upto(n) : n \in S}
<1>1. Segments \subseteq FiniteSubsetsOf(Nat)
  <2> SUFFICES ASSUME NEW n \in S PROVE Upto(n) \in FiniteSubsetsOf(Nat)
    OBVIOUS
  <2>1. Upto(n) \in SUBSET Nat /\ n \in Nat
    OBVIOUS
  <2>2. \A s \in Upto(n) : s <= n
    OBVIOUS
  <2>3. IsFiniteSet(Upto(n))
    <3> HIDE DEF Upto
    <3> QED BY <2>1, <2>2, FS_BoundedSetOfNaturals
  <2> QED BY <2>1, <2>3 DEF FiniteSubsetsOf
<1>2. Segments # {}
  OBVIOUS
<1>3. PICK X \in Segments :
        \A Y \in Segments : ~ (<<Y, X>> \in StrictSubsetOrdering(Nat))
  <2> HIDE DEF Segments
  <2>1. IsWellFoundedOn(StrictSubsetOrdering(Nat), FiniteSubsetsOf(Nat))
    BY FS_StrictSubsetOrderingWellFounded
  <2> QED BY <1>1, <1>2, <2>1, WFMin
<1>4. PICK m \in S : X = Upto(m)
  OBVIOUS
<1>5. ASSUME NEW n \in S, n < m PROVE FALSE
  <2>0. S \subseteq Nat /\ m \in Nat /\ n \in Nat
    OBVIOUS
  <2>1. Upto(n) \subseteq Upto(m)
    <3> SUFFICES ASSUME NEW i \in S, i <= n PROVE i <= m
      OBVIOUS
    <3> i \in Nat
      BY <2>0
    <3> QED BY <1>5, <2>0
  <2>4. m \in Upto(m) /\ m \notin Upto(n)
    BY <1>5, <2>0
  <2>2. <<Upto(n), Upto(m)>> \in (SUBSET Nat) \X (SUBSET Nat)
    OBVIOUS
  <2>3. <<Upto(n), Upto(m)>> \in StrictSubsetOrdering(Nat)
    BY <2>1, <2>2, <2>4 DEF StrictSubsetOrdering
  <2> QED BY <1>3, <1>4, <2>3
<1>6. \A n \in S : m <= n
  <2> SUFFICES ASSUME NEW n \in S PROVE m <= n
    OBVIOUS
  <2>1. m \in Nat /\ n \in Nat
    OBVIOUS
  <2> QED BY <1>5, <2>1
<1> QED BY <1>6

\* The slot send_with_buffer takes is free, when there is a free one
\* (queue_empty, 9p.c:641-649).
LEMMA FirstFreeIsFree ==
  ASSUME FreeTags # {}
  PROVE  FirstFree \in FreeTags /\ FirstFree \in Tags /\ ~queue[FirstFree].in_use
<1>1. FreeTags \in SUBSET Nat
  BY SlotAssumption DEF FreeTags, Tags
<1>2. \E m \in FreeTags : \A n \in FreeTags : m <= n
  BY <1>1, LeastNatural
<1>3. FirstFree \in FreeTags
  BY <1>2 DEF FirstFree
<1> QED BY <1>3 DEF FreeTags

-----------------------------------------------------------------------------
(* Type correctness.  The tag of a sender or waiter is a slot because it   *)
(* owns that slot, so the two invariants are proved together.              *)

\* connect_fd9p leaves a well-typed client (9p.c:80-97).
LEMMA TypeInit == Init => TypeOK
<1> SUFFICES ASSUME Init PROVE TypeOK
  OBVIOUS
<1>1. StructType
  BY DEF Init, StructType, Slots, EmptySlot
<1>2. CallerType
  BY BoundAssumption DEF Init, CallerType
<1>3. RecvType
  BY DEF Init, RecvType
<1>4. NetType
  BY DEF Init, NetType
<1>5. FlagType
  BY DEF Init, FlagType
<1> QED BY <1>1, <1>2, <1>3, <1>4, <1>5 DEF TypeOK

\* Every critical section keeps the fields of Client9p in their types.
LEMMA StructTypeStep ==
  ASSUME TypeOK, Next
  PROVE  StructType'
<1> USE DEF TypeOK, StructType
<1>1. ASSUME NEW t \in Callers, Call(t) PROVE StructType'
  BY <1>1 DEF Call, MSIZE
<1>2. ASSUME NEW t \in Callers, SendStep(t) PROVE StructType'
  <2>1. CASE SendBlock(t)
    BY <2>1 DEF SendBlock, CondWait, Threads
  <2>2. CASE SendClosed(t)
    BY <2>2 DEF SendClosed, structVars
  <2>3. CASE SendTooBig(t)
    <3>1. FirstFree \in Tags /\ req[t] \in Requests
      BY <2>3, FirstFreeIsFree DEF SendTooBig, CallerType
    <3>2. ErrorReply("too big", req[t]) \in Replies /\ req[t].kind \in AllKinds
      BY <3>1 DEF ErrorReply, Replies, Requests
    <3>3. queue' \in [Tags -> Slots]
      BY <2>3, <3>1, <3>2 DEF SendTooBig, TakeSlot, Slots
    <3> QED BY <2>3, <3>3 DEF SendTooBig, Broadcast
  <2>4. CASE SendTake(t)
    <3>1. FirstFree \in Tags /\ req[t] \in Requests
      BY <2>4, FirstFreeIsFree DEF SendTake, CallerType
    <3>2. req[t].kind \in AllKinds
      BY <3>1 DEF Requests
    <3>3. queue' \in [Tags -> Slots]
      BY <2>4, <3>1, <3>2 DEF SendTake, TakeSlot, Slots
    <3> QED BY <2>4, <3>3 DEF SendTake
  <2>5. CASE WriteMessage(t) \/ WriteData(t)
    BY <2>5 DEF WriteMessage, WriteData, Broadcast
  <2>6. CASE WriteFails(t)
    <3>1. queue' \in [Tags -> Slots]
      BY <2>6 DEF WriteFails, EmptySlot, Slots
    <3>2. deaf' \subseteq Threads /\ waitSet' = deaf' /\ mtx' = NONE
      BY <2>6 DEF WriteFails
    <3> QED BY <2>6, <3>1, <3>2 DEF WriteFails
  <2> QED BY <1>2, <2>1, <2>2, <2>3, <2>4, <2>5, <2>6 DEF SendStep
<1>3. ASSUME NEW t \in Callers, WaitStep(t) PROVE StructType'
  <2>1. CASE WaitBadTag(t)
    BY <2>1 DEF WaitBadTag, structVars
  <2>2. CASE WaitBlock(t)
    BY <2>2 DEF WaitBlock, CondWait, Threads
  <2>3. CASE WaitTake(t) \/ PollTake(t)
    <3>1. queue' = [queue EXCEPT ![tag[t]] = EmptySlot]
      BY <2>3 DEF WaitTake, PollTake
    <3>2. queue' \in [Tags -> Slots]
      BY <3>1 DEF EmptySlot, Slots
    <3> QED BY <2>3, <3>2 DEF WaitTake, PollTake, Broadcast
  <2> QED BY <1>3, <2>1, <2>2, <2>3 DEF WaitStep
<1>4. CASE RecvStep
  <2>1. CASE RecvIdle
    BY <2>1 DEF RecvIdle, CondWait, Threads
  <2>2. CASE RecvExit
    BY <2>2 DEF RecvExit, Broadcast
  <2>3. CASE PutReply /\ rmsg # NONE
    <3>1. rmsg.req \in Requests
      BY <2>3 DEF RecvType, Messages
    <3>2. ASSUME NEW what \in {"error", "answer"}
          PROVE  ErrorReply(what, rmsg.req) \in Replies
      BY <3>1 DEF ErrorReply, Replies
    <3>3. PICK r \in Replies : queue' = [queue EXCEPT ![q].reply = r]
      BY <2>3, <3>2 DEF PutReply
    <3>4. \A k \in Tags : [queue[k] EXCEPT !.reply = r] \in Slots
      BY DEF Slots
    <3>5. queue' \in [Tags -> Slots]
      BY <3>3, <3>4
    <3> QED BY <2>3, <3>5 DEF PutReply, NextSendSize, Broadcast
  <2>4. CASE UNCHANGED structVars
    BY <2>4 DEF structVars
  <2> QED BY <1>4, <2>1, <2>2, <2>3, <2>4 DEF RecvStep, RecvStart, RecvClosed,
        RecvHeader, RecvCheck, RecvBody, RecvStore, RecvAbort, RecvArg,
        RecvData, RecvStored, RecvGoto
<1>5. CASE CloseBegin \/ CloseStep
  BY <1>5 DEF CloseBegin, CloseStep, CloseBlock, CloseFree, CondWait, Threads,
     structVars
<1>6. CASE UNCHANGED structVars
  BY <1>6 DEF structVars
<1> QED BY <1>1, <1>2, <1>3, <1>4, <1>5, <1>6 DEF Next, UseAfterFree,
      ServerStep, ServerRecv, ServerReply, ServerWrite, ServerFault, Disconnect,
      Terminated, vars

\* The next request of a caller has a number within the bound.
LEMMA NextRequestNumber ==
  ASSUME NEW n \in 0 .. MaxReqs, n < MaxReqs
  PROVE  n + 1 \in 1 .. MaxReqs /\ n + 1 \in 0 .. MaxReqs
<1>1. MaxReqs \in Nat /\ n \in Nat
  BY BoundAssumption
<1> QED BY <1>1

\* Every step keeps the callers' arguments and results in their types.
LEMMA CallerTypeStep ==
  ASSUME TypeOK, SlotOwners, Next
  PROVE  CallerType'
<1> USE DEF TypeOK, CallerType
<1>1. ASSUME NEW t \in Callers, Call(t) PROVE CallerType'
  <2>1. PICK kind \in AllKinds, size \in Sizes :
          req' = [req EXCEPT ![t] = [by |-> t, seq |-> nreq[t] + 1,
                                     kind |-> kind, size |-> size]]
    BY <1>1 DEF Call
  <2>2. nreq[t] + 1 \in 1 .. MaxReqs /\ nreq[t] + 1 \in 0 .. MaxReqs
    <3>1. nreq[t] \in 0 .. MaxReqs /\ nreq[t] < MaxReqs
      BY <1>1 DEF Call
    <3> QED BY <3>1, NextRequestNumber
  <2>3. [by |-> t, seq |-> nreq[t] + 1, kind |-> kind, size |-> size] \in Requests
    BY <2>2, BoundAssumption DEF Requests
  <2>4. nreq' \in [Callers -> 0 .. MaxReqs]
    <3>1. nreq' = [nreq EXCEPT ![t] = @ + 1]
      BY <1>1 DEF Call
    <3> QED BY <2>2, <3>1
  <2> QED BY <1>1, <2>1, <2>3, <2>4 DEF Call
<1>2. ASSUME NEW t \in Callers, SendStep(t) PROVE CallerType'
  <2>1. CASE SendBlock(t)
    BY <2>1 DEF SendBlock
  <2>2. CASE SendClosed(t)
    BY <2>2 DEF SendClosed
  <2>3. CASE SendTooBig(t) \/ SendTake(t)
    <3>1. FirstFree \in Tags /\ pc[t] # "idle"
      BY <2>3, FirstFreeIsFree DEF SendTooBig, SendTake
    <3>2. tag' = [tag EXCEPT ![t] = FirstFree] /\ UNCHANGED <<req, got, nreq>>
      BY <2>3 DEF SendTooBig, SendTake
    <3>3. \E l \in {"tagged", "write"} : pc' = [pc EXCEPT ![t] = l]
      BY <2>3 DEF SendTooBig, SendTake
    <3> QED BY <3>1, <3>2, <3>3
  <2>4. CASE WriteMessage(t) \/ WriteData(t)
    BY <2>4 DEF WriteMessage, WriteData
  <2>5. CASE WriteFails(t)
    BY <2>5 DEF WriteFails
  <2> QED BY <1>2, <2>1, <2>2, <2>3, <2>4, <2>5 DEF SendStep
<1>3. ASSUME NEW t \in Callers, WaitStep(t) PROVE CallerType'
  <2> DEFINE Returned(r) == Return(t, r) /\ UNCHANGED <<req, nreq>>
  <2>1. ASSUME NEW r \in Replies, Returned(r) PROVE CallerType'
    BY <2>1 DEF Return
  <2>2. ASSUME NEW what \in {"closed", "bad tag"}, pc[t] # "idle"
        PROVE  ErrorReply(what, req[t]) \in Replies
    BY <2>2 DEF ErrorReply, Replies
  <2>3. CASE WaitBadTag(t)
    BY <2>1, <2>2, <2>3 DEF WaitBadTag
  <2>4. CASE WaitBlock(t)
    BY <2>4 DEF WaitBlock
  <2>5. CASE WaitTake(t) \/ PollTake(t)
    <3>1. tag[t] \in Tags /\ pc[t] # "idle"
      BY <2>5 DEF WaitTake, PollTake, BadTag, SlotOwners, OwnedSlot, Holds
    <3>2. queue[tag[t]].reply \in Replies \cup {NONE}
      BY <3>1 DEF StructType, Slots
    <3>3. PICK r \in Replies : Returned(r)
      BY <2>2, <2>5, <3>1, <3>2 DEF WaitTake, PollTake, WaitReady
    <3> QED BY <2>1, <3>3
  <2> QED BY <1>3, <2>3, <2>4, <2>5 DEF WaitStep
<1>4. CASE UNCHANGED callerVars
  BY <1>4 DEF callerVars
<1> QED BY <1>1, <1>2, <1>3, <1>4 DEF Next, UseAfterFree, RecvStep, RecvIdle,
      RecvStart, RecvClosed, RecvHeader, RecvCheck, RecvBody, RecvStore,
      RecvAbort, RecvArg, RecvData, RecvStored, RecvGoto, RecvExit, PutReply,
      CloseBegin, CloseStep, CloseBlock, CloseFree, ServerStep, ServerRecv,
      ServerReply, ServerWrite, ServerFault, Disconnect, Terminated, vars

\* Every step keeps recv_thread's locals typed: past the header check its
\* tag is a slot of the queue.
LEMMA RecvTypeStep ==
  ASSUME TypeOK, Next
  PROVE  RecvType'
<1> USE DEF TypeOK, RecvType
<1>1. CASE RecvStep
  <2>1. CASE RecvHeader
    <3>1. s2c # << >> => Head(s2c) \in Messages
      BY HeadTailProperties DEF NetType
    <3>2. rmsg' \in Messages \cup {NONE} /\ rpc' = "check"
      BY <2>1, <3>1 DEF RecvHeader, Read
    <3> QED BY <2>1, <3>2 DEF RecvHeader, closeVars
  <2>2. CASE RecvBody \/ RecvData
    <3>1. rmsg' \in {rmsg, NONE} /\ rpc' \in {"store", "stored"}
      BY <2>2 DEF RecvBody, RecvData, Read
    <3> QED BY <2>2, <3>1 DEF RecvBody, RecvData, closeVars
  <2>3. CASE RecvIdle
    BY <2>3 DEF RecvIdle, recvVars, closeVars
  <2>4. CASE RecvExit
    BY <2>4 DEF RecvExit, closeVars
  <2>5. CASE PutReply
    BY <2>5 DEF PutReply, closeVars
  <2>6. CASE RecvStart
    BY <2>6 DEF RecvStart, RecvGoto, closeVars
  <2>7. CASE RecvGoto("body") /\ HeaderOk
    BY <2>7 DEF RecvGoto, HeaderOk, closeVars
  <2>8. CASE RecvAbort
    BY <2>8 DEF RecvAbort, recvVars
  <2>9. CASE RecvStore /\ RecvGoto("arg") /\ rmsg # NONE
    BY <2>9 DEF RecvStore, RecvGoto, closeVars
  <2>10. CASE RecvArg
    <3>1. q \in Tags
      BY <2>10 DEF RecvArg, q
    <3>2. rbuf' \in Callers \cup {NONE}
      BY <2>10, <3>1 DEF RecvArg, StructType, Slots
    <3> QED BY <2>10, <3>2 DEF RecvArg, closeVars
  <2> QED BY <1>1, <2>1, <2>2, <2>3, <2>4, <2>5, <2>6, <2>7, <2>8, <2>9, <2>10
        DEF RecvStep, RecvClosed, RecvCheck, RecvStore, RecvStored
<1>2. CASE CloseBegin \/ CloseStep
  BY <1>2 DEF CloseBegin, CloseStep, CloseBlock, CloseFree, recvVars, closeVars
<1>3. ASSUME NEW t \in Callers, UseAfterFree(t) PROVE RecvType'
  BY <1>3 DEF UseAfterFree, recvVars
<1>4. CASE UNCHANGED <<recvVars, closeVars>>
  BY <1>4 DEF recvVars, closeVars
<1> QED BY <1>1, <1>2, <1>3, <1>4 DEF Next, Call, SendStep, SendBlock, SendClosed,
      SendTooBig, SendTake, WriteMessage, WriteData, WriteFails, WaitStep,
      WaitBadTag, WaitBlock, WaitTake, PollTake, ServerStep, ServerRecv,
      ServerReply, ServerWrite, ServerFault, Disconnect, Terminated, vars

\* What a faulty server sends is still a message.
LEMMA CorruptType ==
  ASSUME NEW m \in Messages, NEW fault \in Faults \ {"disconnect"}
  PROVE  Corrupt(fault, m) \in Messages
<1>1. [m EXCEPT !.type = "error"] \in Messages /\ [m EXCEPT !.type = "bogus"] \in Messages
  BY DEF Messages
<1>2. [m EXCEPT !.type = "flush"] \in Messages /\ [m EXCEPT !.bad = TRUE] \in Messages
  BY DEF Messages
<1>3. [m EXCEPT !.tag = QUEUE_SIZE] \in Messages
  BY DEF Messages
<1>4. [m EXCEPT !.size = MSIZE + 1] \in Messages /\ [m EXCEPT !.count = 2] \in Messages
  BY DEF Messages, MSIZE
<1>5. fault \in {"error reply", "bad tag", "bad type", "too big", "0 byte",
                "big count", "flush", "duplicate"}
  BY FaultAssumption
<1> QED BY <1>1, <1>2, <1>3, <1>4, <1>5 DEF Corrupt

\* The chunks of a message are messages.
LEMMA ChunksType ==
  ASSUME NEW m \in Messages
  PROVE  Chunks(m) \in Seq(Messages)
<1>1. Part(m, "body") \in Messages /\ Part(m, "data") \in Messages
  BY DEF Part, Messages
<1> QED BY <1>1 DEF Chunks

\* Every step keeps what is on the socket and in the server well typed.
LEMMA NetTypeStep ==
  ASSUME TypeOK, SlotOwners, Next
  PROVE  NetType'
<1> DEFINE Sent == [tag: Tags, req: Requests, last: BOOLEAN]
<1> USE DEF TypeOK, NetType
<1>1. ASSUME NEW t \in Callers, WriteMessage(t) \/ WriteData(t) PROVE NetType'
  <2>1. tag[t] \in Tags /\ req[t] \in Requests
    BY <1>1 DEF WriteMessage, WriteData, SlotOwners, OwnedSlot, Holds, CallerType
  <2>2. PICK last \in BOOLEAN :
          c2s' = Append(c2s, [tag |-> tag[t], req |-> req[t], last |-> last])
    BY <1>1 DEF WriteMessage, WriteData
  <2>3. [tag |-> tag[t], req |-> req[t], last |-> last] \in Sent
    BY <2>1
  <2>4. c2s' \in Seq(Sent)
    BY <2>2, <2>3, AppendProperties
  <2> QED BY <1>1, <2>4 DEF WriteMessage, WriteData
<1>2. CASE RecvHeader \/ RecvBody \/ RecvData
  <2>1. s2c' = s2c \/ (s2c # << >> /\ s2c' = Tail(s2c))
    BY <1>2 DEF RecvHeader, RecvBody, RecvData, Read
  <2>2. s2c' \in Seq(Messages)
    BY <2>1, HeadTailProperties
  <2> QED BY <1>2, <2>2 DEF RecvHeader, RecvBody, RecvData
<1>3. CASE ServerRecv
  <2>1. Head(c2s) \in Sent /\ Tail(c2s) \in Seq(Sent)
    BY <1>3, HeadTailProperties DEF ServerRecv
  <2>2. c2s' \in Seq(Sent)
    BY <1>3, <2>1 DEF ServerRecv
  <2>3. pending' \subseteq [tag: Tags, req: Requests]
    BY <1>3, <2>1 DEF ServerRecv
  <2> QED BY <1>3, <2>2, <2>3 DEF ServerRecv
<1>4. ASSUME NEW p \in pending, NEW n \in Counts PROVE AnswerTo(p, n) \in Messages
  BY <1>4, BoundAssumption DEF AnswerTo, Messages, Requests
<1>5. CASE ServerReply
  <2>1. srv_out' \in Seq(Messages)
    BY <1>4, <1>5, ChunksType DEF ServerReply
  <2> QED BY <1>5, <2>1 DEF ServerReply
<1>6. CASE ServerFault
  <2>1. srv_out' \in Seq(Messages)
    BY <1>4, <1>6, ChunksType, CorruptType DEF ServerFault
  <2> QED BY <1>6, <2>1 DEF ServerFault
<1>7. CASE ServerWrite
  <2>1. Head(srv_out) \in Messages /\ Tail(srv_out) \in Seq(Messages)
    BY <1>7, HeadTailProperties DEF ServerWrite
  <2>2. s2c' \in Seq(Messages)
    BY <1>7, <2>1, AppendProperties DEF ServerWrite
  <2> QED BY <1>7, <2>1, <2>2 DEF ServerWrite
<1>8. CASE Disconnect
  BY <1>8 DEF Disconnect
<1>9. CASE UNCHANGED <<c2s, s2c, pending, srv_out>>
  BY <1>9
<1> QED BY <1>1, <1>2, <1>3, <1>5, <1>6, <1>7, <1>8, <1>9 DEF Next, Call, SendStep,
      SendBlock, SendClosed, SendTooBig, SendTake, WriteFails, WaitStep,
      WaitBadTag, WaitBlock, WaitTake, PollTake, RecvStep, RecvIdle, RecvStart,
      RecvClosed, RecvCheck, RecvStore, RecvAbort, RecvArg, RecvStored,
      RecvGoto, RecvExit, PutReply, CloseBegin, CloseStep, CloseBlock,
      CloseFree, UseAfterFree, ServerStep, Terminated, netVars, vars

\* Every step keeps the flags Boolean.
LEMMA FlagTypeStep ==
  ASSUME TypeOK, Next
  PROVE  FlagType'
<1> USE DEF TypeOK, FlagType
<1>1. closed' \in {closed, TRUE} /\ recv_done' \in {recv_done, TRUE}
  BY DEF Next, Call, SendStep,
      SendBlock, SendClosed, SendTooBig, SendTake, WriteMessage, WriteData, WriteFails, WaitStep,
      WaitBadTag, WaitBlock, WaitTake, PollTake, RecvStep, RecvIdle, RecvStart,
      RecvClosed, RecvHeader, RecvCheck, RecvBody, RecvStore, RecvAbort, RecvArg, RecvData, RecvStored,
      RecvGoto, RecvExit, PutReply, CloseBegin, CloseStep, CloseBlock,
      CloseFree, UseAfterFree, ServerStep, ServerRecv, ServerReply, ServerFault, ServerWrite, Disconnect,
      Terminated, structVars, vars
<1>2. fd_ok' \in {fd_ok, FALSE} /\ eof' \in {eof, TRUE}
  BY DEF Next, Call, SendStep,
      SendBlock, SendClosed, SendTooBig, SendTake, WriteMessage, WriteData, WriteFails, WaitStep,
      WaitBadTag, WaitBlock, WaitTake, PollTake, RecvStep, RecvIdle, RecvStart,
      RecvClosed, RecvHeader, RecvCheck, RecvBody, RecvStore, RecvAbort, RecvArg, RecvData, RecvStored,
      RecvGoto, RecvExit, PutReply, CloseBegin, CloseStep, CloseBlock,
      CloseFree, UseAfterFree, ServerStep, ServerRecv, ServerReply, ServerFault, ServerWrite, Disconnect,
      Terminated, structVars, netVars, vars
<1> QED BY <1>1, <1>2

\* Every step of the specification keeps the types.
LEMMA TypeStep ==
  ASSUME TypeOK, SlotOwners, [Next]_vars
  PROVE  TypeOK'
<1>1. CASE Next
  BY <1>1, StructTypeStep, CallerTypeStep, RecvTypeStep, NetTypeStep,
     FlagTypeStep DEF TypeOK
<1>2. CASE UNCHANGED vars
  <2> USE <1>2 DEF TypeOK, vars
  <2>1. StructType'
    BY DEF StructType, structVars
  <2>2. CallerType'
    BY DEF CallerType, callerVars
  <2>3. RecvType'
    BY DEF RecvType, recvVars, closeVars
  <2>4. NetType'
    BY DEF NetType, netVars
  <2>5. FlagType'
    BY DEF FlagType, structVars, netVars
  <2> QED BY <2>1, <2>2, <2>3, <2>4, <2>5
<1> QED BY <1>1, <1>2

-----------------------------------------------------------------------------
(* Slot ownership.  A step leaves the owners alone, makes one thread the   *)
(* owner of a free slot, or takes an owner's slot away from it.            *)

SameOwner(u) ==
  /\ Holds(u)' <=> Holds(u)
  /\ Holds(u) => tag'[u] = tag[u] /\ req'[u] = req[u]
SameSlot(k) ==
  /\ queue'[k].in_use = queue[k].in_use
  /\ queue'[k].sent_type = queue[k].sent_type
  /\ queue'[k].read_buf = queue[k].read_buf

\* A step that changes no owner, and of the slots at most the replies,
\* keeps the ownership.
LEMMA OwnersKept ==
  ASSUME SlotOwners,
         \A u \in Callers : SameOwner(u),
         \A k \in Tags : SameSlot(k)
  PROVE  SlotOwners'
<1>1. ASSUME NEW u \in Callers PROVE OwnedSlot(u)'
  BY DEF SlotOwners, OwnedSlot, SameOwner, SameSlot
<1>2. ASSUME NEW u \in Callers, NEW v \in Callers, Holds(u)', Holds(v)', tag'[u] = tag'[v]
      PROVE  u = v
  BY <1>2 DEF SlotOwners, SameOwner
<1>3. ASSUME NEW k \in Tags, queue'[k].in_use
      PROVE  \E u \in Callers : Holds(u)' /\ tag'[u] = k
  BY <1>3 DEF SlotOwners, SameOwner, SameSlot
<1> QED BY <1>1, <1>2, <1>3 DEF SlotOwners

\* A step by which t takes a slot that is not in use keeps the ownership.
LEMMA OwnerAdded ==
  ASSUME SlotOwners, NEW t \in Callers, NEW k \in Tags,
         ~queue[k].in_use,
         Holds(t)', tag'[t] = k, req'[t] = req[t],
         queue'[k].in_use, queue'[k].sent_type = req[t].kind,
         req[t].kind = "read" => queue'[k].read_buf = t,
         \A u \in Callers \ {t} : SameOwner(u),
         \A j \in Tags \ {k} : SameSlot(j),
         ~Holds(t)
  PROVE  SlotOwners'
<1>1. \A u \in Callers : Holds(u) => tag[u] # k /\ tag[u] \in Tags
  BY DEF SlotOwners, OwnedSlot
<1>2. ASSUME NEW u \in Callers PROVE OwnedSlot(u)'
  <2>1. CASE u = t
    BY <2>1 DEF OwnedSlot
  <2>2. CASE u # t
    BY <1>1, <2>2 DEF SlotOwners, OwnedSlot, SameOwner, SameSlot
  <2> QED BY <2>1, <2>2
<1>3. ASSUME NEW u \in Callers, NEW v \in Callers, Holds(u)', Holds(v)', tag'[u] = tag'[v]
      PROVE  u = v
  BY <1>1, <1>3 DEF SlotOwners, SameOwner
<1>4. ASSUME NEW j \in Tags, queue'[j].in_use
      PROVE  \E u \in Callers : Holds(u)' /\ tag'[u] = j
  BY <1>4 DEF SlotOwners, SameOwner, SameSlot
<1> QED BY <1>2, <1>3, <1>4 DEF SlotOwners

\* A step by which t gives back its slot keeps the ownership.
LEMMA OwnerRemoved ==
  ASSUME SlotOwners, NEW t \in Callers,
         Holds(t), ~Holds(t)',
         ~queue'[tag[t]].in_use,
         \A u \in Callers \ {t} : SameOwner(u),
         \A j \in Tags \ {tag[t]} : SameSlot(j)
  PROVE  SlotOwners'
<1>1. \A u \in Callers \ {t} : Holds(u) => tag[u] # tag[t] /\ tag[u] \in Tags
  BY DEF SlotOwners, OwnedSlot
<1>2. ASSUME NEW u \in Callers PROVE OwnedSlot(u)'
  <2>1. CASE u = t
    BY <2>1 DEF OwnedSlot
  <2>2. CASE u # t
    BY <1>1, <2>2 DEF SlotOwners, OwnedSlot, SameOwner, SameSlot
  <2> QED BY <2>1, <2>2
<1>3. ASSUME NEW u \in Callers, NEW v \in Callers, Holds(u)', Holds(v)', tag'[u] = tag'[v]
      PROVE  u = v
  BY <1>3 DEF SlotOwners, SameOwner
<1>4. ASSUME NEW j \in Tags, queue'[j].in_use
      PROVE  \E u \in Callers : Holds(u)' /\ tag'[u] = j
  BY <1>4 DEF SlotOwners, SameOwner, SameSlot
<1> QED BY <1>2, <1>3, <1>4 DEF SlotOwners

\* -1, the tag of a request that was not sent, is no slot.
LEMMA MinusOneNoTag == -1 \notin Tags
BY SlotAssumption DEF Tags

\* Every step keeps the ownership: a slot is taken by SendTooBig and
\* SendTake, given back by WriteFails, WaitTake and PollTake, and left to
\* its owner by every other step.
LEMMA SlotStep ==
  ASSUME TypeOK, SlotOwners, Next
  PROVE  SlotOwners'
<1> USE DEF TypeOK
<1>1. ASSUME NEW t \in Callers,
             Call(t) \/ SendBlock(t) \/ SendClosed(t) \/ WriteMessage(t)
               \/ WriteData(t) \/ WaitBadTag(t) \/ WaitBlock(t)
      PROVE  SlotOwners'
  <2>1. UNCHANGED queue
    BY <1>1 DEF Call, SendBlock, SendClosed, WriteMessage, WriteData,
                WaitBadTag, WaitBlock, structVars
  <2>2. \A u \in Callers \ {t} : SameOwner(u)
    BY <1>1 DEF Call, SendBlock, SendClosed, WriteMessage, WriteData,
                WaitBadTag, WaitBlock, Return, SameOwner, Holds, CallerType
  <2>3. SameOwner(t)
    <3>1. Holds(t) => tag[t] \in Tags /\ tag[t] # -1 /\ queue[tag[t]].in_use
      BY SlotAssumption DEF SlotOwners, OwnedSlot, Tags
    <3>2. CASE Call(t) \/ SendBlock(t)
      BY <3>2 DEF Call, SendBlock, SameOwner, Holds, CallerType
    <3>3. CASE SendClosed(t)
      BY <3>3 DEF SendClosed, SameOwner, Holds, CallerType
    <3>4. CASE WriteMessage(t) \/ WriteData(t)
      BY <3>1, <3>4 DEF WriteMessage, WriteData, SameOwner, Holds, CallerType
    <3>5. CASE WaitBadTag(t)
      BY <3>1, <3>5 DEF WaitBadTag, BadTag, Return, SameOwner, Holds, CallerType
    <3>6. CASE WaitBlock(t)
      <4>1. Holds(t)
        <5>1. CASE pc[t] = "wait"
          BY <5>1 DEF Holds
        <5>2. CASE pc[t] = "tagged"
          BY <3>6, <5>2, SlotAssumption DEF WaitBlock, BadTag, Holds, Tags
        <5> QED BY <3>6, <5>1, <5>2 DEF WaitBlock
      <4> QED BY <3>6, <4>1 DEF WaitBlock, SameOwner, Holds, CallerType
    <3> QED BY <1>1, <3>2, <3>3, <3>4, <3>5, <3>6
  <2> QED BY <2>1, <2>2, <2>3, OwnersKept DEF SameSlot
<1>2. ASSUME NEW t \in Callers, SendTooBig(t) \/ SendTake(t)
      PROVE  SlotOwners'
  <2> DEFINE k == FirstFree
  <2>1. k \in Tags /\ ~queue[k].in_use
    BY <1>2, FirstFreeIsFree DEF SendTooBig, SendTake
  <2>2. ~Holds(t) /\ \A u \in Callers \ {t} : SameOwner(u)
    BY <1>2 DEF SendTooBig, SendTake, SameOwner, Holds, CallerType
  <2>3. Holds(t)' /\ tag'[t] = k /\ req'[t] = req[t]
    <3>1. tag' = [tag EXCEPT ![t] = k] /\ req' = req
      BY <1>2 DEF SendTooBig, SendTake
    <3>2. tag'[t] = k /\ k # -1
      BY <2>1, <3>1, MinusOneNoTag DEF CallerType
    <3>3. pc'[t] \in {"tagged", "write"}
      BY <1>2 DEF SendTooBig, SendTake, CallerType
    <3> QED BY <3>1, <3>2, <3>3 DEF Holds
  <2>4. /\ queue'[k].in_use /\ queue'[k].sent_type = req[t].kind
        /\ req[t].kind = "read" => queue'[k].read_buf = t
    <3>1. /\ TakeSlot(k, t).in_use /\ TakeSlot(k, t).sent_type = req[t].kind
          /\ req[t].kind = "read" => TakeSlot(k, t).read_buf = t
          /\ DOMAIN TakeSlot(k, t) = {"in_use", "sent_type", "reply", "read_buf"}
      BY <2>1 DEF TakeSlot, StructType, Slots
    <3>2. \/ queue'[k] = TakeSlot(k, t)
          \/ queue'[k] = [TakeSlot(k, t) EXCEPT !.reply = ErrorReply("too big", req[t])]
      BY <1>2, <2>1 DEF SendTooBig, SendTake, StructType
    <3> QED BY <3>1, <3>2
  <2>5. \A j \in Tags \ {k} : SameSlot(j)
    BY <1>2 DEF SendTooBig, SendTake, SameSlot, StructType
  <2> HIDE DEF k
  <2> QED BY <2>1, <2>2, <2>3, <2>4, <2>5, OwnerAdded
<1>3. ASSUME NEW t \in Callers, WriteFails(t) \/ WaitTake(t) \/ PollTake(t)
      PROVE  SlotOwners'
  <2>1. Holds(t)
    <3>1. CASE pc[t] \in {"write", "data", "wait"}
      BY <3>1 DEF Holds
    <3>2. CASE pc[t] = "tagged"
      BY <1>3, <3>2, MinusOneNoTag DEF WriteFails, WaitTake, PollTake, BadTag, Holds, CallerType
    <3> QED BY <1>3, <3>1, <3>2 DEF WriteFails, WaitTake, PollTake
  <2>2. tag[t] \in Tags
    BY <2>1 DEF SlotOwners, OwnedSlot
  <2>3. queue' = [queue EXCEPT ![tag[t]] = EmptySlot]
    BY <1>3 DEF WriteFails, WaitTake, PollTake
  <2>4. ~queue'[tag[t]].in_use /\ \A j \in Tags \ {tag[t]} : SameSlot(j)
    BY <2>2, <2>3 DEF EmptySlot, SameSlot, StructType
  <2>5. ~Holds(t)' /\ \A u \in Callers \ {t} : SameOwner(u)
    BY <1>3 DEF WriteFails, WaitTake, PollTake, Return, SameOwner, Holds, CallerType
  <2> QED BY <2>1, <2>4, <2>5, OwnerRemoved
<1>4. CASE PutReply
  <2>1. \A u \in Callers : SameOwner(u)
    BY <1>4 DEF PutReply, callerVars, SameOwner, Holds
  <2>2. PICK r : queue' = [queue EXCEPT ![q].reply = r]
    BY <1>4 DEF PutReply
  <2>3. \A k \in Tags : SameSlot(k)
    BY <2>2 DEF SameSlot, StructType, Slots
  <2> QED BY <2>1, <2>3, OwnersKept
<1>5. CASE UNCHANGED <<queue, callerVars>>
  <2>1. \A u \in Callers : SameOwner(u)
    BY <1>5 DEF callerVars, SameOwner, Holds
  <2>2. \A k \in Tags : SameSlot(k)
    BY <1>5 DEF SameSlot
  <2> QED BY <2>1, <2>2, OwnersKept
<1> QED BY <1>1, <1>2, <1>3, <1>4, <1>5 DEF Next, SendStep, WaitStep, RecvStep,
      RecvIdle, RecvStart, RecvClosed, RecvHeader, RecvCheck, RecvBody,
      RecvStore, RecvAbort, RecvArg, RecvData, RecvStored, RecvGoto, RecvExit,
      CloseBegin, CloseStep, CloseBlock, CloseFree, UseAfterFree, ServerStep,
      ServerRecv, ServerReply, ServerWrite, ServerFault, Disconnect, Terminated,
      structVars, vars

\* At first no slot is in use.
LEMMA SlotInit == Init => SlotOwners
BY DEF Init, SlotOwners, OwnedSlot, Holds, EmptySlot

\* Ownership depends on nothing but the variables.
LEMMA SlotStutter ==
  ASSUME SlotOwners, UNCHANGED vars
  PROVE  SlotOwners'
BY DEF vars, structVars, callerVars, SlotOwners, OwnedSlot, Holds

\* The types and the ownership of slots are inductive only together: that a
\* tag given to a caller is one of the queue's is what makes clearing the
\* slot of a caller well typed.
Inv == TypeOK /\ SlotOwners

\* The inductive invariant holds of every state.
LEMMA InvHolds == Spec => []Inv
<1>1. Init => Inv
  BY TypeInit, SlotInit DEF Inv
<1>2. Inv /\ [Next]_vars => Inv'
  BY TypeStep, SlotStep, SlotStutter DEF Inv
<1> QED BY <1>1, <1>2, PTL DEF Spec

\* Every state of the client has the types declared for it, for any number
\* of callers, slots, requests and faults: tags stay inside the queue
\* (9p.c:39-41) and the negotiated sizes are the values version9p sets.
THEOREM TypeCorrect == Spec => []TypeOK
<1>1. Inv => TypeOK
  BY DEF Inv
<1> QED BY <1>1, InvHolds, PTL

\* A slot in use has exactly one owner and describes its request, for any
\* number of callers and slots and whatever the server sends
\* (send_with_buffer, wait9p, poll9p: 9p.c:505-611).
THEOREM SlotOwnership == Spec => []SlotOwners
<1>1. Inv => SlotOwners
  BY DEF Inv
<1> QED BY <1>1, InvHolds, PTL

-----------------------------------------------------------------------------
(* close9p.  The receiver thread, once done, stays so; once the client is  *)
(* freed no slot is taken any more, since a thread that would take one     *)
(* cannot lock the mutex, and no thread is inside write_full, since it     *)
(* would own a slot.                                                       *)

CloseInv ==
  /\ recv_done => rpc = "exited"
  /\ cpc = "freed" => recv_done /\ \A k \in Tags : ~queue[k].in_use

\* Only recv_thread sets recv_done, as it exits, and it exits once
\* (9p.c:218-222).
LEMMA ReceiverDone ==
  ASSUME CloseInv, Next
  PROVE  (recv_done => recv_done') /\ (recv_done' => rpc' = "exited")
<1>1. CASE RecvStep
  <2>1. rpc # "exited"
    BY <1>1 DEF RecvStep, RecvIdle, RecvStart, RecvClosed, RecvHeader,
         RecvCheck, RecvBody, RecvStore, RecvAbort, RecvArg, RecvData,
         RecvStored
  <2>2. RecvExit \/ UNCHANGED recv_done
    BY <1>1 DEF RecvStep, RecvIdle, RecvStart, RecvClosed, RecvHeader,
         RecvCheck, RecvBody, RecvStore, PutReply, RecvAbort, RecvArg,
         RecvData, RecvStored, RecvGoto, structVars
  <2> QED BY <2>1, <2>2 DEF CloseInv, RecvExit
<1>2. CASE ~RecvStep
  <2>1. UNCHANGED <<recv_done, rpc>>
    BY <1>2 DEF Next, SendStep, WaitStep, CloseStep, ServerStep, Call,
         SendBlock, SendClosed, SendTooBig, SendTake, WriteMessage, WriteData,
         WriteFails, WaitBadTag, WaitBlock, WaitTake, PollTake, CloseBegin,
         CloseBlock, CloseFree, UseAfterFree, ServerRecv, ServerReply,
         ServerFault, ServerWrite, Disconnect, Terminated, structVars,
         recvVars, vars
  <2> QED BY <2>1 DEF CloseInv
<1> QED BY <1>1, <1>2

\* A freed client is not touched.
LEMMA FreedQueueKept ==
  ASSUME SlotOwners, CloseInv, Next, cpc = "freed"
  PROVE  UNCHANGED queue
<1>1. rpc = "exited" /\ \A k \in Tags : ~queue[k].in_use
  BY DEF CloseInv
<1>2. \A t \in Callers : pc[t] \notin {"write", "data"}
  BY <1>1 DEF SlotOwners, OwnedSlot, Holds
<1>3. CASE RecvStep
  BY <1>1, <1>3 DEF RecvStep, RecvIdle, RecvStart, RecvClosed, RecvHeader,
       RecvCheck, RecvBody, RecvStore, RecvAbort, RecvArg, RecvData,
       RecvStored
<1>4. CASE ~RecvStep
  BY <1>2, <1>4 DEF Next, SendStep, WaitStep, CloseStep, ServerStep, Call,
       SendBlock, SendClosed, SendTooBig, SendTake, WriteMessage, WriteData,
       WriteFails, WaitBadTag, WaitBlock, WaitTake, PollTake, CloseBegin,
       CloseBlock, CloseFree, UseAfterFree, ServerRecv, ServerReply,
       ServerFault, ServerWrite, Disconnect, Terminated, Locks, structVars,
       vars
<1> QED BY <1>3, <1>4

\* Only CloseFree frees the client.
LEMMA FreeingStep ==
  ASSUME Next, cpc # "freed", cpc' = "freed"
  PROVE  CloseFree
BY DEF Next, SendStep, WaitStep, CloseStep, ServerStep, Call,
       SendBlock, SendClosed, SendTooBig, SendTake, WriteMessage, WriteData,
       WriteFails, WaitBadTag, WaitBlock, WaitTake, PollTake, CloseBegin,
       CloseBlock, UseAfterFree, ServerRecv, ServerReply,
       ServerFault, ServerWrite, Disconnect, Terminated, closeVars, vars,
       RecvStep, RecvIdle, RecvStart, RecvClosed, RecvHeader, RecvCheck,
       RecvBody, RecvStore, PutReply, RecvAbort, RecvArg, RecvData,
       RecvStored, RecvExit, RecvGoto

\* Every step keeps the invariant of close9p.
LEMMA CloseStepKeeps ==
  ASSUME SlotOwners, CloseInv, [Next]_vars
  PROVE  CloseInv'
<1>1. CASE UNCHANGED vars
  BY <1>1 DEF CloseInv, vars, structVars, recvVars, closeVars
<1>2. CASE Next
  <2>1. (recv_done => recv_done') /\ (recv_done' => rpc' = "exited")
    BY <1>2, ReceiverDone
  <2>2. ASSUME cpc' = "freed"
        PROVE  recv_done' /\ \A k \in Tags : ~queue'[k].in_use
    <3>1. CASE cpc = "freed"
      BY <1>2, <2>1, <3>1, FreedQueueKept DEF CloseInv
    <3>2. CASE cpc # "freed"
      <4>1. CloseFree
        BY <1>2, <2>2, <3>2, FreeingStep
      <4>2. recv_done /\ \A k \in Tags : ~queue[k].in_use
        BY <4>1 DEF CloseFree, CloseDone, FreeTags
      <4> QED BY <2>1, <4>1, <4>2 DEF CloseFree, structVars
    <3> QED BY <3>1, <3>2
  <2> QED BY <2>1, <2>2 DEF CloseInv
<1> QED BY <1>1, <1>2

\* close9p frees the client only after recv_thread is done and every thread
\* that holds a tag has taken its reply (9p.c:105-111), for any number of
\* callers and slots.
THEOREM FreedAfterUse == Spec => []FreedAfterOwners
<1>1. Init => CloseInv
  BY DEF Init, CloseInv
<1>2. SlotOwners /\ CloseInv /\ [Next]_vars => CloseInv'
  BY CloseStepKeeps
<1>3. SlotOwners /\ CloseInv => FreedAfterOwners
  BY DEF SlotOwners, OwnedSlot, CloseInv, FreedAfterOwners
<1> QED BY <1>1, <1>2, <1>3, SlotOwnership, PTL DEF Spec
-----------------------------------------------------------------------------
(***************************************************************************)
(* With a server that answers each request at most once: a reply goes to   *)
(* the thread whose request it answers, a read fills the buffer of the     *)
(* thread that waits for it, and the client implements Calls9p.            *)
(***************************************************************************)

(* What is owed to a request.  As long as a request, or the answer to it,  *)
(* is on its way with tag k, whoever owns slot k has sent all of that      *)
(* request and has no reply; and while the client is open, someone does    *)
(* own it.                                                                 *)

Awaits(t, k) == pc[t] \in {"tagged", "wait"} /\ tag[t] = k

Owned(k) == \E t \in Callers : Holds(t) /\ tag[t] = k
Owed(k, r) ==
  /\ \A t \in Callers : Holds(t) /\ tag[t] = k => Awaits(t, k) /\ req[t] = r
  /\ Owned(k) => queue[k].reply = NONE
  /\ ~closed => \E t \in Callers : Awaits(t, k)

\* A sender writes with the mutex held, to a client that is open.
WriterInv == \A t \in Callers : pc[t] \in {"write", "data"} => mtx = t /\ ~closed

\* recv_thread stores the reply of a message of which it has read every part.
Stores ==
  /\ PutReply /\ rmsg # NONE /\ rpc \in {"store", "stored"}
  /\ rpc = "store" => rmsg.type # "read"

LEMMA StoresTag ==
  ASSUME TypeOK, Stores
  PROVE  q \in Tags /\ q = rmsg.tag /\ rmsg.req \in Requests
BY DEF TypeOK, RecvType, Messages, Stores, q

LEMMA AwaitsHolds ==
  ASSUME TypeOK, NEW k \in Tags, NEW t \in Callers, Awaits(t, k)
  PROVE  Holds(t) /\ tag[t] = k
BY MinusOneNoTag DEF Awaits, Holds

\* The slot of a request that is owed an answer has one owner, who waits.
LEMMA OwedOwner ==
  ASSUME TypeOK, SlotOwners, NEW k \in Tags, NEW r, Owed(k, r), ~closed
  PROVE  /\ queue[k].in_use /\ queue[k].reply = NONE
         /\ \A t \in Callers : Holds(t) /\ tag[t] = k => Awaits(t, k) /\ req[t] = r
<1>1. PICK u \in Callers : Awaits(u, k) BY DEF Owed
<1>2. Holds(u) /\ tag[u] = k BY <1>1, AwaitsHolds
<1>3. queue[k].in_use BY <1>2 DEF SlotOwners, OwnedSlot
<1> QED BY <1>2, <1>3 DEF Owed, Owned

\* A step gives slot k to nobody else, puts no reply into it while it is owned, and
\* while the client is open takes it from nobody; so it keeps what is owed.
OwnerStays(k) ==
  /\ \A u \in Callers :
       Holds(u)' /\ tag'[u] = k => /\ Holds(u) /\ tag[u] = k /\ req'[u] = req[u]
                                   /\ Awaits(u, k) => Awaits(u, k)'
                                   /\ queue'[k].reply = queue[k].reply
  /\ ~closed' => ~closed /\ \A u \in Callers : Awaits(u, k) => Awaits(u, k)'

LEMMA OwedKept ==
  ASSUME NEW k \in Tags, NEW r, Owed(k, r), OwnerStays(k)
  PROVE  Owed(k, r)'
<1>1. ASSUME NEW u \in Callers, Holds(u)', tag'[u] = k
      PROVE  Awaits(u, k)' /\ req'[u] = r /\ queue'[k].reply = NONE
  BY <1>1 DEF Owed, OwnerStays, Owned
<1>2. ASSUME ~closed' PROVE \E u \in Callers : Awaits(u, k)'
  BY <1>2 DEF Owed, OwnerStays
<1> QED BY <1>1, <1>2 DEF Owed, Owned

\* The steps of the callers that change a caller or the queue, the one of
\* recv_thread that does, and all others.
LEMMA StepKinds ==
  ASSUME Next
  PROVE  \/ \E t \in Callers : \/ Call(t) \/ SendBlock(t) \/ SendClosed(t)
                               \/ WaitBadTag(t) \/ WaitBlock(t)
         \/ \E t \in Callers : SendTooBig(t) \/ SendTake(t)
         \/ \E t \in Callers : WriteMessage(t) \/ WriteData(t)
         \/ \E t \in Callers : WriteFails(t) \/ WaitTake(t) \/ PollTake(t)
         \/ Stores
         \/ UNCHANGED <<queue, callerVars>> /\ (closed => closed')
<1>1. ASSUME NEW t \in Callers, UseAfterFree(t)
      PROVE  UNCHANGED <<queue, callerVars>> /\ (closed => closed')
  BY <1>1 DEF UseAfterFree, structVars
<1>2. CASE RecvStep
  <2>1. CASE RecvIdle BY <2>1 DEF RecvIdle
  <2>2. CASE RecvExit BY <2>2 DEF RecvExit
  <2>3. CASE \E l \in {"header", "body", "arg"} : RecvGoto(l)
    BY <2>3 DEF RecvGoto, structVars
  <2>4. CASE RecvHeader \/ RecvBody \/ RecvAbort \/ RecvArg \/ RecvData
    BY <2>4 DEF RecvHeader, RecvBody, RecvAbort, RecvArg, RecvData, structVars
  <2>5. CASE RecvStore
    BY <2>2, <2>3, <2>5 DEF RecvStore, Stores
  <2>6. CASE RecvStored
    BY <2>2, <2>6 DEF RecvStored, Stores
  <2> QED BY <1>2, <2>1, <2>2, <2>3, <2>4, <2>5, <2>6 DEF RecvStep, RecvStart,
        RecvClosed, RecvCheck
<1>3. CASE CloseBegin \/ CloseStep
  BY <1>3 DEF CloseBegin, CloseStep, CloseBlock, CloseFree, structVars
<1>4. CASE ServerStep \/ ServerFault \/ Disconnect \/ Terminated
  BY <1>4 DEF ServerStep, ServerRecv, ServerReply, ServerWrite, ServerFault,
     Disconnect, Terminated, vars, structVars
<1> QED BY <1>1, <1>2, <1>3, <1>4, Zenon DEF Next, SendStep, WaitStep

LEMMA OwnerStep ==
  ASSUME TypeOK, SlotOwners, Next, NEW k \in Tags, NEW r, Owed(k, r),
         Stores /\ Owned(k) => k # q
  PROVE  OwnerStays(k)
<1> USE DEF TypeOK
<1>1. ASSUME NEW t \in Callers,
             Call(t) \/ SendBlock(t) \/ SendClosed(t) \/ WaitBadTag(t) \/ WaitBlock(t)
      PROVE  OwnerStays(k)
  <2>1. UNCHANGED <<queue, closed>>
    BY <1>1 DEF Call, SendBlock, SendClosed, WaitBadTag, WaitBlock, structVars
  <2>2. ASSUME NEW u \in Callers \ {t}
        PROVE  /\ SameOwner(u) /\ pc'[u] = pc[u] /\ tag'[u] = tag[u]
               /\ req'[u] = req[u]
    BY <1>1 DEF Call, SendBlock, SendClosed, WaitBadTag, WaitBlock, Return,
                SameOwner, Holds, CallerType
  <2>3. /\ Holds(t)' => Holds(t) /\ tag'[t] = tag[t] /\ req'[t] = req[t]
        /\ Awaits(t, k) => Awaits(t, k)'
    <3>1. CASE Call(t) \/ SendBlock(t)
      BY <3>1 DEF Call, SendBlock, Holds, Awaits, CallerType
    <3>2. CASE SendClosed(t)
      BY <3>2 DEF SendClosed, Holds, Awaits, CallerType
    <3>3. CASE WaitBadTag(t)
      <4>1. ~Holds(t)
        BY <3>3 DEF WaitBadTag, BadTag, Holds, SlotOwners, OwnedSlot
      <4>2. ~Awaits(t, k) BY <4>1, AwaitsHolds
      <4>3. ~Holds(t)' BY <3>3 DEF WaitBadTag, Return, Holds, CallerType
      <4> QED BY <4>2, <4>3
    <3>4. CASE WaitBlock(t)
      <4>1. pc'[t] = "wait" /\ tag' = tag /\ req' = req /\ pc[t] \in {"tagged", "wait"}
        BY <3>4 DEF WaitBlock, CallerType
      <4>2. Holds(t)
        BY <3>4, MinusOneNoTag DEF WaitBlock, BadTag, Holds, CallerType
      <4> QED BY <4>1, <4>2 DEF Awaits
    <3> QED BY <1>1, <3>1, <3>2, <3>3, <3>4
  <2>4. \A u \in Callers : Holds(u)' /\ tag'[u] = k
                              => Holds(u) /\ tag[u] = k /\ req'[u] = req[u]
    BY <2>2, <2>3 DEF SameOwner
  <2>5. \A u \in Callers : Awaits(u, k) => Awaits(u, k)'
    BY <2>2, <2>3 DEF Awaits
  <2> QED BY <2>1, <2>4, <2>5 DEF OwnerStays
<1>2. ASSUME NEW t \in Callers, SendTooBig(t) \/ SendTake(t)
      PROVE  OwnerStays(k)
  <2>1. ~closed /\ closed' = closed BY <1>2 DEF SendTooBig, SendTake
  <2>2. FirstFree \in Tags /\ ~queue[FirstFree].in_use
    BY <1>2, FirstFreeIsFree DEF SendTooBig, SendTake
  <2>3. k # FirstFree BY <2>1, <2>2, OwedOwner
  <2>4. queue'[k] = queue[k]
    BY <1>2, <2>3 DEF SendTooBig, SendTake, StructType
  <2>5. tag' = [tag EXCEPT ![t] = FirstFree] /\ req' = req /\ pc[t] \in {"send", "slot wait"}
    BY <1>2 DEF SendTooBig, SendTake
  <2>6. \A u \in Callers \ {t} : pc'[u] = pc[u]
    BY <1>2 DEF SendTooBig, SendTake, CallerType
  <2>7. \A u \in Callers \ {t} : tag'[u] = tag[u]
    BY <2>5 DEF CallerType
  <2>8. tag'[t] = FirstFree BY <2>5 DEF CallerType
  <2>9. \A u \in Callers : Holds(u)' /\ tag'[u] = k
                              => Holds(u) /\ tag[u] = k /\ req'[u] = req[u]
    BY <2>3, <2>5, <2>6, <2>7, <2>8 DEF Holds
  <2>10. \A u \in Callers : Awaits(u, k) => Awaits(u, k)'
    BY <2>5, <2>6, <2>7 DEF Awaits
  <2> QED BY <2>1, <2>4, <2>9, <2>10 DEF OwnerStays
<1>3. ASSUME NEW t \in Callers, WriteMessage(t) \/ WriteData(t)
      PROVE  OwnerStays(k)
  <2>1. UNCHANGED <<queue, closed, tag, req>> /\ pc[t] \in {"write", "data"}
    BY <1>3 DEF WriteMessage, WriteData
  <2>2. \A u \in Callers \ {t} : pc'[u] = pc[u]
    BY <1>3 DEF WriteMessage, WriteData, CallerType
  <2>3. \A u \in Callers : Holds(u)' /\ tag'[u] = k
                              => Holds(u) /\ tag[u] = k /\ req'[u] = req[u]
    BY <2>1, <2>2 DEF Holds
  <2>4. \A u \in Callers : Awaits(u, k) => Awaits(u, k)'
    BY <2>1, <2>2 DEF Awaits
  <2> QED BY <2>1, <2>3, <2>4 DEF OwnerStays
<1>4. ASSUME NEW t \in Callers, WriteFails(t) \/ WaitTake(t) \/ PollTake(t)
      PROVE  OwnerStays(k)
  <2>1. /\ closed' = closed /\ req' = req
        /\ queue' = [queue EXCEPT ![tag[t]] = EmptySlot]
        /\ tag' = [tag EXCEPT ![t] = -1]
    BY <1>4 DEF WriteFails, WaitTake, PollTake, Return
  <2>2. \A u \in Callers \ {t} : pc'[u] = pc[u]
    BY <1>4 DEF WriteFails, WaitTake, PollTake, Return, CallerType
  <2>3. \A u \in Callers \ {t} : tag'[u] = tag[u]
    BY <2>1 DEF CallerType
  <2>4. tag'[t] # k BY <2>1, MinusOneNoTag DEF CallerType
  <2>5. tag[t] \in Tags /\ Holds(t)
    <3>1. pc[t] \in {"write", "data", "wait"} \/ (pc[t] = "tagged" /\ ~BadTag(t))
      BY <1>4 DEF WriteFails, WaitTake, PollTake
    <3>2. Holds(t) BY <3>1, MinusOneNoTag DEF Holds, BadTag
    <3> QED BY <3>2 DEF SlotOwners, OwnedSlot
  <2>6. ASSUME NEW u \in Callers, Holds(u)', tag'[u] = k
        PROVE  /\ Holds(u) /\ tag[u] = k /\ req'[u] = req[u]
               /\ Awaits(u, k) => Awaits(u, k)'
               /\ queue'[k].reply = queue[k].reply
    <3>1. u # t BY <2>4, <2>6
    <3>2. Holds(u) /\ tag[u] = k /\ req'[u] = req[u]
      BY <2>1, <2>2, <2>3, <2>6, <3>1 DEF Holds
    <3>3. tag[t] # k BY <2>5, <3>1, <3>2 DEF SlotOwners
    <3>4. queue'[k] = queue[k] BY <2>1, <3>3 DEF StructType
    <3> QED BY <2>2, <2>3, <3>1, <3>2, <3>4 DEF Awaits
  <2>7. ASSUME ~closed PROVE tag[t] # k
    <3>1. CASE WriteFails(t)
      <4>1. pc[t] \in {"write", "data"} BY <3>1 DEF WriteFails
      <4>2. ~Awaits(t, k) BY <4>1 DEF Awaits
      <4> QED BY <2>5, <2>7, <4>2, OwedOwner
    <3>2. CASE WaitTake(t) \/ PollTake(t)
      <4>1. queue[tag[t]].reply # NONE
        BY <2>7, <3>2 DEF WaitTake, PollTake, WaitReady
      <4> QED BY <2>7, <4>1, OwedOwner
    <3> QED BY <1>4, <3>1, <3>2
  <2>8. ASSUME ~closed PROVE \A u \in Callers : Awaits(u, k) => Awaits(u, k)'
    BY <2>2, <2>3, <2>7, <2>8 DEF Awaits
  <2> QED BY <2>1, <2>6, <2>8 DEF OwnerStays
<1>5. ASSUME UNCHANGED callerVars, closed => closed', Owned(k) => queue'[k] = queue[k]
      PROVE  OwnerStays(k)
  BY <1>5 DEF OwnerStays, callerVars, Holds, Awaits, Owned
<1>6. CASE Stores
  <2>1. Owned(k) => queue'[k] = queue[k]
    BY <1>6, StoresTag DEF Stores, PutReply, StructType
  <2>2. UNCHANGED callerVars /\ closed' = closed BY <1>6 DEF Stores, PutReply
  <2> QED BY <1>5, <2>1, <2>2
<1>7. CASE UNCHANGED <<queue, callerVars>> /\ (closed => closed')
  BY <1>5, <1>7
<1> QED BY <1>1, <1>2, <1>3, <1>4, <1>6, <1>7, StepKinds

LEMMA OwedStep ==
  ASSUME TypeOK, SlotOwners, Next, NEW k \in Tags, NEW r, Owed(k, r),
         Stores /\ Owned(k) => k # q
  PROVE  Owed(k, r)'
BY OwnerStep, OwedKept

-----------------------------------------------------------------------------
(* Replies.  A slot that is taken has no reply, because one that nobody    *)
(* owns cannot get one while the client is open; the reply that is stored  *)
(* is for the request of the owner.                                        *)

ReplyInv(t) == Holds(t) /\ queue[tag[t]].reply # NONE => queue[tag[t]].reply.req = req[t]
GotInv(t)   == pc[t] = "idle" /\ got[t] # NONE => got[t].req = req[t]
LateInv(k)  == queue[k].reply # NONE /\ ~closed => queue[k].in_use

LEMMA RepliesParts ==
  RepliesMatch <=> /\ \A t \in Callers : ReplyInv(t) /\ GotInv(t)
                   /\ \A k \in Tags : LateInv(k)
BY DEF RepliesMatch, ReplyInv, GotInv, LateInv

LEMMA ErrorReplyFields ==
  ASSUME NEW what, NEW r
  PROVE  ErrorReply(what, r).req = r
BY DEF ErrorReply

LEMMA RepliesStep ==
  ASSUME TypeOK, SlotOwners, RepliesMatch, Next, Stores => Owed(q, rmsg.req)
  PROVE  RepliesMatch'
<1> USE DEF TypeOK
<1>a. /\ \A t \in Callers : ReplyInv(t) /\ GotInv(t)
      /\ \A k \in Tags : LateInv(k)
  BY RepliesParts
<1>b. SUFFICES /\ \A u \in Callers : ReplyInv(u)' /\ GotInv(u)'
               /\ \A k \in Tags : LateInv(k)'
  BY DEF RepliesMatch, ReplyInv, GotInv, LateInv
<1> DEFINE Goal == /\ \A u \in Callers : ReplyInv(u)' /\ GotInv(u)'
                   /\ \A k \in Tags : LateInv(k)'
           Same(u) == pc'[u] = pc[u] /\ tag'[u] = tag[u] /\ req'[u] = req[u] /\ got'[u] = got[u]
<1>1. ASSUME NEW t \in Callers,
             Call(t) \/ SendBlock(t) \/ SendClosed(t) \/ WaitBadTag(t) \/ WaitBlock(t)
      PROVE  Goal
  <2>1. UNCHANGED <<queue, closed>>
    BY <1>1 DEF Call, SendBlock, SendClosed, WaitBadTag, WaitBlock, structVars
  <2>2. ASSUME NEW u \in Callers \ {t} PROVE Same(u)
    BY <1>1 DEF Call, SendBlock, SendClosed, WaitBadTag, WaitBlock, Return, CallerType
  <2>3. \A u \in Callers \ {t} : ReplyInv(u)' /\ GotInv(u)'
    BY <1>a, <2>1, <2>2 DEF ReplyInv, GotInv, Holds
  <2>4. ReplyInv(t)' /\ GotInv(t)'
    <3>1. CASE Call(t)
      BY <3>1 DEF Call, ReplyInv, GotInv, Holds, CallerType
    <3>2. CASE SendBlock(t)
      BY <3>2 DEF SendBlock, ReplyInv, GotInv, Holds, CallerType
    <3>3. CASE SendClosed(t)
      BY <3>3 DEF SendClosed, ReplyInv, GotInv, Holds, CallerType
    <3>4. CASE WaitBadTag(t)
      BY <3>4, ErrorReplyFields DEF WaitBadTag, Return, ReplyInv, GotInv, Holds, CallerType
    <3>5. CASE WaitBlock(t)
      <4>1. pc'[t] = "wait" /\ tag' = tag /\ req' = req BY <3>5 DEF WaitBlock, CallerType
      <4>2. Holds(t)
        BY <3>5, MinusOneNoTag DEF WaitBlock, BadTag, Holds, CallerType
      <4>3. ReplyInv(t)' BY <1>a, <2>1, <4>1, <4>2 DEF ReplyInv
      <4>4. GotInv(t)' BY <4>1 DEF GotInv
      <4> QED BY <4>3, <4>4
    <3> QED BY <1>1, <3>1, <3>2, <3>3, <3>4, <3>5
  <2>5. \A k \in Tags : LateInv(k)' BY <1>a, <2>1 DEF LateInv
  <2> QED BY <2>3, <2>4, <2>5
<1>2. ASSUME NEW t \in Callers, SendTooBig(t) \/ SendTake(t)
      PROVE  Goal
  <2>1. ~closed /\ closed' = closed BY <1>2 DEF SendTooBig, SendTake
  <2>2. FirstFree \in Tags /\ ~queue[FirstFree].in_use
    BY <1>2, FirstFreeIsFree DEF SendTooBig, SendTake
  <2>3. queue[FirstFree].reply = NONE BY <1>a, <2>1, <2>2 DEF LateInv
  <2>4. \A k \in Tags \ {FirstFree} : queue'[k] = queue[k]
    BY <1>2, <2>2 DEF SendTooBig, SendTake, StructType
  <2>5. /\ tag' = [tag EXCEPT ![t] = FirstFree] /\ req' = req /\ got' = got
        /\ pc'[t] # "idle"
    BY <1>2 DEF SendTooBig, SendTake, CallerType
  <2>6. \A u \in Callers \ {t} : pc'[u] = pc[u]
    BY <1>2 DEF SendTooBig, SendTake, CallerType
  <2>7. \A u \in Callers \ {t} : tag'[u] = tag[u]
    BY <2>5 DEF CallerType
  <2>8. tag'[t] = FirstFree BY <2>5 DEF CallerType
  <2>9. ASSUME NEW u \in Callers \ {t} PROVE ReplyInv(u)' /\ GotInv(u)'
    <3>1. Holds(u) => tag[u] \in Tags \ {FirstFree}
      BY <2>2 DEF SlotOwners, OwnedSlot
    <3>2. Holds(u)' <=> Holds(u) BY <2>6, <2>7 DEF Holds
    <3> QED BY <1>a, <2>4, <2>5, <2>6, <2>7, <3>1, <3>2 DEF ReplyInv, GotInv
  <2>10. /\ queue'[FirstFree].in_use
         /\ queue'[FirstFree].reply # NONE => queue'[FirstFree].reply.req = req[t]
    <3>1. /\ TakeSlot(FirstFree, t).in_use
          /\ TakeSlot(FirstFree, t).reply = NONE
          /\ DOMAIN TakeSlot(FirstFree, t) = {"in_use", "sent_type", "reply", "read_buf"}
      BY <2>2, <2>3 DEF TakeSlot, StructType, Slots
    <3>2. CASE SendTake(t)
      <4>1. queue'[FirstFree] = TakeSlot(FirstFree, t)
        BY <2>2, <3>2 DEF SendTake, StructType
      <4> QED BY <3>1, <4>1
    <3>3. CASE SendTooBig(t)
      <4>1. queue'[FirstFree] = [TakeSlot(FirstFree, t) EXCEPT
                                   !.reply = ErrorReply("too big", req[t])]
        BY <2>2, <3>3 DEF SendTooBig, StructType
      <4>2. queue'[FirstFree].reply = ErrorReply("too big", req[t])
        BY <3>1, <4>1
      <4>3. queue'[FirstFree].in_use BY <3>1, <4>1
      <4> QED BY <4>2, <4>3, ErrorReplyFields
    <3> QED BY <1>2, <3>2, <3>3
  <2>11. ReplyInv(t)' /\ GotInv(t)'
    BY <2>5, <2>8, <2>10 DEF ReplyInv, GotInv
  <2>12. \A k \in Tags : LateInv(k)' BY <1>a, <2>1, <2>4, <2>10 DEF LateInv
  <2> QED BY <2>9, <2>11, <2>12
<1>3. ASSUME NEW t \in Callers, WriteMessage(t) \/ WriteData(t)
      PROVE  Goal
  <2>1. UNCHANGED <<queue, closed, tag, req, got>> /\ pc[t] \in {"write", "data"}
    BY <1>3 DEF WriteMessage, WriteData
  <2>2. pc'[t] # "idle" /\ \A u \in Callers \ {t} : pc'[u] = pc[u]
    BY <1>3 DEF WriteMessage, WriteData, CallerType
  <2>3. \A u \in Callers : Holds(u)' => Holds(u)
    BY <2>1, <2>2 DEF Holds
  <2>4. \A u \in Callers : ReplyInv(u)' BY <1>a, <2>1, <2>3 DEF ReplyInv
  <2>5. \A u \in Callers : GotInv(u)' BY <1>a, <2>1, <2>2 DEF GotInv
  <2>6. \A k \in Tags : LateInv(k)' BY <1>a, <2>1 DEF LateInv
  <2> QED BY <2>4, <2>5, <2>6
<1>4. ASSUME NEW t \in Callers, WriteFails(t) \/ WaitTake(t) \/ PollTake(t)
      PROVE  Goal
  <2>1. /\ closed' = closed /\ req' = req
        /\ queue' = [queue EXCEPT ![tag[t]] = EmptySlot]
        /\ tag' = [tag EXCEPT ![t] = -1]
    BY <1>4 DEF WriteFails, WaitTake, PollTake, Return
  <2>2. \A u \in Callers \ {t} : pc'[u] = pc[u] /\ got'[u] = got[u]
    BY <1>4 DEF WriteFails, WaitTake, PollTake, Return, CallerType
  <2>3. \A u \in Callers \ {t} : tag'[u] = tag[u]
    BY <2>1 DEF CallerType
  <2>4. Holds(t)
    BY <1>4, MinusOneNoTag DEF WriteFails, WaitTake, PollTake, BadTag, Holds, CallerType
  <2>5. ~Holds(t)'
    BY <1>4 DEF WriteFails, WaitTake, PollTake, Return, Holds, CallerType
  <2>6. ASSUME NEW u \in Callers \ {t} PROVE ReplyInv(u)' /\ GotInv(u)'
    <3>1. Holds(u) => tag[u] # tag[t] BY <2>4 DEF SlotOwners
    <3>2. Holds(u)' <=> Holds(u) BY <2>2, <2>3 DEF Holds
    <3>3. Holds(u) => queue'[tag[u]] = queue[tag[u]]
      BY <2>1, <3>1 DEF SlotOwners, OwnedSlot, StructType
    <3> QED BY <1>a, <2>1, <2>2, <2>3, <3>2, <3>3 DEF ReplyInv, GotInv
  <2>7. GotInv(t)'
    <3>1. CASE WriteFails(t)
      BY <3>1 DEF WriteFails, GotInv, CallerType
    <3>2. CASE WaitTake(t) \/ PollTake(t)
      <4>1. \/ got'[t] = queue[tag[t]].reply /\ queue[tag[t]].reply # NONE
            \/ got'[t] = ErrorReply("closed", req[t])
        BY <3>2 DEF WaitTake, PollTake, WaitReady, Return, CallerType
      <4>2. got'[t].req = req[t]
        BY <1>a, <2>4, <4>1, ErrorReplyFields DEF ReplyInv
      <4> QED BY <2>1, <4>2 DEF GotInv
    <3> QED BY <1>4, <3>1, <3>2
  <2>8. ASSUME NEW k \in Tags PROVE LateInv(k)'
    <3>1. queue'[k].reply = NONE \/ queue'[k] = queue[k]
      BY <2>1 DEF EmptySlot, StructType
    <3> QED BY <1>a, <2>1, <3>1 DEF LateInv
  <2> QED BY <2>5, <2>6, <2>7, <2>8 DEF ReplyInv
<1>5. CASE Stores
  <2>1. q \in Tags /\ UNCHANGED callerVars /\ closed' = closed
    BY <1>5, StoresTag DEF Stores, PutReply
  <2>2. PICK what : queue' = [queue EXCEPT ![q].reply = ErrorReply(what, rmsg.req)]
    BY <1>5 DEF Stores, PutReply
  <2>3. /\ \A k \in Tags \ {q} : queue'[k] = queue[k]
        /\ queue'[q].in_use = queue[q].in_use
        /\ queue'[q].reply = ErrorReply(what, rmsg.req)
    BY <2>1, <2>2 DEF StructType, Slots
  <2>4. queue'[q].reply.req = rmsg.req BY <2>3, ErrorReplyFields
  <2>5. \A u \in Callers : Holds(u)' <=> Holds(u) BY <2>1 DEF callerVars, Holds
  <2>6. ASSUME NEW u \in Callers, Holds(u) PROVE ReplyInv(u)'
    <3>1. tag[u] \in Tags BY <2>6 DEF SlotOwners, OwnedSlot
    <3>2. CASE tag[u] = q
      <4>1. req[u] = rmsg.req BY <1>5, <2>6, <3>2 DEF Owed
      <4>2. queue'[tag'[u]].reply.req = req'[u]
        BY <2>1, <2>4, <3>2, <4>1 DEF callerVars
      <4> QED BY <4>2 DEF ReplyInv
    <3>3. CASE tag[u] # q
      <4>1. queue'[tag[u]] = queue[tag[u]] BY <2>3, <3>1, <3>3
      <4> QED BY <1>a, <2>1, <2>5, <4>1 DEF ReplyInv, callerVars
    <3> QED BY <3>2, <3>3
  <2>7. \A u \in Callers : ReplyInv(u)' BY <2>5, <2>6 DEF ReplyInv
  <2>8. \A u \in Callers : GotInv(u)' BY <1>a, <2>1 DEF GotInv, callerVars
  <2>9. ~closed => queue[q].in_use
    BY <1>5, <2>1, OwedOwner
  <2>10. \A k \in Tags : LateInv(k)' BY <1>a, <2>1, <2>3, <2>9 DEF LateInv
  <2> QED BY <2>7, <2>8, <2>10
<1>6. CASE UNCHANGED <<queue, callerVars>> /\ (closed => closed')
  BY <1>a, <1>6 DEF ReplyInv, GotInv, LateInv, Holds, callerVars
<1> QED BY <1>1, <1>2, <1>3, <1>4, <1>5, <1>6, StepKinds

-----------------------------------------------------------------------------
(* The stream of replies: what recv_thread has still to read, and then     *)
(* what the server has still to write.  A step leaves it as it is, takes   *)
(* its first chunk, appends the chunks of an answer, or cuts its end off.  *)

Stream == s2c \o srv_out
Places == 1 .. Len(Stream)

LEMMA StreamType ==
  ASSUME TypeOK
  PROVE  /\ Stream \in Seq(Messages) /\ Len(Stream) \in Nat
         /\ Len(Stream) = Len(s2c) + Len(srv_out)
         /\ \A i \in Places : Stream[i] \in Messages
<1>1. s2c \in Seq(Messages) /\ srv_out \in Seq(Messages) BY DEF TypeOK, NetType
<1>2. Stream \in Seq(Messages) /\ Len(Stream) = Len(s2c) + Len(srv_out)
  BY <1>1, ConcatProperties DEF Stream
<1>3. Len(Stream) \in Nat BY <1>2, LenProperties
<1>4. \A i \in Places : Stream[i] \in Messages BY <1>2, ElementOfSeq DEF Places
<1> QED BY <1>2, <1>3, <1>4

StreamKept ==
  /\ Len(Stream') = Len(Stream)
  /\ \A i \in Places : Stream'[i] = Stream[i]
StreamRead ==
  /\ s2c # << >> /\ Len(Stream) >= 1 /\ Stream[1] = Head(s2c)
  /\ Len(Stream') = Len(Stream) - 1
  /\ \A i \in 1 .. Len(Stream') : Stream'[i] = Stream[i + 1]
StreamGrows(c) ==
  /\ Len(Stream') = Len(Stream) + Len(c)
  /\ \A i \in Places : Stream'[i] = Stream[i]
  /\ \A i \in 1 .. Len(c) : Stream'[Len(Stream) + i] = c[i]
StreamCut ==
  /\ Len(Stream') \in Nat /\ Len(Stream') <= Len(Stream)
  /\ \A i \in 1 .. Len(Stream') : Stream'[i] = Stream[i]

LEMMA KeptWhen ==
  ASSUME UNCHANGED <<s2c, srv_out>>
  PROVE  StreamKept
BY DEF StreamKept, Stream

LEMMA ReadWhen ==
  ASSUME TypeOK, s2c # << >>, s2c' = Tail(s2c), UNCHANGED srv_out
  PROVE  StreamRead
<1> USE DEF Stream
<1>1. s2c \in Seq(Messages) /\ srv_out \in Seq(Messages) BY DEF TypeOK, NetType
<1>2. /\ Tail(s2c) \in Seq(Messages) /\ Len(Tail(s2c)) = Len(s2c) - 1
      /\ \A i \in 1 .. Len(Tail(s2c)) : Tail(s2c)[i] = s2c[i + 1]
      /\ Head(s2c) = s2c[1] /\ Len(s2c) \in Nat \ {0} /\ Len(srv_out) \in Nat
  BY <1>1, HeadTailProperties, EmptySeq, LenProperties
<1>3. /\ Len(Stream) = Len(s2c) + Len(srv_out)
      /\ \A i \in 1 .. Len(s2c) + Len(srv_out) :
           Stream[i] = IF i <= Len(s2c) THEN s2c[i] ELSE srv_out[i - Len(s2c)]
  BY <1>1, ConcatProperties
<1>4. /\ Len(Stream') = Len(s2c) - 1 + Len(srv_out)
      /\ \A i \in 1 .. Len(s2c) - 1 + Len(srv_out) :
           Stream'[i] = IF i <= Len(s2c) - 1 THEN s2c[i + 1]
                        ELSE srv_out[i - (Len(s2c) - 1)]
  BY <1>1, <1>2, ConcatProperties
<1> HIDE DEF Stream
<1>5. Stream[1] = Head(s2c) /\ Len(Stream) >= 1 BY <1>2, <1>3
<1>6. ASSUME NEW i \in 1 .. Len(Stream') PROVE Stream'[i] = Stream[i + 1]
  BY <1>2, <1>3, <1>4
<1> QED BY <1>2, <1>3, <1>4, <1>5, <1>6 DEF StreamRead

LEMMA WrittenKept ==
  ASSUME TypeOK, srv_out # << >>, s2c' = Append(s2c, Head(srv_out)),
         srv_out' = Tail(srv_out)
  PROVE  StreamKept
<1> USE DEF Stream
<1>1. s2c \in Seq(Messages) /\ srv_out \in Seq(Messages) BY DEF TypeOK, NetType
<1>2. /\ Tail(srv_out) \in Seq(Messages) /\ Len(Tail(srv_out)) = Len(srv_out) - 1
      /\ \A i \in 1 .. Len(Tail(srv_out)) : Tail(srv_out)[i] = srv_out[i + 1]
      /\ Head(srv_out) = srv_out[1] /\ Head(srv_out) \in Messages
      /\ Len(srv_out) \in Nat \ {0} /\ Len(s2c) \in Nat
  BY <1>1, HeadTailProperties, EmptySeq, LenProperties
<1>3. /\ Len(Stream) = Len(s2c) + Len(srv_out)
      /\ \A i \in 1 .. Len(s2c) + Len(srv_out) :
           Stream[i] = IF i <= Len(s2c) THEN s2c[i] ELSE srv_out[i - Len(s2c)]
  BY <1>1, ConcatProperties
<1>4. /\ s2c' \in Seq(Messages) /\ Len(s2c') = Len(s2c) + 1
      /\ \A i \in 1 .. Len(s2c) : s2c'[i] = s2c[i]
      /\ s2c'[Len(s2c) + 1] = srv_out[1]
  BY <1>1, <1>2, AppendProperties
<1>5. /\ Len(Stream') = Len(s2c') + Len(srv_out')
      /\ \A i \in 1 .. Len(s2c') + Len(srv_out') :
           Stream'[i] = IF i <= Len(s2c') THEN s2c'[i] ELSE srv_out'[i - Len(s2c')]
  BY <1>1, <1>2, <1>4, ConcatProperties
<1> HIDE DEF Stream
<1>6. Len(Stream') = Len(Stream) BY <1>2, <1>3, <1>4, <1>5
<1>7. ASSUME NEW i \in Places PROVE Stream'[i] = Stream[i]
  <2>1. i \in 1 .. Len(s2c) + Len(srv_out) BY <1>3 DEF Places
  <2>2. CASE i <= Len(s2c) BY <2>1, <2>2, <1>2, <1>3, <1>4, <1>5
  <2>3. CASE i = Len(s2c) + 1 BY <2>1, <2>3, <1>2, <1>3, <1>4, <1>5
  <2>4. CASE i > Len(s2c) + 1
    <3>1. Stream[i] = srv_out[i - Len(s2c)] BY <2>1, <2>4, <1>2, <1>3
    <3>2. Stream'[i] = srv_out'[i - (Len(s2c) + 1)] BY <2>1, <2>4, <1>2, <1>4, <1>5
    <3>3. i - (Len(s2c) + 1) \in 1 .. Len(Tail(srv_out)) BY <2>1, <2>4, <1>2
    <3>4. srv_out'[i - (Len(s2c) + 1)] = srv_out[i - (Len(s2c) + 1) + 1] BY <3>3, <1>2
    <3>5. i - (Len(s2c) + 1) + 1 = i - Len(s2c) BY <2>1, <1>2
    <3> QED BY <3>1, <3>2, <3>4, <3>5
  <2> QED BY <2>1, <2>2, <2>3, <2>4, <1>2
<1> QED BY <1>6, <1>7 DEF StreamKept

LEMMA GrowsWhen ==
  ASSUME TypeOK, srv_out = << >>, NEW c \in Seq(Messages), srv_out' = c, UNCHANGED s2c
  PROVE  StreamGrows(c)
<1> USE DEF Stream
<1>1. s2c \in Seq(Messages) BY DEF TypeOK, NetType
<1>2. Stream = s2c BY <1>1, ConcatEmptySeq
<1>3. /\ Len(Stream') = Len(s2c) + Len(c) /\ Len(s2c) \in Nat /\ Len(c) \in Nat
      /\ \A i \in 1 .. Len(s2c) + Len(c) :
           Stream'[i] = IF i <= Len(s2c) THEN s2c[i] ELSE c[i - Len(s2c)]
  BY <1>1, ConcatProperties, LenProperties
<1> HIDE DEF Stream
<1>4. ASSUME NEW i \in Places PROVE Stream'[i] = Stream[i]
  BY <1>2, <1>3 DEF Places
<1>5. ASSUME NEW i \in 1 .. Len(c) PROVE Stream'[Len(Stream) + i] = c[i]
  <2>1. Len(s2c) + i \in 1 .. Len(s2c) + Len(c) /\ ~(Len(s2c) + i <= Len(s2c))
    BY <1>3
  <2>2. Len(s2c) + i - Len(s2c) = i BY <1>3
  <2> QED BY <1>2, <1>3, <2>1, <2>2
<1> QED BY <1>2, <1>3, <1>4, <1>5 DEF StreamGrows

LEMMA CutWhen ==
  ASSUME TypeOK, srv_out' = << >>, UNCHANGED s2c
  PROVE  StreamCut
<1> USE DEF Stream
<1>1. s2c \in Seq(Messages) /\ srv_out \in Seq(Messages) BY DEF TypeOK, NetType
<1>2. Stream' = s2c BY <1>1, ConcatEmptySeq
<1>3. /\ Len(Stream) = Len(s2c) + Len(srv_out)
      /\ Len(s2c) \in Nat /\ Len(srv_out) \in Nat
      /\ \A i \in 1 .. Len(s2c) + Len(srv_out) :
           Stream[i] = IF i <= Len(s2c) THEN s2c[i] ELSE srv_out[i - Len(s2c)]
  BY <1>1, ConcatProperties, LenProperties
<1> HIDE DEF Stream
<1> QED BY <1>2, <1>3 DEF StreamCut

-----------------------------------------------------------------------------
(* Framing.  recv_thread takes the next chunk for the part that it expects *)
(* next; it is that part, as each chunk of the stream is what has to       *)
(* follow the one before it, and the first one what has to follow the one  *)
(* that was read last.                                                     *)

Complete(a) == a.part = "data" \/ (a.part = "body" /\ ~HasData(a))
Follows(a, b) ==
  \/ a.part = "header" /\ b = Part(a, "body")
  \/ a.part = "body" /\ HasData(a) /\ b = Part(a, "data")
  \/ Complete(a) /\ b.part = "header"

\* The chunk that was read last, when m is in the locals at l.
LastOf(m, l) ==
  Part(m, IF l \in {"check", "body"} THEN "header"
          ELSE IF l = "stored" /\ HasData(m) THEN "data" ELSE "body")
Within == {"check", "body", "store", "arg", "data", "stored"}

HandInv ==
  /\ rmsg # NONE => rmsg.part = "header" /\ rpc \in Within
  /\ rpc \in {"arg", "data"} => rmsg # NONE /\ rmsg.type = "read"
ChainInv == \A i \in 1 .. Len(Stream) - 1 : Follows(Stream[i], Stream[i + 1])
FrontInv ==
  Len(Stream) >= 1 =>
    /\ rpc \in {"top", "header"} => Stream[1].part = "header"
    /\ rmsg # NONE => Follows(LastOf(rmsg, rpc), Stream[1])
WholeInv ==
  ~eof => /\ Len(Stream) >= 1 => Complete(Stream[Len(Stream)])
          /\ Len(Stream) = 0 /\ rmsg # NONE => Complete(LastOf(rmsg, rpc))
FramesInv == HandInv /\ ChainInv /\ FrontInv /\ WholeInv

LEMMA PartOf ==
  ASSUME NEW m \in Messages, NEW p \in {"header", "body", "data"}
  PROVE  /\ Part(m, p) \in Messages /\ Part(m, p).part = p
         /\ Part(m, p).tag = m.tag /\ Part(m, p).req = m.req
         /\ Part(m, p).type = m.type /\ Part(m, p).count = m.count
         /\ HasData(Part(m, p)) <=> HasData(m)
         /\ \A o \in {"header", "body", "data"} : Part(Part(m, p), o) = Part(m, o)
         /\ m.part = p => Part(m, p) = m
<1>1. /\ Part(m, p) \in Messages /\ Part(m, p).part = p
      /\ Part(m, p).tag = m.tag /\ Part(m, p).req = m.req
      /\ Part(m, p).type = m.type /\ Part(m, p).count = m.count
  BY DEF Part, Messages
<1>2. HasData(Part(m, p)) <=> HasData(m) BY <1>1 DEF HasData
<1>3. \A o \in {"header", "body", "data"} : Part(Part(m, p), o) = Part(m, o)
  BY DEF Part, Messages
<1>4. m.part = p => Part(m, p) = m BY DEF Part, Messages
<1> QED BY <1>1, <1>2, <1>3, <1>4

LEMMA FollowsOf ==
  ASSUME NEW a, NEW b, Follows(a, b)
  PROVE  /\ a.part = "header" => b = Part(a, "body")
         /\ a.part = "body" /\ HasData(a) => b = Part(a, "data")
         /\ Complete(a) => b.part = "header"
BY DEF Follows, Complete

\* The last chunk that was read, at each place of recv_thread.
LEMMA LastOfAt ==
  ASSUME NEW m \in Messages, m.part = "header"
  PROVE  /\ LastOf(m, "check") = m /\ LastOf(m, "body") = m
         /\ \A l \in {"store", "arg", "data"} : LastOf(m, l) = Part(m, "body")
         /\ HasData(m) => LastOf(m, "stored") = Part(m, "data")
         /\ ~HasData(m) => LastOf(m, "stored") = Part(m, "body")
         /\ Complete(LastOf(m, "stored"))
         /\ ~HasData(m) => Complete(Part(m, "body"))
<1>1. Part(m, "header") = m BY PartOf
<1>2. /\ LastOf(m, "check") = m /\ LastOf(m, "body") = m
      /\ \A l \in {"store", "arg", "data"} : LastOf(m, l) = Part(m, "body")
      /\ HasData(m) => LastOf(m, "stored") = Part(m, "data")
      /\ ~HasData(m) => LastOf(m, "stored") = Part(m, "body")
  BY <1>1 DEF LastOf
<1>3. ~HasData(m) => Complete(Part(m, "body"))
  BY PartOf DEF Complete
<1>4. HasData(m) => Complete(Part(m, "data"))
  BY PartOf DEF Complete
<1> QED BY <1>2, <1>3, <1>4

LEMMA ChunksOf ==
  ASSUME NEW m \in Messages, m.part = "header"
  PROVE  /\ Chunks(m) \in Seq(Messages) /\ Len(Chunks(m)) \in {2, 3}
         /\ Chunks(m)[1] = m
         /\ \A i \in 1 .. Len(Chunks(m)) - 1 : Follows(Chunks(m)[i], Chunks(m)[i + 1])
         /\ Complete(Chunks(m)[Len(Chunks(m))])
         /\ \A i \in 1 .. Len(Chunks(m)) :
              /\ Chunks(m)[i].tag = m.tag /\ Chunks(m)[i].req = m.req
              /\ Chunks(m)[i].type = m.type
              /\ Chunks(m)[i].part = "header" => i = 1
<1> DEFINE b == Part(m, "body")
           d == Part(m, "data")
<1>1. /\ b \in Messages /\ b.part = "body" /\ b.tag = m.tag /\ b.req = m.req
      /\ b.type = m.type
      /\ d \in Messages /\ d.part = "data" /\ d.tag = m.tag /\ d.req = m.req
      /\ d.type = m.type /\ Part(b, "data") = d
      /\ HasData(b) <=> HasData(m)
  BY PartOf
<1>2. Follows(m, b) BY DEF Follows
<1>3. CASE HasData(m)
  <2>1. Chunks(m) = <<m, b, d>> BY <1>3 DEF Chunks
  <2>2. Follows(b, d) BY <1>1, <1>3 DEF Follows
  <2>3. Complete(d) BY <1>1 DEF Complete
  <2> HIDE DEF b, d
  <2> DEFINE c == Chunks(m)
  <2>4. c \in Seq(Messages) /\ Len(c) = 3 /\ c[1] = m /\ c[2] = b /\ c[3] = d
    BY <1>1, <2>1
  <2> HIDE DEF c
  <2>5. \A i \in 1 .. Len(c) - 1 : Follows(c[i], c[i + 1])
    <3>1. \A i \in 1 .. Len(c) - 1 : i \in {1, 2} BY <2>4
    <3>2. 1 + 1 = 2 /\ 2 + 1 = 3 OBVIOUS
    <3> QED BY <3>1, <3>2, <2>4, <2>2, <1>2
  <2>6. \A i \in 1 .. Len(c) : i = 1 \/ i = 2 \/ i = 3 BY <2>4
  <2> QED BY <1>1, <2>3, <2>4, <2>5, <2>6 DEF c
<1>4. CASE ~HasData(m)
  <2>1. Chunks(m) = <<m, b>> BY <1>4 DEF Chunks
  <2>2. Complete(b) BY <1>1, <1>4 DEF Complete
  <2> HIDE DEF b, d
  <2> DEFINE c == Chunks(m)
  <2>3. c \in Seq(Messages) /\ Len(c) = 2 /\ c[1] = m /\ c[2] = b
    BY <1>1, <2>1
  <2> HIDE DEF c
  <2>4. \A i \in 1 .. Len(c) - 1 : Follows(c[i], c[i + 1])
    <3>1. \A i \in 1 .. Len(c) - 1 : i = 1 /\ i + 1 = 2 BY <2>3
    <3> QED BY <3>1, <2>3, <1>2
  <2>5. \A i \in 1 .. Len(c) : i = 1 \/ i = 2 BY <2>3
  <2> QED BY <1>1, <2>2, <2>3, <2>4, <2>5 DEF c
<1> QED BY <1>3, <1>4

-----------------------------------------------------------------------------
(* What a step does to the requests and replies that are under way.        *)

\* recv_thread goes on without reading, or its read fails.
Moves ==
  /\ StreamKept /\ UNCHANGED <<eof, c2s, pending>>
  /\ \/ rmsg' = NONE /\ rpc' \in {"exited", "check", "store", "stored"}
     \/ Stores /\ rmsg' = NONE /\ rpc' = "top"
     \/ /\ UNCHANGED rmsg
        /\ \/ rpc = "top" /\ rpc' = "header"
           \/ rpc = "check" /\ rpc' = "body" /\ rmsg # NONE
           \/ rpc = "store" /\ rpc' = "arg" /\ rmsg # NONE /\ rmsg.type = "read"
           \/ rpc = "arg" /\ rpc' = "data"
           \/ rpc = "data" /\ rpc' = "stored" /\ rmsg.count = 0

\* recv_thread reads a chunk.
Reads ==
  /\ StreamRead /\ UNCHANGED <<eof, c2s, pending>>
  /\ \/ rpc = "header" /\ rpc' = "check" /\ rmsg' = Stream[1]
     \/ rpc = "body" /\ rpc' = "store" /\ UNCHANGED rmsg
     \/ rpc = "data" /\ rpc' = "stored" /\ UNCHANGED rmsg /\ rmsg.count # 0

\* The server answers p with m.
Answers(p, m) ==
  /\ ~eof /\ UNCHANGED <<rmsg, rpc, eof, c2s>>
  /\ m \in Messages /\ m.part = "header" /\ m.req = p.req /\ m.tag \in {p.tag, QUEUE_SIZE}
  /\ m.type = "read" => m.req.kind = "read"
  /\ pending' = pending \ {p}
  /\ StreamGrows(Chunks(m))

Cuts == /\ StreamCut /\ eof' /\ c2s' = << >> /\ pending' = {}
        /\ UNCHANGED <<rmsg, rpc>>

Quiet == StreamKept /\ UNCHANGED <<rmsg, rpc, eof>>

LEMMA AnswerType ==
  ASSUME TypeOK, NEW p \in pending, NEW n \in Counts
  PROVE  /\ AnswerTo(p, n) \in Messages /\ AnswerTo(p, n).part = "header"
         /\ AnswerTo(p, n).req = p.req /\ AnswerTo(p, n).tag = p.tag
         /\ AnswerTo(p, n).type = p.req.kind
BY BoundAssumption DEF TypeOK, NetType, AnswerTo, Messages, Requests

\* The fault of a server that answers each request at most once.
LEMMA CorruptKeeps ==
  ASSUME NEW m \in Messages, NEW fault \in Faults \ {"disconnect", "duplicate"}
  PROVE  /\ Corrupt(fault, m).part = m.part /\ Corrupt(fault, m).req = m.req
         /\ Corrupt(fault, m).tag \in {m.tag, QUEUE_SIZE}
         /\ Corrupt(fault, m).type = "read" => m.type = "read"
<1>1. fault \in {"error reply", "bad tag", "bad type", "too big", "0 byte",
                "big count", "flush"}
  BY FaultAssumption
<1>2. CASE fault \in {"error reply", "bad type", "flush"}
  BY <1>2 DEF Corrupt, Messages
<1>3. CASE fault \in {"bad tag"}
  BY <1>3 DEF Corrupt, Messages
<1>4. CASE fault \in {"too big", "0 byte", "big count"}
  BY <1>4 DEF Corrupt, Messages
<1> QED BY <1>1, <1>2, <1>3, <1>4

LEMMA AnswersWhen ==
  ASSUME TypeOK, "duplicate" \notin Faults, ServerReply \/ ServerFault
  PROVE  \E p \in pending, m \in Messages : Answers(p, m)
<1>1. ASSUME NEW p \in pending, NEW m \in Messages, m.part = "header", m.req = p.req,
             m.tag \in {p.tag, QUEUE_SIZE}, m.type = "read" => m.req.kind = "read",
             srv_out = << >>, srv_out' = Chunks(m), pending' = pending \ {p}, ~eof,
             UNCHANGED <<rmsg, rpc, eof, c2s, s2c>>
      PROVE  Answers(p, m)
  <2>1. Chunks(m) \in Seq(Messages) BY <1>1, ChunksType
  <2>2. StreamGrows(Chunks(m)) BY <1>1, <2>1, GrowsWhen
  <2> QED BY <1>1, <2>2 DEF Answers
<1>2. CASE ServerReply
  <2>1. PICK p \in pending, n \in Counts : /\ srv_out' = Chunks(AnswerTo(p, n))
                                           /\ pending' = pending \ {p}
    BY <1>2 DEF ServerReply
  <2>2. srv_out = << >> /\ ~eof /\ UNCHANGED <<rmsg, rpc, eof, c2s, s2c>>
    BY <1>2 DEF ServerReply, recvVars
  <2>3. Answers(p, AnswerTo(p, n)) BY <2>1, <2>2, <1>1, AnswerType
  <2> QED BY <2>3, AnswerType
<1>3. CASE ServerFault
  <2>1. PICK p \in pending, n \in Counts, fault \in Faults \ {"disconnect"} :
          /\ srv_out' = Chunks(Corrupt(fault, AnswerTo(p, n)))
          /\ pending' = IF fault = "duplicate" THEN pending ELSE pending \ {p}
    BY <1>3 DEF ServerFault
  <2> DEFINE a == AnswerTo(p, n)
             m == Corrupt(fault, a)
  <2>2. srv_out = << >> /\ ~eof /\ UNCHANGED <<rmsg, rpc, eof, c2s, s2c>>
    BY <1>3 DEF ServerFault, recvVars
  <2>3. /\ a \in Messages /\ a.part = "header" /\ a.req = p.req /\ a.tag = p.tag
        /\ a.type = p.req.kind
    BY AnswerType
  <2> HIDE DEF a
  <2>4. fault \in Faults \ {"disconnect", "duplicate"} OBVIOUS
  <2>5. /\ m.part = "header" /\ m.req = p.req /\ m.tag \in {p.tag, QUEUE_SIZE}
        /\ m.type = "read" => m.req.kind = "read"
    BY <2>3, <2>4, CorruptKeeps
  <2>6. m \in Messages BY <2>3, CorruptType
  <2>7. srv_out' = Chunks(m) /\ pending' = pending \ {p} BY <2>1, <2>4 DEF a
  <2> HIDE DEF m
  <2>8. Answers(p, m) BY <2>2, <2>5, <2>6, <2>7, <1>1
  <2> QED BY <2>6, <2>8
<1> QED BY <1>2, <1>3

LEMMA ReceiverKinds ==
  ASSUME TypeOK, HandInv, RecvStep
  PROVE  (Quiet /\ UNCHANGED <<c2s, pending>>) \/ Moves \/ Reads
<1>1. CASE RecvIdle \/ RecvAbort
  <2>1. UNCHANGED <<rmsg, rpc, eof, c2s, pending, s2c, srv_out>>
    BY <1>1 DEF RecvIdle, RecvAbort, recvVars, netVars
  <2> QED BY <2>1, KeptWhen DEF Quiet
<1>2. CASE RecvExit
  <2>1. UNCHANGED <<eof, c2s, pending, s2c, srv_out>> /\ rmsg' = NONE /\ rpc' = "exited"
    BY <1>2 DEF RecvExit, netVars
  <2> QED BY <2>1, KeptWhen DEF Moves
<1>3. ASSUME NEW l, RecvGoto(l)
      PROVE  UNCHANGED <<eof, c2s, pending, rmsg>> /\ StreamKept /\ rpc' = l
  BY <1>3, KeptWhen DEF RecvGoto, netVars
<1>4. CASE RecvStart BY <1>3, <1>4 DEF RecvStart, Moves
<1>5. CASE RecvClosed BY <1>2, <1>5 DEF RecvClosed
<1>6. CASE RecvCheck
  <2>1. CASE HeaderOk BY <1>3, <1>6, <2>1 DEF RecvCheck, HeaderOk, Moves
  <2>2. CASE ~HeaderOk BY <1>2, <1>6, <2>2 DEF RecvCheck
  <2> QED BY <2>1, <2>2
<1>7. ASSUME NEW m, Read(m), UNCHANGED <<srv_out, eof, c2s, pending>>
      PROVE  \/ /\ StreamRead /\ rmsg' = m /\ s2c # << >>
                /\ UNCHANGED <<eof, c2s, pending>>
             \/ StreamKept /\ rmsg' = NONE /\ UNCHANGED <<eof, c2s, pending>>
  BY <1>7, ReadWhen, KeptWhen DEF Read
<1>8. CASE RecvHeader
  <2>1. /\ Read(Head(s2c)) /\ rpc = "header" /\ rpc' = "check"
        /\ UNCHANGED <<srv_out, eof, c2s, pending>>
    BY <1>8 DEF RecvHeader
  <2> QED BY <2>1, <1>7 DEF Moves, Reads, StreamRead
<1>9. CASE RecvBody
  <2>1. /\ Read(rmsg) /\ rpc = "body" /\ rpc' = "store"
        /\ UNCHANGED <<srv_out, eof, c2s, pending>>
    BY <1>9 DEF RecvBody
  <2> QED BY <2>1, <1>7 DEF Moves, Reads
<1>10. CASE PutReply /\ (RecvStore \/ RecvStored)
  <2>1. UNCHANGED <<eof, c2s, pending, s2c, srv_out>> /\ rmsg' = NONE /\ rpc' = "top"
    BY <1>10 DEF PutReply, netVars
  <2>2. Stores \/ RecvExit \/ RecvGoto("arg")
    BY <1>10 DEF RecvStore, RecvStored, Stores
  <2> QED BY <1>2, <2>1, <2>2, KeptWhen DEF Moves, RecvGoto
<1>11. CASE RecvStore
  <2>1. RecvExit \/ PutReply \/ (RecvGoto("arg") /\ rpc = "store" /\ rmsg # NONE /\ rmsg.type = "read")
    BY <1>11 DEF RecvStore
  <2> QED BY <1>2, <1>3, <1>10, <1>11, <2>1 DEF Moves
<1>12. CASE RecvStored
  BY <1>2, <1>10, <1>12 DEF RecvStored
<1>13. CASE RecvArg
  <2>1. UNCHANGED <<rmsg, eof, c2s, pending, s2c, srv_out>> /\ rpc = "arg" /\ rpc' = "data"
    BY <1>13 DEF RecvArg, netVars
  <2> QED BY <2>1, KeptWhen DEF Moves
<1>14. CASE RecvData
  <2>1. /\ rpc = "data" /\ rpc' = "stored"
        /\ UNCHANGED <<srv_out, eof, c2s, pending>>
    BY <1>14 DEF RecvData
  <2>2. CASE rmsg.count = 0
    <3>1. UNCHANGED <<rmsg, s2c>> BY <1>14, <2>2 DEF RecvData
    <3> QED BY <2>1, <2>2, <3>1, KeptWhen DEF Moves
  <2>3. CASE rmsg.count # 0 /\ rbuf = NONE
    <3>1. rmsg' = NONE /\ UNCHANGED s2c BY <1>14, <2>3 DEF RecvData
    <3> QED BY <2>1, <3>1, KeptWhen DEF Moves
  <2>4. CASE rmsg.count # 0 /\ rbuf # NONE
    <3>1. Read(rmsg) BY <1>14, <2>4 DEF RecvData
    <3> QED BY <2>1, <2>4, <3>1, <1>7 DEF Moves, Reads
  <2> QED BY <2>2, <2>3, <2>4
<1> QED BY <1>1, <1>4, <1>5, <1>6, <1>8, <1>9, <1>11, <1>12, <1>13, <1>14 DEF RecvStep

LEMMA WayKinds ==
  ASSUME TypeOK, HandInv, Next, "duplicate" \notin Faults
  PROVE  \/ Quiet /\ UNCHANGED <<c2s, pending>>
         \/ Quiet /\ \E t \in Callers : WriteMessage(t) \/ WriteData(t)
         \/ Quiet /\ ServerRecv
         \/ Moves \/ Reads \/ Cuts
         \/ \E p \in pending, m \in Messages : Answers(p, m)
<1>1. CASE RecvStep BY <1>1, ReceiverKinds
<1>2. ASSUME NEW t \in Callers, WriteMessage(t) \/ WriteData(t)
      PROVE  Quiet
  <2>1. UNCHANGED <<rmsg, rpc, eof, s2c, srv_out>>
    BY <1>2 DEF WriteMessage, WriteData, recvVars
  <2> QED BY <2>1, KeptWhen DEF Quiet
<1>3. CASE ServerRecv
  <2>1. UNCHANGED <<rmsg, rpc, eof, s2c, srv_out>> BY <1>3 DEF ServerRecv, recvVars
  <2> QED BY <1>3, <2>1, KeptWhen DEF Quiet
<1>4. CASE ServerWrite
  <2>1. UNCHANGED <<rmsg, rpc, eof, c2s, pending>> /\ StreamKept
    BY <1>4, WrittenKept DEF ServerWrite, recvVars
  <2> QED BY <2>1 DEF Quiet
<1>5. CASE ServerReply \/ ServerFault BY <1>5, AnswersWhen
<1>6. CASE Disconnect
  BY <1>6, CutWhen DEF Disconnect, Cuts, recvVars
<1>7. CASE UNCHANGED <<recvVars, netVars>>
  <2>1. UNCHANGED <<rmsg, rpc, eof, c2s, pending, s2c, srv_out>>
    BY <1>7 DEF recvVars, netVars
  <2> QED BY <2>1, KeptWhen DEF Quiet
<1>8. CASE \E t \in Callers : \/ Call(t) \/ SendBlock(t) \/ SendClosed(t)
                             \/ SendTooBig(t) \/ SendTake(t) \/ WriteFails(t)
                             \/ WaitStep(t) \/ UseAfterFree(t)
  <2>1. UNCHANGED <<recvVars, netVars>>
    BY <1>8 DEF Call, SendBlock, SendClosed, SendTooBig, SendTake, WriteFails,
         WaitStep, WaitBadTag, WaitBlock, WaitTake, PollTake, UseAfterFree
  <2> QED BY <1>7, <2>1
<1>9. CASE CloseBegin \/ CloseStep \/ Terminated
  <2>1. UNCHANGED <<recvVars, netVars>>
    BY <1>9 DEF CloseBegin, CloseStep, CloseBlock, CloseFree, Terminated, vars
  <2> QED BY <1>7, <2>1
<1> QED BY <1>1, <1>2, <1>3, <1>4, <1>5, <1>6, <1>8, <1>9 DEF Next, SendStep, ServerStep

-----------------------------------------------------------------------------
(* Framing is kept.                                                        *)

LEMMA HeldMessage ==
  ASSUME TypeOK, HandInv, rmsg # NONE
  PROVE  rmsg \in Messages /\ rmsg.part = "header" /\ rpc \in Within
BY DEF TypeOK, RecvType, HandInv

\* What recv_thread reads is the part that it expects.
LEMMA ReadIsNext ==
  ASSUME TypeOK, FramesInv, Reads
  PROVE  /\ rmsg' \in Messages /\ rmsg'.part = "header" /\ rpc' \in {"check", "store", "stored"}
         /\ LastOf(rmsg', rpc') = Stream[1] /\ Len(Stream) >= 1
<1>1. Len(Stream) >= 1 /\ Stream[1] \in Messages
  BY StreamType DEF Reads, StreamRead, Places
<1>2. CASE rpc = "header"
  <2>1. rmsg' = Stream[1] /\ rpc' = "check" BY <1>2 DEF Reads
  <2>2. Stream[1].part = "header" BY <1>1, <1>2 DEF FramesInv, FrontInv
  <2> QED BY <1>1, <2>1, <2>2, LastOfAt
<1>3. CASE rpc = "body"
  <2>1. rmsg' = rmsg /\ rpc' = "store" /\ rmsg # NONE
    BY <1>3 DEF Reads, TypeOK, RecvType
  <2>2. rmsg \in Messages /\ rmsg.part = "header" BY <2>1, HeldMessage DEF FramesInv
  <2>3. Follows(rmsg, Stream[1]) BY <1>1, <1>3, <2>1, <2>2, LastOfAt DEF FramesInv, FrontInv
  <2>4. Stream[1] = Part(rmsg, "body") BY <2>2, <2>3, FollowsOf
  <2>5. LastOf(rmsg, "store") = Part(rmsg, "body") BY <2>2, LastOfAt
  <2> QED BY <1>1, <2>1, <2>2, <2>4, <2>5
<1>4. CASE rpc = "data"
  <2>1. rmsg' = rmsg /\ rpc' = "stored" /\ rmsg # NONE /\ rmsg.type = "read" /\ rmsg.count # 0
    BY <1>4 DEF Reads, FramesInv, HandInv
  <2>2. rmsg \in Messages /\ rmsg.part = "header" BY <2>1, HeldMessage DEF FramesInv
  <2>3. HasData(rmsg) BY <2>1, <2>2 DEF HasData, Messages
  <2> DEFINE b == Part(rmsg, "body")
  <2>4. LastOf(rmsg, "data") = b BY <2>2, LastOfAt
  <2>5. Follows(b, Stream[1]) BY <1>1, <1>4, <2>1, <2>4 DEF FramesInv, FrontInv
  <2>6. b.part = "body" /\ HasData(b) /\ Part(b, "data") = Part(rmsg, "data")
    BY <2>2, <2>3, PartOf
  <2>7. Stream[1] = Part(rmsg, "data") BY <2>5, <2>6, FollowsOf
  <2>8. LastOf(rmsg, "stored") = Part(rmsg, "data") BY <2>2, <2>3, LastOfAt
  <2> QED BY <1>1, <2>1, <2>2, <2>7, <2>8
<1> QED BY <1>2, <1>3, <1>4 DEF Reads

\* A message is stored only when every part of it has been read.
LEMMA StoredIsWhole ==
  ASSUME TypeOK, HandInv, Stores
  PROVE  Complete(LastOf(rmsg, rpc))
<1>1. rmsg \in Messages /\ rmsg.part = "header" BY HeldMessage DEF Stores
<1>2. CASE rpc = "stored" BY <1>1, <1>2, LastOfAt
<1>3. CASE rpc = "store"
  <2>1. ~HasData(rmsg) BY <1>3 DEF Stores, HasData
  <2> QED BY <1>1, <1>3, <2>1, LastOfAt
<1> QED BY <1>2, <1>3 DEF Stores

\* While recv_thread goes on without reading, the chunk read last stays the same.
LEMMA MovesLast ==
  ASSUME TypeOK, HandInv, Moves, rmsg' # NONE
  PROVE  rmsg # NONE /\ rmsg' = rmsg /\ LastOf(rmsg', rpc') = LastOf(rmsg, rpc)
<1>1. UNCHANGED rmsg /\ rmsg # NONE BY DEF Moves
<1>2. rmsg \in Messages /\ rmsg.part = "header" /\ rpc \in Within BY <1>1, HeldMessage
<1>3. \/ rpc = "top" /\ rpc' = "header"
      \/ rpc = "check" /\ rpc' = "body"
      \/ rpc = "store" /\ rpc' = "arg"
      \/ rpc = "arg" /\ rpc' = "data"
      \/ rpc = "data" /\ rpc' = "stored" /\ rmsg.count = 0
  BY <1>1 DEF Moves
<1>4. rpc # "top" BY <1>2 DEF Within
<1>5. CASE rpc = "data" /\ rpc' = "stored" /\ rmsg.count = 0
  <2>1. ~HasData(rmsg) BY <1>5 DEF HasData
  <2> QED BY <1>1, <1>2, <1>5, <2>1, LastOfAt
<1>6. CASE rpc = "check" /\ rpc' = "body" BY <1>1, <1>2, <1>6, LastOfAt
<1>7. CASE rpc \in {"store", "arg"} /\ rpc' \in {"arg", "data"} BY <1>1, <1>2, <1>7, LastOfAt
<1> QED BY <1>3, <1>4, <1>5, <1>6, <1>7

LEMMA HandStep ==
  ASSUME TypeOK, FramesInv, Moves \/ Reads \/ UNCHANGED <<rmsg, rpc>>
  PROVE  HandInv'
<1>1. CASE Reads
  <2>1. rmsg' # NONE => rmsg'.part = "header" /\ rpc' \in Within
    BY <1>1, ReadIsNext DEF Within
  <2>2. rpc' \notin {"arg", "data"} BY <1>1, ReadIsNext
  <2> QED BY <2>1, <2>2 DEF HandInv
<1>2. CASE Moves
  <2>1. CASE rmsg' = NONE /\ rpc' \in {"exited", "check", "store", "stored", "top"}
    BY <2>1 DEF HandInv
  <2>2. CASE UNCHANGED rmsg
    <3>1. rmsg # NONE => rmsg.part = "header" /\ rpc \in Within
      BY DEF FramesInv, HandInv
    <3>2. CASE rpc = "top" /\ rpc' = "header"
      BY <2>2, <3>1, <3>2 DEF HandInv, Within
    <3>3. CASE rpc = "check" /\ rpc' = "body" /\ rmsg # NONE
      BY <2>2, <3>1, <3>3 DEF HandInv, Within
    <3>4. CASE rpc = "store" /\ rpc' = "arg" /\ rmsg # NONE /\ rmsg.type = "read"
      BY <2>2, <3>1, <3>4 DEF HandInv, Within
    <3>5. CASE rpc = "arg" /\ rpc' = "data"
      BY <2>2, <3>1, <3>5 DEF FramesInv, HandInv, Within
    <3>6. CASE rpc = "data" /\ rpc' = "stored"
      BY <2>2, <3>1, <3>6 DEF HandInv, Within
    <3>7. CASE rmsg' = NONE /\ rpc' \in {"exited", "check", "store", "stored", "top"}
      BY <2>1, <3>7
    <3> QED BY <1>2, <3>2, <3>3, <3>4, <3>5, <3>6, <3>7 DEF Moves
  <2> QED BY <1>2, <2>1, <2>2 DEF Moves
<1>3. CASE UNCHANGED <<rmsg, rpc>> BY <1>3 DEF FramesInv, HandInv
<1> QED BY <1>1, <1>2, <1>3

LEMMA FramesStep ==
  ASSUME TypeOK, FramesInv, Next, "duplicate" \notin Faults
  PROVE  FramesInv'
<1> DEFINE L == Len(Stream)
           Ln == Len(Stream')
<1>1. HandInv /\ ChainInv /\ FrontInv /\ WholeInv BY DEF FramesInv
<1>2. L \in Nat BY StreamType
<1>3. ASSUME StreamKept PROVE ChainInv'
  <2>1. Ln = L /\ \A i \in 1 .. L : Stream'[i] = Stream[i] BY <1>3 DEF StreamKept, Places
  <2> SUFFICES ASSUME NEW i \in 1 .. Ln - 1 PROVE Follows(Stream'[i], Stream'[i + 1])
    BY DEF ChainInv, Follows, Complete, HasData, Part
  <2> HIDE DEF L, Ln
  <2>2. i \in 1 .. L - 1 /\ i \in 1 .. L /\ i + 1 \in 1 .. L BY <1>2, <2>1
  <2> QED BY <1>1, <2>1, <2>2 DEF ChainInv, L
<1>4. CASE Quiet
  <2>1. UNCHANGED <<rmsg, rpc, eof>> /\ StreamKept BY <1>4 DEF Quiet
  <2>2. HandInv' BY <2>1, HandStep
  <2>3. Ln = L /\ \A i \in 1 .. L : Stream'[i] = Stream[i]
    BY <2>1 DEF StreamKept, Places
  <2>4. L >= 1 => Stream'[1] = Stream[1] /\ Stream'[Ln] = Stream[L]
    BY <1>2, <2>3
  <2>5. FrontInv' BY <1>1, <2>1, <2>3, <2>4 DEF FrontInv
  <2>6. WholeInv' BY <1>1, <2>1, <2>3, <2>4 DEF WholeInv
  <2> QED BY <1>3, <2>1, <2>2, <2>5, <2>6 DEF FramesInv
<1>5. CASE Moves
  <2>1. StreamKept /\ eof' = eof BY <1>5 DEF Moves
  <2>2. HandInv' BY <1>5, HandStep
  <2>3. Ln = L /\ \A i \in 1 .. L : Stream'[i] = Stream[i]
    BY <2>1 DEF StreamKept, Places
  <2>4. L >= 1 => Stream'[1] = Stream[1] /\ Stream'[Ln] = Stream[L]
    BY <1>2, <2>3
  <2>5. rmsg' # NONE => rmsg # NONE /\ rmsg' = rmsg /\ LastOf(rmsg', rpc') = LastOf(rmsg, rpc)
    BY <1>1, <1>5, MovesLast
  <2>6. ASSUME L >= 1, rpc' \in {"top", "header"} PROVE Stream[1].part = "header"
    <3>1. CASE rpc = "top" BY <1>1, <2>6, <3>1 DEF FrontInv
    <3>2. CASE Stores
      <4>1. Complete(LastOf(rmsg, rpc)) BY <1>1, <3>2, StoredIsWhole
      <4>2. Follows(LastOf(rmsg, rpc), Stream[1])
        BY <1>1, <2>6, <3>2 DEF FrontInv, Stores
      <4> QED BY <4>1, <4>2, FollowsOf
    <3> QED BY <1>5, <2>6, <3>1, <3>2 DEF Moves
  <2>7. FrontInv' BY <1>1, <2>3, <2>4, <2>5, <2>6 DEF FrontInv
  <2>8. WholeInv' BY <1>1, <2>1, <2>3, <2>4, <2>5 DEF WholeInv
  <2> QED BY <1>3, <2>1, <2>2, <2>7, <2>8 DEF FramesInv
<1>6. CASE Reads
  <2>1. /\ rmsg' \in Messages /\ rpc' \in {"check", "store", "stored"}
        /\ LastOf(rmsg', rpc') = Stream[1] /\ L >= 1
    BY <1>6, ReadIsNext
  <2>2. HandInv' BY <1>6, HandStep
  <2>3. eof' = eof /\ Ln = L - 1 /\ \A i \in 1 .. Ln : Stream'[i] = Stream[i + 1]
    BY <1>6 DEF Reads, StreamRead
  <2> HIDE DEF L, Ln
  <2>4. ASSUME NEW i \in 1 .. Ln - 1 PROVE Follows(Stream'[i], Stream'[i + 1])
    <3>1. i \in 1 .. Ln /\ i + 1 \in 1 .. Ln /\ i + 1 \in 1 .. L - 1 BY <1>2, <2>3
    <3>2. Stream'[i] = Stream[i + 1] /\ Stream'[i + 1] = Stream[i + 1 + 1]
      BY <2>3, <3>1
    <3> QED BY <1>1, <3>1, <3>2 DEF ChainInv, L
  <2>5. ChainInv' BY <2>4 DEF ChainInv, Ln
  <2>6. ASSUME Ln >= 1 PROVE Stream'[1] = Stream[2] /\ Follows(Stream[1], Stream[2])
                             /\ Stream'[Ln] = Stream[L]
    <3>1. 1 \in 1 .. Ln /\ Ln \in 1 .. Ln /\ 1 \in 1 .. L - 1 /\ Ln + 1 = L /\ 1 + 1 = 2
      BY <1>2, <2>3, <2>6
    <3>2. Stream'[1] = Stream[1 + 1] /\ Stream'[Ln] = Stream[Ln + 1] BY <2>3, <3>1
    <3>3. Follows(Stream[1], Stream[1 + 1]) BY <1>1, <3>1 DEF ChainInv, L
    <3> QED BY <3>1, <3>2, <3>3
  <2>7. FrontInv'
    <3>1. rpc' \notin {"top", "header"} BY <2>1
    <3> QED BY <2>1, <2>6, <3>1 DEF FrontInv, Ln
  <2>8. WholeInv'
    <3>1. ~eof => Complete(Stream[L]) BY <1>1, <2>1 DEF WholeInv, L
    <3>2. Ln = 0 => L = 1 BY <1>2, <2>3
    <3> QED BY <2>1, <2>3, <2>6, <3>1, <3>2 DEF WholeInv, Ln
  <2> QED BY <2>2, <2>5, <2>7, <2>8 DEF FramesInv
<1>7. ASSUME NEW p \in pending, NEW m \in Messages, Answers(p, m) PROVE FramesInv'
  <2> DEFINE c == Chunks(m)
  <2>1. UNCHANGED <<rmsg, rpc, eof>> /\ ~eof /\ m.part = "header" /\ StreamGrows(c)
    BY <1>7 DEF Answers
  <2>2. /\ Len(c) \in {2, 3} /\ c[1] = m
        /\ \A i \in 1 .. Len(c) - 1 : Follows(c[i], c[i + 1])
        /\ Complete(c[Len(c)])
    BY <2>1, ChunksOf
  <2>3. HandInv' BY <2>1, HandStep
  <2> HIDE DEF c
  <2>4. /\ Ln = L + Len(c)
        /\ \A i \in 1 .. L : Stream'[i] = Stream[i]
        /\ \A i \in 1 .. Len(c) : Stream'[L + i] = c[i]
    BY <2>1 DEF StreamGrows, Places
  <2>5. L >= 1 => Complete(Stream[L]) BY <1>1, <2>1 DEF WholeInv
  <2>6. L = 0 /\ rmsg # NONE => Complete(LastOf(rmsg, rpc)) BY <1>1, <2>1 DEF WholeInv
  <2>7. Stream'[L + 1] = m /\ Stream'[L + Len(c)] = c[Len(c)]
    <3>1. 1 \in 1 .. Len(c) /\ Len(c) \in 1 .. Len(c) BY <2>2
    <3> QED BY <2>2, <2>4, <3>1
  <2> HIDE DEF L, Ln
  <2>8. ASSUME NEW i \in 1 .. Ln - 1 PROVE Follows(Stream'[i], Stream'[i + 1])
    <3>1. CASE i < L
      <4>1. i \in 1 .. L - 1 /\ i \in 1 .. L /\ i + 1 \in 1 .. L BY <1>2, <3>1
      <4> QED BY <1>1, <2>4, <4>1 DEF ChainInv, L
    <3>2. CASE i = L
      <4>1. L >= 1 /\ L \in 1 .. L BY <1>2, <3>2
      <4>2. Stream'[i] = Stream[L] /\ Stream'[i + 1] = m BY <2>4, <2>7, <3>2, <4>1
      <4> QED BY <2>1, <2>5, <4>1, <4>2 DEF Follows
    <3>3. CASE i > L
      <4>1. i - L \in 1 .. Len(c) - 1 /\ i - L \in 1 .. Len(c) /\ i - L + 1 \in 1 .. Len(c)
            /\ L + (i - L) = i /\ L + (i - L + 1) = i + 1
        BY <1>2, <2>2, <2>4, <3>3
      <4>2. Stream'[i] = c[i - L] /\ Stream'[i + 1] = c[i - L + 1]
        BY <2>4, <4>1
      <4> QED BY <2>2, <4>1, <4>2
    <3> QED BY <1>2, <3>1, <3>2, <3>3
  <2>9. ChainInv' BY <2>8 DEF ChainInv, Ln
  <2>10. FrontInv'
    <3>1. CASE L >= 1
      <4>1. Stream'[1] = Stream[1] BY <1>2, <2>4, <3>1
      <4> QED BY <1>1, <2>1, <3>1, <4>1 DEF FrontInv, L
    <3>2. CASE L = 0
      <4>1. Stream'[1] = m BY <2>7, <3>2
      <4>2. rmsg # NONE => Follows(LastOf(rmsg, rpc), m) BY <2>1, <2>6, <3>2 DEF Follows
      <4> QED BY <2>1, <4>1, <4>2 DEF FrontInv
    <3> QED BY <1>2, <3>1, <3>2
  <2>11. WholeInv'
    <3>1. Ln >= 1 BY <1>2, <2>2, <2>4
    <3>2. Complete(Stream'[Ln]) BY <2>2, <2>4, <2>7
    <3> QED BY <3>1, <3>2 DEF WholeInv, Ln
  <2> QED BY <2>3, <2>9, <2>10, <2>11 DEF FramesInv
<1>8. CASE Cuts
  <2>1. UNCHANGED <<rmsg, rpc>> /\ eof' BY <1>8 DEF Cuts
  <2>2. HandInv' BY <2>1, HandStep
  <2>3. Ln \in Nat /\ Ln <= L /\ \A i \in 1 .. Ln : Stream'[i] = Stream[i]
    BY <1>8 DEF Cuts, StreamCut
  <2> HIDE DEF L, Ln
  <2>4. ASSUME NEW i \in 1 .. Ln - 1 PROVE Follows(Stream'[i], Stream'[i + 1])
    <3>1. i \in 1 .. L - 1 /\ i \in 1 .. Ln /\ i + 1 \in 1 .. Ln BY <1>2, <2>3
    <3> QED BY <1>1, <2>3, <3>1 DEF ChainInv, L
  <2>5. ChainInv' BY <2>4 DEF ChainInv, Ln
  <2>6. Ln >= 1 => L >= 1 /\ Stream'[1] = Stream[1] BY <1>2, <2>3
  <2>7. FrontInv' BY <1>1, <2>1, <2>6 DEF FrontInv, L, Ln
  <2>8. WholeInv' BY <2>1 DEF WholeInv
  <2> QED BY <2>2, <2>5, <2>7, <2>8 DEF FramesInv
<1> QED BY <1>1, <1>4, <1>5, <1>6, <1>7, <1>8, WayKinds

-----------------------------------------------------------------------------
(* Where a request with tag k, or the answer to it, is: all of it on its   *)
(* way to the server, with the server, or on its way back.                 *)

ToServer(k, r) == \E i \in 1 .. Len(c2s) : c2s[i].last /\ c2s[i].tag = k /\ c2s[i].req = r
AtServer(k, r) == \E p \in pending : p.tag = k /\ p.req = r
InHand(k, r)   == rmsg # NONE /\ rmsg.tag = k /\ rmsg.req = r
OnItsWay(k, r) == \E i \in Places : Stream[i].tag = k /\ Stream[i].req = r
UnderWay(k, r) == ToServer(k, r) \/ AtServer(k, r) \/ InHand(k, r) \/ OnItsWay(k, r)

FlightInv == \A k \in Tags, r \in Requests : UnderWay(k, r) => Owed(k, r)

\* A request or its answer is in one place, whatever its tag has become, and each
\* request and each answer once.
SockReq(r)   == \E i \in 1 .. Len(c2s) : c2s[i].last /\ c2s[i].req = r
ServerReq(r) == \E p \in pending : p.req = r
WireReq(r)   == (rmsg # NONE /\ rmsg.req = r) \/ \E i \in Places : Stream[i].req = r
Out(r)       == SockReq(r) \/ ServerReq(r) \/ WireReq(r)

ApartInv ==
  \A r \in Requests : /\ ~(SockReq(r) /\ ServerReq(r)) /\ ~(SockReq(r) /\ WireReq(r))
                      /\ ~(ServerReq(r) /\ WireReq(r))
SockOnceInv ==
  \A i, j \in 1 .. Len(c2s) :
    c2s[i].last /\ c2s[j].last /\ c2s[i].req = c2s[j].req => i = j
ServerOnceInv == \A p, o \in pending : p.req = o.req => p = o
NewAt(j) ==
  /\ \A i \in 1 .. j - 1 : Stream[i].req # Stream[j].req
  /\ rmsg # NONE => rmsg.req # Stream[j].req
WireOnceInv == \A j \in Places : Stream[j].part = "header" => NewAt(j)
OnceInv == ApartInv /\ SockOnceInv /\ ServerOnceInv /\ WireOnceInv

\* The request of a call that has not been sent is newer than all that are out.
Early(t) == pc[t] \in {"send", "slot wait", "write", "data"}
NewestInv == \A t \in Callers : pc[t] # "idle" => req[t].by = t /\ req[t].seq = nreq[t]
FreshInv ==
  \A r \in Requests :
    Out(r) => r.seq <= nreq[r.by] /\ (Early(r.by) => r.seq < nreq[r.by])

\* A slot whose request is still being written has no reply.
CleanInv ==
  \A t \in Callers : pc[t] \in {"write", "data"} /\ ~closed => queue[tag[t]].reply = NONE

\* A read reply answers a read request.
KindInv ==
  /\ \A i \in Places : Stream[i].type = "read" => Stream[i].req.kind = "read"
  /\ rmsg # NONE /\ rmsg.type = "read" => rmsg.req.kind = "read"

BufInv == rpc = "data" /\ rbuf # NONE /\ ~closed => Awaits(rbuf, rmsg.tag)
NoBufInv == rpc = "data" /\ rbuf = NONE => closed

\* The socket's descriptor is lost only when the server is gone.
FdInv == ~fd_ok => eof

\* The types of what is under way.
LEMMA WayTypes ==
  ASSUME TypeOK
  PROVE  /\ c2s \in Seq([tag: Tags, req: Requests, last: BOOLEAN])
         /\ Len(c2s) \in Nat
         /\ \A i \in 1 .. Len(c2s) : c2s[i].tag \in Tags /\ c2s[i].req \in Requests
         /\ \A p \in pending : p.tag \in Tags /\ p.req \in Requests
         /\ \A p, o \in pending : p.tag = o.tag /\ p.req = o.req => p = o
         /\ rmsg # NONE => rmsg \in Messages /\ rmsg.req \in Requests
         /\ \A i \in Places : Stream[i] \in Messages /\ Stream[i].req \in Requests
<1>1. c2s \in Seq([tag: Tags, req: Requests, last: BOOLEAN]) BY DEF TypeOK, NetType
<1>2. /\ Len(c2s) \in Nat
      /\ \A i \in 1 .. Len(c2s) : c2s[i] \in [tag: Tags, req: Requests, last: BOOLEAN]
  BY <1>1, LenProperties, ElementOfSeq
<1>3. pending \subseteq [tag: Tags, req: Requests] BY DEF TypeOK, NetType
<1>4. rmsg # NONE => rmsg \in Messages BY DEF TypeOK, RecvType
<1>5. \A m \in Messages : m.req \in Requests BY DEF Messages
<1>6. \A p \in pending : p.tag \in Tags /\ p.req \in Requests BY <1>3
<1>7. ASSUME NEW p \in pending, NEW o \in pending, p.tag = o.tag, p.req = o.req PROVE p = o
  <2>1. /\ p \in [tag: Tags, req: Requests] /\ o \in [tag: Tags, req: Requests]
    BY <1>3
  <2>2. p = [tag |-> p.tag, req |-> p.req] /\ o = [tag |-> o.tag, req |-> o.req]
    BY <2>1
  <2> QED BY <1>7, <2>2
<1> QED BY <1>1, <1>2, <1>4, <1>5, <1>6, <1>7, StreamType

\* Every chunk belongs to a message whose header is in the stream, once recv_thread
\* has read every part of the one in its hand.
LEMMA HeaderOf ==
  ASSUME TypeOK, FramesInv, rmsg # NONE, Complete(LastOf(rmsg, rpc)), NEW j \in Places
  PROVE  \E h \in Places : Stream[h].part = "header" /\ Stream[h].req = Stream[j].req
<1>1. Len(Stream) \in Nat /\ \A i \in Places : Stream[i] \in Messages BY StreamType
<1>2. j \in Nat /\ 1 <= j /\ j <= Len(Stream) /\ 1 \in Places BY <1>1 DEF Places
<1>3. Stream[1].part = "header"
  BY <1>1, <1>2, FollowsOf DEF FramesInv, FrontInv
<1>4. ASSUME NEW i \in Places, i # 1
      PROVE  /\ i - 1 \in Places /\ Follows(Stream[i - 1], Stream[i])
             /\ Stream[i - 1] \in Messages /\ Stream[i] \in Messages
  <2>1. i - 1 \in Places /\ i - 1 \in 1 .. Len(Stream) - 1 /\ i - 1 + 1 = i
    BY <1>1, <1>4 DEF Places
  <2> QED BY <1>1, <2>1 DEF FramesInv, ChainInv
<1>5. ASSUME NEW i \in Places, Stream[i].part = "body"
      PROVE  /\ i - 1 \in Places /\ Stream[i - 1].part = "header"
             /\ Stream[i - 1].req = Stream[i].req
  <2>1. i # 1 BY <1>3, <1>5
  <2> DEFINE a == Stream[i - 1]
             b == Stream[i]
  <2>2. i - 1 \in Places /\ Follows(a, b) /\ a \in Messages /\ b \in Messages
    BY <1>4, <2>1
  <2> HIDE DEF a, b
  <2>3. a.part = "header" /\ b = Part(a, "body")
    <3>1. Part(a, "data").part = "data" BY <2>2, PartOf
    <3>2. b.part = "body" BY <1>5 DEF b
    <3> QED BY <2>2, <3>1, <3>2 DEF Follows
  <2>4. b.req = a.req BY <2>2, <2>3, PartOf
  <2> QED BY <2>2, <2>3, <2>4 DEF a, b
<1>6. CASE Stream[j].part = "header" BY <1>6
<1>7. CASE Stream[j].part = "body" BY <1>5, <1>7
<1>8. CASE Stream[j].part = "data"
  <2>1. j # 1 BY <1>3, <1>8
  <2> DEFINE a == Stream[j - 1]
             b == Stream[j]
  <2>2. j - 1 \in Places /\ Follows(a, b) /\ a \in Messages /\ b \in Messages
    BY <1>4, <2>1
  <2> HIDE DEF a, b
  <2>3. a.part = "body" /\ b = Part(a, "data")
    <3>1. Part(a, "body").part = "body" BY <2>2, PartOf
    <3>2. b.part = "data" BY <1>8 DEF b
    <3> QED BY <2>2, <3>1, <3>2 DEF Follows
  <2>4. b.req = a.req BY <2>2, <2>3, PartOf
  <2>5. /\ j - 1 - 1 \in Places /\ Stream[j - 1 - 1].part = "header"
        /\ Stream[j - 1 - 1].req = a.req
    BY <1>5, <2>2, <2>3 DEF a
  <2> QED BY <2>4, <2>5 DEF b
<1>9. Stream[j].part \in {"header", "body", "data"} BY <1>1 DEF Messages
<1> QED BY <1>6, <1>7, <1>8, <1>9

\* When a reply is stored, neither the request nor another answer to it is out.
LEMMA NoneLeft ==
  ASSUME TypeOK, FramesInv, OnceInv, Stores
  PROVE  /\ ~SockReq(rmsg.req) /\ ~ServerReq(rmsg.req)
         /\ \A j \in Places : Stream[j].req # rmsg.req
<1>1. rmsg.req \in Requests /\ rmsg # NONE BY StoresTag DEF Stores
<1>2. WireReq(rmsg.req) BY <1>1 DEF WireReq
<1>3. ~SockReq(rmsg.req) /\ ~ServerReq(rmsg.req) BY <1>1, <1>2 DEF OnceInv, ApartInv
<1>4. Complete(LastOf(rmsg, rpc)) BY StoredIsWhole DEF FramesInv
<1>5. ASSUME NEW j \in Places, Stream[j].req = rmsg.req PROVE FALSE
  <2>1. PICK h \in Places : Stream[h].part = "header" /\ Stream[h].req = rmsg.req
    BY <1>1, <1>4, <1>5, HeaderOf
  <2>2. NewAt(h) BY <2>1 DEF OnceInv, WireOnceInv
  <2> QED BY <1>1, <2>1, <2>2 DEF NewAt
<1> QED BY <1>3, <1>5

-----------------------------------------------------------------------------
(* Where what is under way comes from.                                     *)

\* t writes the last chunk of its request.
Sends(t) == (WriteMessage(t) /\ req[t].kind # "write") \/ WriteData(t)

LEMMA WriteKeeps ==
  ASSUME TypeOK, SlotOwners, NEW t \in Callers, WriteMessage(t) \/ WriteData(t)
  PROVE  /\ pc[t] \in {"write", "data"} /\ Holds(t)
         /\ tag[t] \in Tags /\ req[t] \in Requests
         /\ Len(c2s') = Len(c2s) + 1 /\ \A i \in 1 .. Len(c2s) : c2s'[i] = c2s[i]
         /\ c2s'[Len(c2s) + 1].tag = tag[t] /\ c2s'[Len(c2s) + 1].req = req[t]
         /\ c2s'[Len(c2s) + 1].last <=> Sends(t)
         /\ UNCHANGED <<pending, queue, closed, tag, req>>
         /\ Sends(t) => pc'[t] = "tagged"
         /\ ~Sends(t) => pc'[t] = "data"
<1>1. /\ pc[t] \in {"write", "data"}
      /\ UNCHANGED <<pending, queue, closed, tag, req>>
  BY DEF WriteMessage, WriteData
<1>2. Holds(t) BY <1>1 DEF Holds
<1>3. tag[t] \in Tags /\ req[t] \in Requests
  BY <1>1, <1>2 DEF SlotOwners, OwnedSlot, TypeOK, CallerType
<1>4. PICK last \in BOOLEAN :
        /\ c2s' = Append(c2s, [tag |-> tag[t], req |-> req[t], last |-> last])
        /\ last <=> Sends(t)
  <2>1. CASE WriteMessage(t)
    <3>1. c2s' = Append(c2s, [tag |-> tag[t], req |-> req[t],
                              last |-> ~(req[t].kind = "write")])
      BY <2>1 DEF WriteMessage
    <3>2. ~(req[t].kind = "write") <=> Sends(t)
      BY <2>1 DEF Sends, WriteMessage, WriteData
    <3> QED BY <3>1, <3>2
  <2>2. CASE WriteData(t)
    <3>1. c2s' = Append(c2s, [tag |-> tag[t], req |-> req[t], last |-> TRUE])
      BY <2>2 DEF WriteData
    <3> QED BY <2>2, <3>1 DEF Sends
  <2> QED BY <2>1, <2>2
<1> DEFINE e == [tag |-> tag[t], req |-> req[t], last |-> last]
<1>5. e \in [tag: Tags, req: Requests, last: BOOLEAN] BY <1>3
<1>6. e.tag = tag[t] /\ e.req = req[t] /\ (e.last <=> last) OBVIOUS
<1>7. c2s' = Append(c2s, e) BY <1>4
<1> HIDE DEF e
<1>8. /\ Len(c2s') = Len(c2s) + 1 /\ \A i \in 1 .. Len(c2s) : c2s'[i] = c2s[i]
      /\ c2s'[Len(c2s) + 1] = e
  BY <1>5, <1>7, AppendProperties DEF TypeOK, NetType
<1>9. IF Sends(t) THEN pc'[t] = "tagged" ELSE pc'[t] = "data"
  BY DEF Sends, WriteMessage, WriteData, TypeOK, CallerType
<1> QED BY <1>1, <1>2, <1>3, <1>4, <1>6, <1>8, <1>9

LEMMA ServerRecvKeeps ==
  ASSUME TypeOK, ServerRecv
  PROVE  /\ Len(c2s) >= 1 /\ Len(c2s') = Len(c2s) - 1
         /\ \A i \in 1 .. Len(c2s') : c2s'[i] = c2s[i + 1]
         /\ \A p \in pending' : \/ p \in pending
                                \/ c2s[1].last /\ p.tag = c2s[1].tag /\ p.req = c2s[1].req
         /\ UNCHANGED <<queue, callerVars, closed>>
<1>1. c2s \in Seq([tag: Tags, req: Requests, last: BOOLEAN]) BY DEF TypeOK, NetType
<1>2. /\ Len(c2s) \in Nat \ {0} /\ Len(Tail(c2s)) = Len(c2s) - 1
      /\ \A i \in 1 .. Len(Tail(c2s)) : Tail(c2s)[i] = c2s[i + 1]
      /\ Head(c2s) = c2s[1]
  BY <1>1, HeadTailProperties, EmptySeq, LenProperties DEF ServerRecv
<1>3. c2s' = Tail(c2s) /\ UNCHANGED <<queue, callerVars, closed>>
  BY DEF ServerRecv, structVars
<1>4. ASSUME NEW p \in pending', p \notin pending
      PROVE  c2s[1].last /\ p.tag = c2s[1].tag /\ p.req = c2s[1].req
  BY <1>2, <1>4 DEF ServerRecv
<1> QED BY <1>2, <1>3, <1>4

\* A request gets under way when its last chunk is written, and gets a tag that is
\* none when the server answers it so.
LEMMA WayStep ==
  ASSUME TypeOK, SlotOwners, HandInv, Next, "duplicate" \notin Faults,
         NEW k, NEW r \in Requests, UnderWay(k, r)'
  PROVE  \/ UnderWay(k, r) \/ (k = QUEUE_SIZE /\ \E j \in Tags : UnderWay(j, r))
         \/ \E t \in Callers : Sends(t) /\ tag[t] = k /\ req[t] = r
<1> DEFINE L == Len(Stream)
           Ln == Len(Stream')
<1>0. L \in Nat /\ Len(c2s) \in Nat BY StreamType, WayTypes
<1>1. ASSUME UNCHANGED c2s, ToServer(k, r)' PROVE UnderWay(k, r)
  BY <1>1 DEF ToServer, UnderWay
<1>2. ASSUME UNCHANGED pending, AtServer(k, r)' PROVE UnderWay(k, r)
  BY <1>2 DEF AtServer, UnderWay
<1>3. ASSUME rmsg' \in {rmsg, NONE}, InHand(k, r)' PROVE UnderWay(k, r)
  BY <1>3 DEF InHand, UnderWay
<1>4. ASSUME StreamKept, OnItsWay(k, r)' PROVE UnderWay(k, r)
  BY <1>4 DEF OnItsWay, UnderWay, StreamKept, Places
<1>5. CASE Quiet /\ UNCHANGED <<c2s, pending>>
  BY <1>1, <1>2, <1>3, <1>4, <1>5 DEF UnderWay, Quiet
<1>6. ASSUME NEW t \in Callers, WriteMessage(t) \/ WriteData(t), Quiet
      PROVE  UnderWay(k, r) \/ (Sends(t) /\ tag[t] = k /\ req[t] = r)
  <2>1. /\ Len(c2s') = Len(c2s) + 1 /\ \A i \in 1 .. Len(c2s) : c2s'[i] = c2s[i]
        /\ c2s'[Len(c2s) + 1].tag = tag[t] /\ c2s'[Len(c2s) + 1].req = req[t]
        /\ c2s'[Len(c2s) + 1].last => Sends(t)
        /\ UNCHANGED pending
    BY <1>6, WriteKeeps
  <2>2. ASSUME ToServer(k, r)' PROVE UnderWay(k, r) \/ (Sends(t) /\ tag[t] = k /\ req[t] = r)
    <3>1. PICK i \in 1 .. Len(c2s') : c2s'[i].last /\ c2s'[i].tag = k /\ c2s'[i].req = r
      BY <2>2 DEF ToServer
    <3>2. CASE i = Len(c2s) + 1 BY <2>1, <3>1, <3>2
    <3>3. CASE i # Len(c2s) + 1
      <4>1. i \in 1 .. Len(c2s) BY <1>0, <2>1, <3>3
      <4> QED BY <2>1, <3>1, <4>1 DEF ToServer, UnderWay
    <3> QED BY <3>2, <3>3
  <2> QED BY <1>2, <1>3, <1>4, <1>6, <2>1, <2>2 DEF UnderWay, Quiet
<1>7. CASE Quiet /\ ServerRecv
  <2>1. /\ Len(c2s) >= 1 /\ Len(c2s') = Len(c2s) - 1
        /\ \A i \in 1 .. Len(c2s') : c2s'[i] = c2s[i + 1]
        /\ \A p \in pending' : \/ p \in pending
                               \/ c2s[1].last /\ p.tag = c2s[1].tag /\ p.req = c2s[1].req
    BY <1>7, ServerRecvKeeps
  <2>2. ASSUME ToServer(k, r)' PROVE UnderWay(k, r)
    <3>1. PICK i \in 1 .. Len(c2s') : c2s'[i].last /\ c2s'[i].tag = k /\ c2s'[i].req = r
      BY <2>2 DEF ToServer
    <3>2. i + 1 \in 1 .. Len(c2s) BY <1>0, <2>1
    <3> QED BY <2>1, <3>1, <3>2 DEF ToServer, UnderWay
  <2>3. ASSUME AtServer(k, r)' PROVE UnderWay(k, r)
    <3>1. 1 \in 1 .. Len(c2s) BY <1>0, <2>1
    <3> QED BY <2>1, <2>3, <3>1 DEF AtServer, ToServer, UnderWay
  <2> QED BY <1>3, <1>4, <1>7, <2>2, <2>3 DEF UnderWay, Quiet
<1>8. CASE Moves
  <2>1. rmsg' \in {rmsg, NONE} /\ StreamKept /\ UNCHANGED <<c2s, pending>>
    BY <1>8 DEF Moves
  <2> QED BY <1>1, <1>2, <1>3, <1>4, <2>1 DEF UnderWay
<1>9. CASE Reads
  <2>1. /\ UNCHANGED <<c2s, pending>> /\ rmsg' \in {rmsg, Stream[1]}
        /\ L >= 1 /\ Ln = L - 1 /\ \A i \in 1 .. Ln : Stream'[i] = Stream[i + 1]
    BY <1>9 DEF Reads, StreamRead
  <2> HIDE DEF L, Ln
  <2>2. ASSUME InHand(k, r)' PROVE UnderWay(k, r)
    <3>1. 1 \in 1 .. L BY <1>0, <2>1
    <3>2. CASE rmsg' = rmsg BY <2>2, <3>2 DEF InHand, UnderWay
    <3>3. CASE rmsg' = Stream[1]
      BY <2>2, <3>1, <3>3 DEF InHand, OnItsWay, UnderWay, Places, L
    <3> QED BY <2>1, <3>2, <3>3
  <2>3. ASSUME OnItsWay(k, r)' PROVE UnderWay(k, r)
    <3>1. PICK i \in 1 .. Ln : Stream'[i].tag = k /\ Stream'[i].req = r
      BY <2>3 DEF OnItsWay, Places, Ln
    <3>2. i + 1 \in 1 .. L BY <1>0, <2>1
    <3> QED BY <2>1, <3>1, <3>2 DEF OnItsWay, UnderWay, Places, L
  <2> QED BY <1>1, <1>2, <2>1, <2>2, <2>3 DEF UnderWay
<1>10. CASE Cuts
  <2>1. c2s' = << >> /\ pending' = {} /\ UNCHANGED rmsg
        /\ Ln \in Nat /\ Ln <= L /\ \A i \in 1 .. Ln : Stream'[i] = Stream[i]
    BY <1>10 DEF Cuts, StreamCut
  <2>2. ~ToServer(k, r)' /\ ~AtServer(k, r)' BY <2>1 DEF ToServer, AtServer
  <2> HIDE DEF L, Ln
  <2>3. ASSUME OnItsWay(k, r)' PROVE UnderWay(k, r)
    <3>1. PICK i \in 1 .. Ln : Stream'[i].tag = k /\ Stream'[i].req = r
      BY <2>3 DEF OnItsWay, Places, Ln
    <3>2. i \in 1 .. L BY <1>0, <2>1
    <3> QED BY <2>1, <3>1, <3>2 DEF OnItsWay, UnderWay, Places, L
  <2> QED BY <1>3, <2>1, <2>2, <2>3 DEF UnderWay
<1>11. ASSUME NEW p \in pending, NEW m \in Messages, Answers(p, m)
       PROVE  UnderWay(k, r) \/ (k = QUEUE_SIZE /\ \E j \in Tags : UnderWay(j, r))
  <2> DEFINE c == Chunks(m)
  <2>1. /\ UNCHANGED <<c2s, rmsg>> /\ pending' = pending \ {p} /\ m.part = "header"
        /\ m.req = p.req /\ m.tag \in {p.tag, QUEUE_SIZE}
        /\ Ln = L + Len(c)
        /\ \A i \in 1 .. L : Stream'[i] = Stream[i]
        /\ \A i \in 1 .. Len(c) : Stream'[L + i] = c[i]
    BY <1>11 DEF Answers, StreamGrows, Places
  <2>2. /\ Len(c) \in {2, 3}
        /\ \A i \in 1 .. Len(c) : c[i].tag = m.tag /\ c[i].req = m.req
    BY <2>1, ChunksOf
  <2>3. AtServer(k, r)' => UnderWay(k, r) BY <2>1 DEF AtServer, UnderWay
  <2>4. UnderWay(p.tag, p.req) /\ p.tag \in Tags BY WayTypes DEF AtServer, UnderWay
  <2> HIDE DEF L, Ln, c
  <2>5. ASSUME OnItsWay(k, r)'
        PROVE  UnderWay(k, r) \/ (k = QUEUE_SIZE /\ \E j \in Tags : UnderWay(j, r))
    <3>1. PICK i \in 1 .. Ln : Stream'[i].tag = k /\ Stream'[i].req = r
      BY <2>5 DEF OnItsWay, Places, Ln
    <3>2. CASE i <= L
      <4>1. i \in 1 .. L BY <1>0, <3>2
      <4> QED BY <2>1, <3>1, <4>1 DEF OnItsWay, UnderWay, Places, L
    <3>3. CASE i > L
      <4>1. i - L \in 1 .. Len(c) /\ L + (i - L) = i BY <1>0, <2>1, <2>2, <3>3
      <4>2. Stream'[i] = c[i - L] BY <2>1, <4>1
      <4>3. m.tag = k /\ m.req = r BY <2>2, <3>1, <4>1, <4>2
      <4> QED BY <2>1, <2>4, <4>3
    <3> QED BY <1>0, <3>2, <3>3
  <2> QED BY <1>1, <1>3, <2>1, <2>3, <2>5 DEF UnderWay
<1> QED BY <1>5, <1>6, <1>7, <1>8, <1>9, <1>10, <1>11, WayKinds

-----------------------------------------------------------------------------
(* What is under way stays owed to its slot.                               *)

\* A request gets out when its last chunk is written.
LEMMA OutStep ==
  ASSUME TypeOK, SlotOwners, HandInv, Next, "duplicate" \notin Faults,
         NEW r \in Requests, Out(r)'
  PROVE  Out(r) \/ \E t \in Callers : Sends(t) /\ req[t] = r
<1>1. PICK k : UnderWay(k, r)'
  <2>1. CASE SockReq(r)' BY <2>1 DEF SockReq, ToServer, UnderWay
  <2>2. CASE ServerReq(r)' BY <2>2 DEF ServerReq, AtServer, UnderWay
  <2>3. CASE WireReq(r)' BY <2>3 DEF WireReq, InHand, OnItsWay, UnderWay
  <2> QED BY <2>1, <2>2, <2>3 DEF Out
<1>2. \A j : UnderWay(j, r) => Out(r)
  BY DEF UnderWay, ToServer, AtServer, InHand, OnItsWay, Out, SockReq, ServerReq, WireReq
<1> QED BY <1>1, <1>2, WayStep

\* A sender that has not written all of its request has nothing out.
LEMMA WriterAlone ==
  ASSUME TypeOK, NewestInv, FreshInv, NEW t \in Callers, Early(t)
  PROVE  ~Out(req[t])
<1>1. req[t] \in Requests BY DEF Early, TypeOK, CallerType
<1>2. req[t].by = t /\ req[t].seq = nreq[t] BY DEF Early, NewestInv
<1>3. nreq[t] \in 0 .. MaxReqs BY DEF TypeOK, CallerType
<1>4. ~(nreq[t] < nreq[t]) BY <1>3, BoundAssumption
<1> QED BY <1>1, <1>2, <1>4 DEF FreshInv

\* recv_thread stores what is owed.
LEMMA StoresOwed ==
  ASSUME TypeOK, FlightInv, Stores
  PROVE  Owed(q, rmsg.req)
<1>1. q \in Tags /\ q = rmsg.tag /\ rmsg.req \in Requests /\ rmsg # NONE
  BY StoresTag DEF Stores
<1>2. UnderWay(q, rmsg.req) BY <1>1 DEF UnderWay, InHand
<1> QED BY <1>1, <1>2 DEF FlightInv

LEMMA FlightStep ==
  ASSUME TypeOK, SlotOwners, FramesInv, FlightInv, OnceInv, CleanInv,
         WriterInv, Next,
         "duplicate" \notin Faults
  PROVE  FlightInv'
<1> SUFFICES ASSUME NEW k \in Tags, NEW r \in Requests, UnderWay(k, r)'
             PROVE  Owed(k, r)'
  BY DEF FlightInv
<1>1. CASE UnderWay(k, r)
  <2>1. Owed(k, r) BY <1>1 DEF FlightInv
  <2>2. ASSUME Stores, Owned(k), k = q PROVE FALSE
    <3>1. Owed(q, rmsg.req) BY <2>2, StoresOwed
    <3>2. rmsg.req = r BY <2>1, <2>2, <3>1 DEF Owed, Owned
    <3>3. ~SockReq(r) /\ ~ServerReq(r) /\ \A j \in Places : Stream[j].req # r
      BY <2>2, <3>2, NoneLeft
    <3>4. rmsg' = NONE /\ UNCHANGED <<c2s, pending, s2c, srv_out>>
      BY <2>2 DEF Stores, PutReply, netVars
    <3>5. StreamKept BY <3>4, KeptWhen
    <3>6. ~InHand(k, r)' BY <3>4 DEF InHand
    <3>7. ~ToServer(k, r)' BY <3>3, <3>4 DEF ToServer, SockReq
    <3>8. ~AtServer(k, r)' BY <3>3, <3>4 DEF AtServer, ServerReq
    <3>9. ~OnItsWay(k, r)' BY <3>3, <3>5 DEF OnItsWay, StreamKept, Places
    <3> QED BY <3>6, <3>7, <3>8, <3>9 DEF UnderWay
  <2> QED BY <2>1, <2>2, OwedStep
<1>2. ASSUME NEW t \in Callers, Sends(t), tag[t] = k, req[t] = r PROVE Owed(k, r)'
  <2>0. WriteMessage(t) \/ WriteData(t) BY <1>2 DEF Sends
  <2>1. /\ pc[t] \in {"write", "data"} /\ Holds(t) /\ pc'[t] = "tagged"
        /\ UNCHANGED <<queue, closed, tag, req>>
    BY <1>2, <2>0, WriteKeeps
  <2>2. \A u \in Callers \ {t} : pc'[u] = pc[u]
    BY <2>0 DEF WriteMessage, WriteData, TypeOK, CallerType
  <2>3. Awaits(t, k)' BY <1>2, <2>1 DEF Awaits
  <2>4. ASSUME NEW u \in Callers, Holds(u)', tag'[u] = k PROVE Awaits(u, k)' /\ req'[u] = r
    <3>1. CASE u = t BY <1>2, <2>1, <2>3, <3>1
    <3>2. CASE u # t
      <4>1. Holds(u) /\ tag[u] = tag[t]
        BY <1>2, <2>1, <2>2, <2>4, <3>2 DEF Holds
      <4> QED BY <2>1, <3>2, <4>1 DEF SlotOwners
    <3> QED BY <3>1, <3>2
  <2>5. queue'[k].reply = NONE BY <1>2, <2>1 DEF CleanInv, WriterInv
  <2> QED BY <2>3, <2>4, <2>5 DEF Owed
<1>3. HandInv /\ k # QUEUE_SIZE BY SlotAssumption DEF FramesInv, Tags
<1> QED BY <1>1, <1>2, <1>3, WayStep

LEMMA CleanStep ==
  ASSUME TypeOK, SlotOwners, RepliesMatch, FlightInv, CleanInv, Next
  PROVE  CleanInv'
<1> USE DEF TypeOK
<1> SUFFICES ASSUME NEW u \in Callers, pc'[u] \in {"write", "data"}, ~closed'
             PROVE  queue'[tag'[u]].reply = NONE
  BY DEF CleanInv
<1> DEFINE Goal == queue'[tag'[u]].reply = NONE
<1>1. ASSUME NEW t \in Callers,
             Call(t) \/ SendBlock(t) \/ SendClosed(t) \/ WaitBadTag(t) \/ WaitBlock(t)
      PROVE  Goal
  <2>1. UNCHANGED <<queue, closed>>
    BY <1>1 DEF Call, SendBlock, SendClosed, WaitBadTag, WaitBlock, structVars
  <2>2. u # t
    BY <1>1 DEF Call, SendBlock, SendClosed, WaitBadTag, WaitBlock, Return, CallerType
  <2>3. pc'[u] = pc[u] /\ tag'[u] = tag[u]
    BY <1>1, <2>2 DEF Call, SendBlock, SendClosed, WaitBadTag, WaitBlock, Return, CallerType
  <2> QED BY <2>1, <2>3 DEF CleanInv
<1>2. ASSUME NEW t \in Callers, SendTooBig(t) \/ SendTake(t)
      PROVE  Goal
  <2>1. ~closed BY <1>2 DEF SendTooBig, SendTake
  <2>2. FirstFree \in Tags /\ ~queue[FirstFree].in_use
    BY <1>2, FirstFreeIsFree DEF SendTooBig, SendTake
  <2>3. queue[FirstFree].reply = NONE BY <2>1, <2>2 DEF RepliesMatch
  <2>4. tag' = [tag EXCEPT ![t] = FirstFree] BY <1>2 DEF SendTooBig, SendTake
  <2>5. CASE u # t
    <3>1. pc'[u] = pc[u] /\ tag'[u] = tag[u]
      BY <1>2, <2>4, <2>5 DEF SendTooBig, SendTake, CallerType
    <3>2. tag[u] \in Tags /\ tag[u] # FirstFree
      BY <2>2, <3>1 DEF Holds, SlotOwners, OwnedSlot
    <3>3. queue'[tag[u]] = queue[tag[u]]
      BY <1>2, <2>2, <3>2 DEF SendTooBig, SendTake, StructType
    <3> QED BY <2>1, <3>1, <3>3 DEF CleanInv
  <2>6. CASE u = t
    <3>1. SendTake(t) BY <1>2, <2>6 DEF SendTooBig, CallerType
    <3>2. queue'[FirstFree] = TakeSlot(FirstFree, t)
      BY <2>2, <3>1 DEF SendTake, StructType
    <3>3. TakeSlot(FirstFree, t).reply = NONE
      BY <2>2, <2>3 DEF TakeSlot, StructType, Slots
    <3>4. tag'[u] = FirstFree BY <2>4, <2>6 DEF CallerType
    <3> QED BY <3>2, <3>3, <3>4
  <2> QED BY <2>5, <2>6
<1>3. ASSUME NEW t \in Callers, WriteMessage(t) \/ WriteData(t)
      PROVE  Goal
  <2>1. UNCHANGED <<queue, closed, tag>> /\ pc[t] \in {"write", "data"}
    BY <1>3, WriteKeeps
  <2>2. \A v \in Callers \ {t} : pc'[v] = pc[v]
    BY <1>3 DEF WriteMessage, WriteData, CallerType
  <2>3. pc[u] \in {"write", "data"} BY <2>1, <2>2
  <2> QED BY <2>1, <2>3 DEF CleanInv
<1>4. ASSUME NEW t \in Callers, WriteFails(t) \/ WaitTake(t) \/ PollTake(t)
      PROVE  Goal
  <2>1. /\ closed' = closed /\ queue' = [queue EXCEPT ![tag[t]] = EmptySlot]
        /\ tag' = [tag EXCEPT ![t] = -1]
    BY <1>4 DEF WriteFails, WaitTake, PollTake, Return
  <2>2. u # t
    BY <1>4 DEF WriteFails, WaitTake, PollTake, Return, CallerType
  <2>3. pc'[u] = pc[u] /\ tag'[u] = tag[u]
    BY <1>4, <2>2 DEF WriteFails, WaitTake, PollTake, Return, CallerType
  <2>4. queue[tag[u]].reply = NONE /\ tag[u] \in Tags
    BY <2>1, <2>3 DEF CleanInv, Holds, SlotOwners, OwnedSlot
  <2>5. EmptySlot.reply = NONE BY DEF EmptySlot
  <2>6. queue'[tag[u]] \in {EmptySlot, queue[tag[u]]}
    BY <2>1, <2>4 DEF StructType
  <2> QED BY <2>3, <2>4, <2>5, <2>6
<1>5. CASE Stores
  <2>1. UNCHANGED callerVars /\ closed' = closed BY <1>5 DEF Stores, PutReply
  <2>2. pc[u] \in {"write", "data"} /\ tag'[u] = tag[u] BY <2>1 DEF callerVars
  <2>3. Holds(u) /\ tag[u] \in Tags BY <2>2 DEF Holds, SlotOwners, OwnedSlot
  <2>4. q \in Tags /\ rmsg # NONE BY <1>5, StoresTag DEF Stores
  <2>5. tag[u] # q
    <3>1. Owed(q, rmsg.req) BY <1>5, StoresOwed
    <3>2. ~Awaits(u, q) BY <2>2 DEF Awaits
    <3> QED BY <2>1, <2>3, <2>4, <3>1, <3>2, OwedOwner
  <2>6. queue'[tag[u]] = queue[tag[u]]
    BY <1>5, <2>3, <2>5 DEF Stores, PutReply, StructType
  <2> QED BY <2>1, <2>2, <2>6 DEF CleanInv
<1>6. CASE UNCHANGED <<queue, callerVars>> /\ (closed => closed')
  BY <1>6 DEF CleanInv, callerVars
<1> QED BY <1>1, <1>2, <1>3, <1>4, <1>5, <1>6, StepKinds

-----------------------------------------------------------------------------
(* Who writes, which request is the newest, and what is lost for good.     *)

LEMMA WriterStep ==
  ASSUME TypeOK, WriterInv, Next
  PROVE  WriterInv'
<1> USE DEF TypeOK
<1>a. \A t \in Callers : t # NONE BY ThreadAssumption
<1> SUFFICES ASSUME NEW u \in Callers, pc'[u] \in {"write", "data"}
             PROVE  mtx' = u /\ ~closed'
  BY DEF WriterInv
<1>1. ASSUME NEW t \in Callers, Call(t) \/ SendBlock(t) \/ SendClosed(t) \/ SendTooBig(t)
                                 \/ WaitStep(t) \/ UseAfterFree(t)
      PROVE  mtx' = u /\ ~closed'
  <2>1. /\ UNCHANGED <<mtx, closed>> /\ \A v \in Callers \ {t} : pc'[v] = pc[v]
        /\ pc'[t] \notin {"write", "data"} \/ pc'[t] = pc[t]
    BY <1>1 DEF Call, SendBlock, SendClosed, SendTooBig, WaitStep, WaitBadTag, WaitBlock,
       WaitTake, PollTake, Return, UseAfterFree, structVars, callerVars, CallerType
  <2> QED BY <2>1 DEF WriterInv
<1>2. ASSUME NEW t \in Callers, SendTake(t)
      PROVE  mtx' = u /\ ~closed'
  <2>1. /\ mtx = NONE /\ mtx' = t /\ ~closed'
        /\ \A v \in Callers \ {t} : pc'[v] = pc[v]
    BY <1>2 DEF SendTake, Locks, CallerType
  <2> QED BY <1>a, <2>1 DEF WriterInv
<1>3. ASSUME NEW t \in Callers, WriteMessage(t) \/ WriteData(t) \/ WriteFails(t)
      PROVE  mtx' = u /\ ~closed'
  <2>1. /\ pc[t] \in {"write", "data"} /\ closed' = closed
        /\ \A v \in Callers \ {t} : pc'[v] = pc[v]
        /\ pc'[t] \notin {"write", "data"} \/ mtx' = mtx
    BY <1>3 DEF WriteMessage, WriteData, WriteFails, CallerType
  <2>2. u = t BY <2>1 DEF WriterInv
  <2> QED BY <2>1, <2>2 DEF WriterInv
<1>4. CASE CloseBegin
  <2>1. mtx = NONE /\ pc' = pc BY <1>4 DEF CloseBegin, Locks, callerVars
  <2> QED BY <1>a, <2>1 DEF WriterInv
<1>5. CASE CloseStep \/ ServerStep \/ ServerFault \/ Disconnect \/ Terminated
  <2>1. UNCHANGED <<mtx, closed, pc>>
    BY <1>5 DEF CloseStep, CloseBlock, CloseFree, ServerStep, ServerRecv, ServerReply,
       ServerWrite, ServerFault, Disconnect, Terminated, vars, structVars, callerVars
  <2> QED BY <2>1 DEF WriterInv
<1>6. CASE RecvStep
  <2>1. UNCHANGED <<mtx, pc>> /\ (closed' = closed \/ mtx = NONE)
    <3>1. CASE RecvExit /\ Locks("recv") BY <3>1 DEF RecvExit, Locks, callerVars
    <3>2. CASE RecvIdle BY <3>2 DEF RecvIdle, callerVars
    <3>3. CASE \E l \in {"header", "body", "arg"} : RecvGoto(l)
      BY <3>3 DEF RecvGoto, structVars, callerVars
    <3>4. CASE RecvHeader \/ RecvBody \/ RecvAbort \/ RecvArg \/ RecvData
      BY <3>4 DEF RecvHeader, RecvBody, RecvAbort, RecvArg, RecvData, structVars, callerVars
    <3>5. CASE PutReply BY <3>5 DEF PutReply, callerVars
    <3> QED BY <1>6, <3>1, <3>2, <3>3, <3>4, <3>5 DEF RecvStep, RecvStart, RecvClosed,
          RecvCheck, RecvStore, RecvStored
  <2> QED BY <1>a, <2>1 DEF WriterInv
<1> QED BY <1>1, <1>2, <1>3, <1>4, <1>5, <1>6 DEF Next, SendStep

\* Only a call changes a request and its number, and begins something early.
LEMMA CallKinds ==
  ASSUME TypeOK, Next
  PROVE  \/ \E t \in Callers : Call(t)
         \/ /\ UNCHANGED <<req, nreq>>
            /\ \A u \in Callers : /\ Early(u)' => Early(u)
                                  /\ pc'[u] # "idle" => pc[u] # "idle"
<1> USE DEF TypeOK, CallerType
<1> DEFINE Rest == /\ UNCHANGED <<req, nreq>>
                   /\ \A u \in Callers : /\ Early(u)' => Early(u)
                                         /\ pc'[u] # "idle" => pc[u] # "idle"
<1>1. ASSUME NEW t \in Callers, UNCHANGED <<req, nreq>>,
             \A v \in Callers \ {t} : pc'[v] = pc[v],
             Early(t)' => Early(t), pc'[t] # "idle" => pc[t] # "idle"
      PROVE  Rest
  BY <1>1 DEF Early
<1>2. ASSUME NEW t \in Callers, SendBlock(t) \/ SendClosed(t) \/ SendTooBig(t) \/ SendTake(t)
      PROVE  Rest
  BY <1>1, <1>2 DEF SendBlock, SendClosed, SendTooBig, SendTake, Early
<1>3. ASSUME NEW t \in Callers, WriteMessage(t) \/ WriteData(t) \/ WriteFails(t)
      PROVE  Rest
  BY <1>1, <1>3 DEF WriteMessage, WriteData, WriteFails, Early
<1>4. ASSUME NEW t \in Callers, WaitBadTag(t) \/ WaitBlock(t) \/ WaitTake(t) \/ PollTake(t)
      PROVE  Rest
  BY <1>1, <1>4 DEF WaitBadTag, WaitBlock, WaitTake, PollTake, Return, Early
<1>5. CASE UNCHANGED callerVars BY <1>5 DEF callerVars, Early
<1>6. CASE Stores BY <1>5, <1>6 DEF Stores, PutReply
<1> QED BY <1>2, <1>3, <1>4, <1>5, <1>6, StepKinds

LEMMA NewestStep ==
  ASSUME TypeOK, NewestInv, Next
  PROVE  NewestInv'
<1>1. ASSUME NEW t \in Callers, Call(t) PROVE NewestInv'
  <2>1. PICK kind \in AllKinds, size \in Sizes :
          req' = [req EXCEPT ![t] = [by |-> t, seq |-> nreq[t] + 1,
                                     kind |-> kind, size |-> size]]
    BY <1>1 DEF Call
  <2>2. nreq' = [nreq EXCEPT ![t] = @ + 1] /\ \A u \in Callers \ {t} : pc'[u] = pc[u]
    BY <1>1 DEF Call, TypeOK, CallerType
  <2>3. /\ req'[t].by = t /\ req'[t].seq = nreq[t] + 1 /\ nreq'[t] = nreq[t] + 1
        /\ \A u \in Callers \ {t} : req'[u] = req[u] /\ nreq'[u] = nreq[u]
    BY <2>1, <2>2 DEF TypeOK, CallerType
  <2> QED BY <2>2, <2>3 DEF NewestInv
<1>2. CASE /\ UNCHANGED <<req, nreq>>
           /\ \A u \in Callers : pc'[u] # "idle" => pc[u] # "idle"
  BY <1>2 DEF NewestInv
<1> QED BY <1>1, <1>2, CallKinds

LEMMA FreshStep ==
  ASSUME TypeOK, SlotOwners, HandInv, NewestInv, FreshInv, Next, "duplicate" \notin Faults
  PROVE  FreshInv'
<1> SUFFICES ASSUME NEW r \in Requests, Out(r)'
             PROVE  r.seq <= nreq'[r.by] /\ (Early(r.by)' => r.seq < nreq'[r.by])
  BY DEF FreshInv
<1>0. r.by \in Callers /\ r.seq \in Nat /\ nreq[r.by] \in Nat
  <2>1. r.by \in Callers /\ r.seq \in 1 .. MaxReqs BY DEF Requests
  <2>2. nreq[r.by] \in 0 .. MaxReqs BY <2>1 DEF TypeOK, CallerType
  <2> QED BY <2>1, <2>2, BoundAssumption
<1>1. ASSUME NEW t \in Callers, Sends(t), req[t] = r
      PROVE  r.seq <= nreq'[r.by] /\ (Early(r.by)' => r.seq < nreq'[r.by])
  <2>1. WriteMessage(t) \/ WriteData(t) BY <1>1 DEF Sends
  <2>2. pc[t] \in {"write", "data"} /\ pc'[t] = "tagged" BY <1>1, <2>1, WriteKeeps
  <2>3. nreq' = nreq BY <2>1 DEF WriteMessage, WriteData
  <2>4. r.by = t /\ r.seq = nreq[t] BY <1>1, <2>2 DEF NewestInv
  <2>5. ~Early(r.by)' BY <2>2, <2>4 DEF Early
  <2>6. r.seq <= nreq'[r.by]
    <3>1. r.seq = nreq'[r.by] BY <2>3, <2>4
    <3> QED BY <1>0, <3>1
  <2> QED BY <2>5, <2>6
<1>2. ASSUME Out(r) PROVE r.seq <= nreq'[r.by] /\ (Early(r.by)' => r.seq < nreq'[r.by])
  <2>1. r.seq <= nreq[r.by] /\ (Early(r.by) => r.seq < nreq[r.by]) BY <1>2 DEF FreshInv
  <2>2. ASSUME NEW t \in Callers, Call(t)
        PROVE  r.seq <= nreq'[r.by] /\ (Early(r.by)' => r.seq < nreq'[r.by])
    <3>1. /\ nreq' = [nreq EXCEPT ![t] = @ + 1]
          /\ \A u \in Callers \ {t} : pc'[u] = pc[u]
      BY <2>2 DEF Call, TypeOK, CallerType
    <3>2. CASE r.by = t
      <4>1. nreq'[r.by] = nreq[r.by] + 1 BY <3>1, <3>2 DEF TypeOK, CallerType
      <4> QED BY <1>0, <2>1, <4>1
    <3>3. CASE r.by # t
      <4>1. nreq'[r.by] = nreq[r.by] /\ pc'[r.by] = pc[r.by]
        BY <1>0, <3>1, <3>3 DEF TypeOK, CallerType
      <4> QED BY <2>1, <4>1 DEF Early
    <3> QED BY <3>2, <3>3
  <2> QED BY <1>0, <2>1, <2>2, CallKinds
<1> QED BY <1>1, <1>2, OutStep

LEMMA FdStep ==
  ASSUME FdInv, Next
  PROVE  FdInv'
<1>1. ASSUME NEW t \in Callers, WriteFails(t) PROVE FdInv'
  <2>1. /\ eof \/ ~fd_ok
        /\ eof' = eof
    BY <1>1 DEF WriteFails, netVars
  <2> QED BY <2>1 DEF FdInv
<1>2. CASE fd_ok' = fd_ok /\ (eof => eof') BY <1>2 DEF FdInv
<1>3. ASSUME NEW t \in Callers, Call(t) \/ SendBlock(t) \/ SendClosed(t) \/ SendTooBig(t)
        \/ SendTake(t) \/ WriteMessage(t) \/ WriteData(t) \/ WaitStep(t) \/ UseAfterFree(t)
      PROVE  UNCHANGED <<fd_ok, eof>>
  <2>1. CASE Call(t) \/ SendBlock(t) \/ SendClosed(t) \/ UseAfterFree(t)
    BY <2>1 DEF Call, SendBlock, SendClosed, UseAfterFree, structVars, netVars
  <2>2. CASE SendTooBig(t) \/ SendTake(t) \/ WriteMessage(t) \/ WriteData(t)
    BY <2>2 DEF SendTooBig, SendTake, WriteMessage, WriteData, netVars
  <2>3. CASE WaitStep(t)
    BY <2>3 DEF WaitStep, WaitBadTag, WaitBlock, WaitTake, PollTake, structVars, netVars
  <2> QED BY <1>3, <2>1, <2>2, <2>3
<1>4. CASE RecvStep \/ CloseBegin \/ CloseStep \/ ServerStep \/ ServerFault \/ Disconnect
           \/ Terminated
  BY <1>2, <1>4 DEF RecvStep, RecvIdle, RecvStart, RecvClosed, RecvHeader, RecvCheck, RecvBody,
     RecvStore, RecvAbort, RecvArg, RecvData, RecvStored, RecvGoto, RecvExit, PutReply, CloseBegin,
     CloseStep, CloseBlock, CloseFree, ServerStep, ServerRecv, ServerReply, ServerWrite,
     ServerFault, Disconnect, Terminated, vars, structVars, netVars
<1>5. UNCHANGED <<fd_ok, eof>> => FdInv' BY DEF FdInv
<1> QED BY <1>1, <1>3, <1>4, <1>5 DEF Next, SendStep

-----------------------------------------------------------------------------
(* Each request is under way once.                                         *)

LEMMA ClosedStays ==
  ASSUME Next, closed
  PROVE  closed'
<1>1. ASSUME NEW t \in Callers,
             Call(t) \/ SendBlock(t) \/ SendClosed(t) \/ WaitBadTag(t) \/ WaitBlock(t)
      PROVE  closed'
  BY <1>1 DEF Call, SendBlock, SendClosed, WaitBadTag, WaitBlock, structVars
<1>2. ASSUME NEW t \in Callers,
             \/ SendTooBig(t) \/ SendTake(t) \/ WriteMessage(t) \/ WriteData(t)
             \/ WriteFails(t) \/ WaitTake(t) \/ PollTake(t)
      PROVE  closed'
  BY <1>2 DEF SendTooBig, SendTake, WriteMessage, WriteData, WriteFails, WaitTake, PollTake
<1>3. CASE Stores BY <1>3 DEF Stores, PutReply
<1> QED BY <1>1, <1>2, <1>3, StepKinds

LEMMA OnceStep ==
  ASSUME TypeOK, SlotOwners, HandInv, NewestInv, FreshInv, OnceInv, Next,
         "duplicate" \notin Faults
  PROVE  OnceInv'
<1> SUFFICES ApartInv' /\ SockOnceInv' /\ ServerOnceInv' /\ WireOnceInv'
  BY DEF OnceInv
<1> DEFINE L == Len(Stream)
           Ln == Len(Stream')
<1>0. L \in Nat /\ Len(c2s) \in Nat BY StreamType, WayTypes
<1>a. ApartInv /\ SockOnceInv /\ ServerOnceInv /\ WireOnceInv BY DEF OnceInv
<1>1. ASSUME UNCHANGED c2s
      PROVE  SockOnceInv' /\ \A r \in Requests : SockReq(r)' => SockReq(r)
  BY <1>a, <1>1 DEF SockOnceInv, SockReq
<1>2. ASSUME UNCHANGED pending
      PROVE  ServerOnceInv' /\ \A r \in Requests : ServerReq(r)' => ServerReq(r)
  BY <1>a, <1>2 DEF ServerReq, ServerOnceInv
<1>3. ASSUME rmsg' \in {rmsg, NONE}, StreamKept
      PROVE  WireOnceInv' /\ \A r \in Requests : WireReq(r)' => WireReq(r)
  <2>1. Ln = L /\ \A i \in 1 .. L : Stream'[i] = Stream[i] BY <1>3 DEF StreamKept, Places
  <2> HIDE DEF L, Ln
  <2>2. \A r \in Requests : WireReq(r)' => WireReq(r)
    BY <1>3, <2>1 DEF WireReq, Places, L, Ln
  <2>3. ASSUME NEW j \in 1 .. Ln, Stream'[j].part = "header"
        PROVE  NewAt(j)'
    <3>1. j \in 1 .. L /\ Stream'[j] = Stream[j] /\ j \in Nat BY <1>0, <2>1
    <3>2. NewAt(j) BY <1>a, <2>3, <3>1 DEF WireOnceInv, Places, L
    <3>3. \A i \in 1 .. j - 1 : i \in 1 .. L BY <1>0, <3>1
    <3> QED BY <1>3, <2>1, <3>1, <3>2, <3>3 DEF NewAt
  <2>4. WireOnceInv' BY <2>3 DEF WireOnceInv, Places, Ln
  <2> QED BY <2>2, <2>4
<1>4. ASSUME UNCHANGED <<c2s, pending>>, \A r \in Requests : WireReq(r)' => WireReq(r)
      PROVE  ApartInv'
  BY <1>a, <1>1, <1>2, <1>4 DEF ApartInv
<1>5. CASE Quiet /\ UNCHANGED <<c2s, pending>>
  BY <1>1, <1>2, <1>3, <1>4, <1>5 DEF Quiet
<1>6. ASSUME NEW t \in Callers, WriteMessage(t) \/ WriteData(t), Quiet
      PROVE  ApartInv' /\ SockOnceInv' /\ ServerOnceInv' /\ WireOnceInv'
  <2> DEFINE N == Len(c2s)
  <2>1. /\ Len(c2s') = N + 1 /\ \A i \in 1 .. N : c2s'[i] = c2s[i]
        /\ c2s'[N + 1].req = req[t]
        /\ UNCHANGED pending /\ pc[t] \in {"write", "data"}
    BY <1>6, WriteKeeps
  <2>2. ~SockReq(req[t]) /\ ~ServerReq(req[t]) /\ ~WireReq(req[t])
    BY <2>1, WriterAlone DEF Early, Out
  <2>3. WireOnceInv' /\ \A r \in Requests : WireReq(r)' => WireReq(r)
    BY <1>3, <1>6 DEF Quiet
  <2>4. ServerOnceInv' /\ \A r \in Requests : ServerReq(r)' => ServerReq(r) BY <1>2, <2>1
  <2>5. ASSUME NEW r \in Requests, SockReq(r)' PROVE SockReq(r) \/ r = req[t]
    <3>1. PICK i \in 1 .. Len(c2s') : c2s'[i].last /\ c2s'[i].req = r
      BY <2>5 DEF SockReq
    <3>2. CASE i = N + 1 BY <2>1, <3>1, <3>2
    <3>3. CASE i # N + 1
      <4>1. i \in 1 .. N BY <1>0, <2>1, <3>3
      <4> QED BY <2>1, <3>1, <4>1 DEF SockReq
    <3> QED BY <3>2, <3>3
  <2>6. ApartInv' BY <1>a, <2>2, <2>3, <2>4, <2>5 DEF ApartInv
  <2>7. ASSUME NEW i \in 1 .. N, c2s[i].last PROVE c2s[i].req # req[t]
    BY <2>2, <2>7 DEF SockReq
  <2>8. SockOnceInv'
    <3> SUFFICES ASSUME NEW i \in 1 .. Len(c2s'), NEW j \in 1 .. Len(c2s'),
                        c2s'[i].last, c2s'[j].last, c2s'[i].req = c2s'[j].req
                 PROVE  i = j
      BY DEF SockOnceInv
    <3>1. \A l \in 1 .. Len(c2s') : l \in 1 .. N \/ l = N + 1 BY <1>0, <2>1
    <3> HIDE DEF N
    <3>2. CASE i \in 1 .. N /\ j \in 1 .. N
      BY <1>a, <2>1, <3>2 DEF SockOnceInv, N
    <3>3. CASE i \in 1 .. N /\ j = N + 1
      <4>1. c2s'[i] = c2s[i] /\ c2s'[j].req = req[t] BY <2>1, <3>3
      <4> QED BY <2>7, <3>3, <4>1
    <3>4. CASE i = N + 1 /\ j \in 1 .. N
      <4>1. c2s'[j] = c2s[j] /\ c2s'[i].req = req[t] BY <2>1, <3>4
      <4> QED BY <2>7, <3>4, <4>1
    <3> QED BY <3>1, <3>2, <3>3, <3>4
  <2> QED BY <2>3, <2>4, <2>6, <2>8
<1>7. CASE Quiet /\ ServerRecv
  <2> DEFINE N == Len(c2s)
             Nn == Len(c2s')
  <2>1. /\ N >= 1 /\ Nn = N - 1
        /\ \A i \in 1 .. Nn : c2s'[i] = c2s[i + 1]
        /\ \A p \in pending' : p \in pending \/ (c2s[1].last /\ p.tag = c2s[1].tag /\ p.req = c2s[1].req)
    BY <1>7, ServerRecvKeeps
  <2>2. WireOnceInv' /\ \A r \in Requests : WireReq(r)' => WireReq(r)
    BY <1>3, <1>7 DEF Quiet
  <2> HIDE DEF N, Nn
  <2>3. N \in Nat /\ 1 \in 1 .. N BY <1>0, <2>1 DEF N
  <2>4. \A i \in 1 .. Nn : i + 1 \in 1 .. N /\ i + 1 # 1 BY <2>1, <2>3
  <2>5. ASSUME NEW r \in Requests, SockReq(r)'
        PROVE  SockReq(r) /\ ~(c2s[1].last /\ c2s[1].req = r)
    <3>1. PICK i \in 1 .. Nn : c2s'[i].last /\ c2s'[i].req = r BY <2>5 DEF SockReq, Nn
    <3>2. c2s[i + 1].last /\ c2s[i + 1].req = r BY <2>1, <3>1
    <3> QED BY <1>a, <2>3, <2>4, <3>2 DEF SockReq, SockOnceInv, N
  <2>6. ASSUME NEW r \in Requests, ServerReq(r)'
        PROVE  ServerReq(r) \/ (c2s[1].last /\ c2s[1].req = r /\ SockReq(r))
    BY <2>1, <2>3, <2>6 DEF ServerReq, SockReq, N
  <2>7. ApartInv' BY <1>a, <2>2, <2>5, <2>6 DEF ApartInv
  <2>8. SockOnceInv'
    <3> SUFFICES ASSUME NEW i \in 1 .. Nn, NEW j \in 1 .. Nn,
                        c2s'[i].last, c2s'[j].last, c2s'[i].req = c2s'[j].req
                 PROVE  i = j
      BY DEF SockOnceInv, Nn
    <3>1. c2s[i + 1].last /\ c2s[j + 1].last /\ c2s[i + 1].req = c2s[j + 1].req
      BY <2>1
    <3>2. i + 1 = j + 1 BY <1>a, <2>4, <3>1 DEF SockOnceInv, N
    <3> QED BY <3>2
  <2>9. ServerOnceInv'
    <3> SUFFICES ASSUME NEW p \in pending', NEW o \in pending', p.req = o.req PROVE p = o
      BY DEF ServerOnceInv
    <3>1. CASE p \in pending /\ o \in pending BY <1>a, <3>1 DEF ServerOnceInv
    <3>2. CASE p \notin pending \/ o \notin pending
      <4>1. c2s[1].last /\ c2s[1].req = p.req /\ SockReq(p.req)
        BY <2>1, <2>3, <3>2 DEF SockReq, N
      <4>2. p.req \in Requests /\ c2s[1].req \in Requests BY <2>3, <4>1, WayTypes DEF N
      <4>3. ~ServerReq(p.req) BY <1>a, <4>1, <4>2 DEF ApartInv
      <4>4. p \notin pending /\ o \notin pending BY <4>3 DEF ServerReq
      <4>5. p.tag = o.tag BY <2>1, <4>4
      <4>6. pending' \in SUBSET [tag: Tags, req: Requests]
        BY NetTypeStep DEF NetType
      <4> QED BY <4>5, <4>6
    <3> QED BY <3>1, <3>2
  <2> QED BY <2>2, <2>7, <2>8, <2>9
<1>8. CASE Moves
  <2>1. rmsg' \in {rmsg, NONE} /\ StreamKept /\ UNCHANGED <<c2s, pending>>
    BY <1>8 DEF Moves
  <2> QED BY <1>1, <1>2, <1>3, <1>4, <2>1
<1>9. CASE Reads
  <2>1. /\ UNCHANGED <<c2s, pending>> /\ rmsg' \in {rmsg, Stream[1]}
        /\ L >= 1 /\ Ln = L - 1 /\ \A i \in 1 .. Ln : Stream'[i] = Stream[i + 1]
    BY <1>9 DEF Reads, StreamRead
  <2> HIDE DEF L, Ln
  <2>2. 1 \in 1 .. L /\ \A i \in 1 .. Ln : i + 1 \in 1 .. L BY <1>0, <2>1
  <2>3. ASSUME NEW r \in Requests, WireReq(r)' PROVE WireReq(r)
    BY <2>1, <2>2, <2>3 DEF WireReq, Places, L, Ln
  <2>4. ASSUME NEW j \in 1 .. Ln, Stream'[j].part = "header"
        PROVE  NewAt(j)'
    <3>1. Stream'[j] = Stream[j + 1] /\ j + 1 \in 1 .. L /\ j \in Nat BY <2>1, <2>2
    <3>2. NewAt(j + 1) BY <1>a, <2>4, <3>1 DEF WireOnceInv, Places, L
    <3>3. \A i \in 1 .. j + 1 - 1 : Stream[i].req # Stream[j + 1].req BY <3>2 DEF NewAt
    <3>4. ASSUME NEW i \in 1 .. j - 1 PROVE Stream'[i].req # Stream'[j].req
      <4>1. i \in 1 .. Ln /\ i + 1 \in 1 .. j + 1 - 1 BY <1>0, <2>1, <3>1
      <4> QED BY <2>1, <3>1, <3>3, <4>1
    <3>5. 1 \in 1 .. j + 1 - 1 BY <3>1
    <3>6. rmsg' # NONE => rmsg'.req # Stream'[j].req
      BY <2>1, <3>1, <3>2, <3>3, <3>5 DEF NewAt
    <3> QED BY <3>4, <3>6 DEF NewAt
  <2>5. WireOnceInv' BY <2>4 DEF WireOnceInv, Places, Ln
  <2> QED BY <1>1, <1>2, <1>4, <2>1, <2>3, <2>5
<1>10. CASE Cuts
  <2>1. /\ c2s' = << >> /\ pending' = {} /\ UNCHANGED rmsg
        /\ Ln \in Nat /\ Ln <= L /\ \A i \in 1 .. Ln : Stream'[i] = Stream[i]
    BY <1>10 DEF Cuts, StreamCut
  <2> HIDE DEF L, Ln
  <2>2. \A r \in Requests : ~SockReq(r)' /\ ~ServerReq(r)' BY <2>1 DEF SockReq, ServerReq
  <2>3. SockOnceInv' /\ ServerOnceInv' BY <2>1 DEF SockOnceInv, ServerOnceInv
  <2>4. ASSUME NEW j \in 1 .. Ln, Stream'[j].part = "header"
        PROVE  NewAt(j)'
    <3>1. j \in 1 .. L /\ Stream'[j] = Stream[j] BY <1>0, <2>1
    <3>2. NewAt(j) BY <1>a, <2>4, <3>1 DEF WireOnceInv, Places, L
    <3>3. \A i \in 1 .. j - 1 : i \in 1 .. Ln BY <2>1
    <3> QED BY <2>1, <3>1, <3>2, <3>3 DEF NewAt
  <2>5. WireOnceInv' BY <2>4 DEF WireOnceInv, Places, Ln
  <2> QED BY <2>2, <2>3, <2>5 DEF ApartInv
<1>11. ASSUME NEW p \in pending, NEW m \in Messages, Answers(p, m)
       PROVE  ApartInv' /\ SockOnceInv' /\ ServerOnceInv' /\ WireOnceInv'
  <2> DEFINE c == Chunks(m)
  <2>1. /\ UNCHANGED <<c2s, rmsg>> /\ pending' = pending \ {p} /\ m.part = "header"
        /\ m.req = p.req
        /\ Ln = L + Len(c)
        /\ \A i \in 1 .. L : Stream'[i] = Stream[i]
        /\ \A i \in 1 .. Len(c) : Stream'[L + i] = c[i]
    BY <1>11 DEF Answers, StreamGrows, Places
  <2>2. /\ Len(c) \in {2, 3}
        /\ \A i \in 1 .. Len(c) : c[i].req = p.req /\ (c[i].part = "header" => i = 1)
    BY <2>1, ChunksOf
  <2>3. p.req \in Requests BY WayTypes
  <2>4. ServerReq(p.req) /\ ~WireReq(p.req) /\ ~SockReq(p.req)
    BY <1>a, <2>3 DEF ServerReq, ApartInv
  <2>5. ServerOnceInv' /\ ~ServerReq(p.req)'
    BY <1>a, <2>1 DEF ServerOnceInv, ServerReq
  <2> HIDE DEF L, Ln, c
  <2>6. ASSUME NEW i \in 1 .. Ln
        PROVE  \/ i \in 1 .. L /\ Stream'[i] = Stream[i]
               \/ /\ Stream'[i].req = p.req
                  /\ Stream'[i].part = "header" => i = L + 1
    <3>1. CASE i <= L
      <4>1. i \in 1 .. L BY <1>0, <3>1
      <4> QED BY <2>1, <4>1
    <3>2. CASE i > L
      <4>1. i - L \in 1 .. Len(c) /\ L + (i - L) = i BY <1>0, <2>1, <2>2, <3>2
      <4>2. Stream'[i] = c[i - L] BY <2>1, <4>1
      <4>3. i - L = 1 => i = L + 1 BY <1>0
      <4> QED BY <2>2, <4>1, <4>2, <4>3
    <3> QED BY <1>0, <3>1, <3>2
  <2>7. ASSUME NEW r \in Requests, WireReq(r)' PROVE WireReq(r) \/ r = p.req
    BY <2>1, <2>6, <2>7 DEF WireReq, Places, L, Ln
  <2>8. \A r \in Requests : ServerReq(r)' => ServerReq(r) BY <2>1 DEF ServerReq
  <2>9. ApartInv' BY <1>a, <1>1, <2>1, <2>4, <2>5, <2>7, <2>8 DEF ApartInv
  <2>10. ASSUME NEW j \in 1 .. Ln, Stream'[j].part = "header"
         PROVE  NewAt(j)'
    <3>1. CASE j \in 1 .. L /\ Stream'[j] = Stream[j]
      <4>1. NewAt(j) BY <1>a, <2>10, <3>1 DEF WireOnceInv, Places, L
      <4>2. \A i \in 1 .. j - 1 : i \in 1 .. L BY <1>0, <3>1
      <4> QED BY <2>1, <3>1, <4>1, <4>2 DEF NewAt
    <3>2. CASE j = L + 1 /\ Stream'[j].req = p.req
      <4>1. \A i \in 1 .. j - 1 : i \in 1 .. L BY <1>0, <3>2
      <4>2. \A i \in 1 .. L : Stream[i].req # p.req BY <2>4 DEF WireReq, Places, L
      <4>3. rmsg # NONE => rmsg.req # p.req BY <2>4 DEF WireReq
      <4> QED BY <2>1, <3>2, <4>1, <4>2, <4>3 DEF NewAt
    <3> QED BY <2>6, <2>10, <3>1, <3>2
  <2>11. WireOnceInv' BY <2>10 DEF WireOnceInv, Places, Ln
  <2> QED BY <1>1, <2>1, <2>5, <2>9, <2>11
<1> QED BY <1>5, <1>6, <1>7, <1>8, <1>9, <1>10, <1>11, WayKinds

-----------------------------------------------------------------------------
(* The buffer of a read.                                                   *)

LEMMA KindStep ==
  ASSUME TypeOK, HandInv, KindInv, Next, "duplicate" \notin Faults
  PROVE  KindInv'
<1> DEFINE L == Len(Stream)
           Ln == Len(Stream')
           Read9p(m) == m.type = "read" => m.req.kind = "read"
<1>0. L \in Nat BY StreamType
<1>a. (rmsg # NONE => Read9p(rmsg)) /\ \A i \in 1 .. L : Read9p(Stream[i])
  BY DEF KindInv, Places
<1>b. SUFFICES (rmsg' # NONE => Read9p(rmsg')) /\ \A i \in 1 .. Ln : Read9p(Stream'[i])
  BY DEF KindInv, Places
<1> DEFINE Goal == (rmsg' # NONE => Read9p(rmsg')) /\ \A i \in 1 .. Ln : Read9p(Stream'[i])
<1>1. ASSUME StreamKept, rmsg' \in {rmsg, NONE} PROVE Goal
  <2>1. Ln = L /\ \A i \in 1 .. L : Stream'[i] = Stream[i] BY <1>1 DEF StreamKept, Places
  <2> QED BY <1>a, <1>1, <2>1
<1>2. CASE Quiet BY <1>1, <1>2 DEF Quiet
<1>3. CASE Moves BY <1>1, <1>3 DEF Moves
<1>4. CASE Reads
  <2>1. /\ rmsg' \in {rmsg, Stream[1]}
        /\ L >= 1 /\ Ln = L - 1 /\ \A i \in 1 .. Ln : Stream'[i] = Stream[i + 1]
    BY <1>4 DEF Reads, StreamRead
  <2> HIDE DEF L, Ln, Read9p
  <2>2. 1 \in 1 .. L /\ \A i \in 1 .. Ln : i + 1 \in 1 .. L BY <1>0, <2>1
  <2> QED BY <1>a, <2>1, <2>2
<1>5. CASE Cuts
  <2>1. /\ UNCHANGED rmsg
        /\ Ln \in Nat /\ Ln <= L /\ \A i \in 1 .. Ln : Stream'[i] = Stream[i]
    BY <1>5 DEF Cuts, StreamCut
  <2> HIDE DEF L, Ln, Read9p
  <2>2. \A i \in 1 .. Ln : i \in 1 .. L BY <1>0, <2>1
  <2> QED BY <1>a, <2>1, <2>2
<1>6. ASSUME NEW p \in pending, NEW m \in Messages, Answers(p, m) PROVE Goal
  <2> DEFINE c == Chunks(m)
  <2>1. /\ UNCHANGED rmsg /\ m.part = "header" /\ Read9p(m)
        /\ Ln = L + Len(c)
        /\ \A i \in 1 .. L : Stream'[i] = Stream[i]
        /\ \A i \in 1 .. Len(c) : Stream'[L + i] = c[i]
    BY <1>6 DEF Answers, StreamGrows, Places
  <2>2. Len(c) \in {2, 3} /\ \A i \in 1 .. Len(c) : Read9p(c[i])
    <3>1. /\ Len(c) \in {2, 3}
          /\ \A i \in 1 .. Len(c) : c[i].type = m.type /\ c[i].req = m.req
      BY <2>1, ChunksOf
    <3> HIDE DEF c
    <3> QED BY <2>1, <3>1
  <2> HIDE DEF L, Ln, c, Read9p
  <2>3. ASSUME NEW i \in 1 .. Ln PROVE Read9p(Stream'[i])
    <3>1. CASE i <= L
      <4>1. i \in 1 .. L BY <1>0, <3>1
      <4> QED BY <1>a, <2>1, <4>1
    <3>2. CASE i > L
      <4>1. i - L \in 1 .. Len(c) /\ L + (i - L) = i BY <1>0, <2>1, <2>2, <3>2
      <4>2. Stream'[i] = c[i - L] BY <2>1, <4>1
      <4> QED BY <2>2, <4>1, <4>2
    <3> QED BY <1>0, <3>1, <3>2
  <2> QED BY <1>a, <2>1, <2>3
<1> QED BY <1>2, <1>3, <1>4, <1>5, <1>6, WayKinds

\* How recv_thread comes to read data.
LEMMA DataKinds ==
  ASSUME Next, rpc' = "data"
  PROVE  RecvArg \/ (rpc = "data" /\ UNCHANGED <<rmsg, rbuf>> /\ ~Stores)
<1>1. CASE RecvStep
  BY <1>1 DEF RecvStep, RecvIdle, RecvStart, RecvClosed, RecvHeader, RecvCheck,
     RecvBody, RecvStore, RecvAbort, RecvData, RecvStored, RecvGoto, RecvExit,
     PutReply, recvVars, Stores
<1>2. CASE UNCHANGED recvVars /\ ~Stores
  BY <1>2 DEF recvVars
<1>3. CASE ~RecvStep
  <2>1. UNCHANGED recvVars
    BY <1>3 DEF Next, SendStep, WaitStep, CloseStep, ServerStep, Call,
       SendBlock, SendClosed, SendTooBig, SendTake, WriteMessage, WriteData,
       WriteFails, WaitBadTag, WaitBlock, WaitTake, PollTake, CloseBegin,
       CloseBlock, CloseFree, UseAfterFree, ServerRecv, ServerReply,
       ServerFault, ServerWrite, Disconnect, Terminated, vars
  <2>2. ~Stores BY <2>1 DEF Stores, PutReply, recvVars
  <2> QED BY <1>2, <2>1, <2>2
<1> QED BY <1>1, <1>3

\* What recv_thread has in hand is owed.
LEMMA HandOwed ==
  ASSUME TypeOK, FlightInv, rmsg # NONE, rmsg.tag \in Tags
  PROVE  Owed(rmsg.tag, rmsg.req)
<1>1. UnderWay(rmsg.tag, rmsg.req) BY DEF UnderWay, InHand
<1>2. rmsg.req \in Requests BY WayTypes
<1> QED BY <1>1, <1>2 DEF FlightInv

\* On an open client, what is read for goes to the buffer of a thread that waits.
LEMMA ArgBuffer ==
  ASSUME TypeOK, SlotOwners, HandInv, FlightInv, KindInv, RecvArg, ~closed
  PROVE  /\ rbuf' \in Callers /\ rbuf' # NONE /\ Awaits(rbuf', rmsg.tag)
         /\ UNCHANGED <<rmsg, callerVars>>
<1>1. /\ rpc = "arg" /\ rbuf' = queue[q].read_buf /\ UNCHANGED <<rmsg, callerVars>>
  BY DEF RecvArg
<1>2. rmsg # NONE /\ rmsg.type = "read" /\ rmsg.tag \in Tags /\ q = rmsg.tag
  BY <1>1 DEF HandInv, TypeOK, RecvType, q
<1>3. rmsg.req.kind = "read" BY <1>2 DEF KindInv
<1>4. Owed(q, rmsg.req) BY <1>2, HandOwed
<1>5. PICK t \in Callers : Awaits(t, q) BY <1>4 DEF Owed
<1>6. Holds(t) /\ tag[t] = q BY <1>2, <1>5, AwaitsHolds
<1>7. req[t] = rmsg.req BY <1>4, <1>6 DEF Owed
<1>8. queue[q].read_buf = t BY <1>3, <1>6, <1>7 DEF SlotOwners, OwnedSlot
<1> QED BY <1>1, <1>2, <1>5, <1>8, ThreadAssumption

LEMMA NoBufStep ==
  ASSUME TypeOK, SlotOwners, HandInv, FlightInv, KindInv, NoBufInv, Next
  PROVE  NoBufInv'
<1> SUFFICES ASSUME rpc' = "data", rbuf' = NONE PROVE closed'
  BY DEF NoBufInv
<1>1. closed
  <2>1. CASE rpc = "data" /\ UNCHANGED <<rmsg, rbuf>> BY <2>1 DEF NoBufInv
  <2>2. CASE RecvArg BY <2>2, ArgBuffer
  <2> QED BY <2>1, <2>2, DataKinds
<1> QED BY <1>1, ClosedStays

LEMMA BufStep ==
  ASSUME TypeOK, SlotOwners, HandInv, FlightInv, KindInv, BufInv, Next
  PROVE  BufInv'
<1> SUFFICES ASSUME rpc' = "data", rbuf' # NONE, ~closed'
             PROVE  Awaits(rbuf, rmsg.tag)'
  BY DEF BufInv
<1>1. ~closed BY ClosedStays
<1>2. CASE rpc = "data" /\ UNCHANGED <<rmsg, rbuf>> /\ ~Stores
  <2>1. rmsg # NONE /\ rmsg.tag \in Tags BY <1>2 DEF HandInv, TypeOK, RecvType
  <2>2. Awaits(rbuf, rmsg.tag) BY <1>1, <1>2 DEF BufInv
  <2>3. Owed(rmsg.tag, rmsg.req) BY <2>1, HandOwed
  <2>4. OwnerStays(rmsg.tag) BY <1>2, <2>1, <2>3, OwnerStep
  <2>5. rbuf \in Callers BY <1>2 DEF TypeOK, RecvType
  <2> QED BY <1>2, <2>2, <2>4, <2>5 DEF OwnerStays, Awaits
<1>3. CASE RecvArg BY <1>1, <1>3, ArgBuffer DEF Awaits, callerVars
<1> QED BY <1>2, <1>3, DataKinds

-----------------------------------------------------------------------------
(* The invariants hold together.                                           *)

RepliesInv == /\ FramesInv /\ FlightInv /\ OnceInv /\ CleanInv
              /\ KindInv /\ BufInv /\ NoBufInv /\ RepliesMatch
              /\ WriterInv /\ NewestInv /\ FreshInv /\ FdInv

LEMMA RepliesInit == Init => RepliesInv
<1> SUFFICES ASSUME Init PROVE RepliesInv
  OBVIOUS
<1>1. /\ rmsg = NONE /\ rpc = "top" /\ rbuf = NONE /\ c2s = << >> /\ pending = {}
      /\ s2c = << >> /\ srv_out = << >>
  BY DEF Init
<1>2. Len(Stream) = 0 /\ Len(c2s) = 0 BY <1>1 DEF Stream
<1>3. FramesInv
  BY <1>1, <1>2 DEF FramesInv, HandInv, ChainInv, FrontInv, WholeInv
<1>4. \A k, r : ~UnderWay(k, r)
  BY <1>1, <1>2 DEF UnderWay, ToServer, AtServer, InHand, OnItsWay, Places
<1>5. \A r : ~Out(r)
  BY <1>1, <1>2 DEF Out, SockReq, ServerReq, WireReq, Places
<1>6. OnceInv
  BY <1>1, <1>2, <1>5 DEF OnceInv, ApartInv, SockOnceInv, ServerOnceInv, WireOnceInv, Places, Out
<1>7. KindInv /\ BufInv /\ NoBufInv BY <1>1, <1>2 DEF KindInv, BufInv, NoBufInv, Places
<1>8. CleanInv /\ WriterInv /\ NewestInv /\ FdInv
  BY DEF Init, CleanInv, WriterInv, NewestInv, FdInv
<1>9. RepliesMatch BY DEF Init, RepliesMatch, EmptySlot, Holds
<1> QED BY <1>3, <1>4, <1>5, <1>6, <1>7, <1>8, <1>9 DEF RepliesInv, FlightInv, FreshInv

LEMMA RepliesStutter ==
  ASSUME RepliesInv, UNCHANGED vars
  PROVE  RepliesInv'
<1>1. /\ UNCHANGED <<mtx, closed, queue, fd_ok, pc, req, tag, got, nreq, rpc, rmsg, rbuf,
                     c2s, pending, eof>>
      /\ Stream' = Stream
  BY DEF vars, structVars, callerVars, recvVars, netVars, Stream
<1>2. FramesInv'
  BY <1>1 DEF RepliesInv, FramesInv, HandInv, ChainInv, FrontInv, WholeInv
<1>3. FlightInv'
  BY <1>1 DEF RepliesInv, FlightInv, UnderWay, ToServer, AtServer, InHand,
     OnItsWay, Places, Owed, Owned, Awaits, Holds
<1>4. OnceInv'
  BY <1>1 DEF RepliesInv, OnceInv, ApartInv, SockOnceInv, WireOnceInv, NewAt,
     ServerOnceInv, SockReq, ServerReq, WireReq, Places
<1>5. CleanInv' /\ KindInv' /\ BufInv' /\ NoBufInv'
  BY <1>1 DEF RepliesInv, CleanInv, KindInv, BufInv, NoBufInv, Places, Awaits
<1>6. RepliesMatch' BY <1>1 DEF RepliesInv, RepliesMatch, Holds
<1>7. WriterInv' /\ NewestInv' /\ FdInv'
  BY <1>1 DEF RepliesInv, WriterInv, NewestInv, FdInv
<1>8. FreshInv'
  BY <1>1 DEF RepliesInv, FreshInv, Early, Out, SockReq, ServerReq, WireReq, Places
<1> QED BY <1>2, <1>3, <1>4, <1>5, <1>6, <1>7, <1>8 DEF RepliesInv

LEMMA RepliesInvHolds ==
  ASSUME "duplicate" \notin Faults
  PROVE  Spec => []RepliesInv
<1>1. ASSUME TypeOK, SlotOwners, RepliesInv, Next PROVE RepliesInv'
  <2>1. /\ FramesInv /\ FlightInv /\ OnceInv /\ CleanInv
        /\ KindInv /\ BufInv /\ NoBufInv /\ RepliesMatch /\ HandInv
        /\ WriterInv /\ NewestInv /\ FreshInv /\ FdInv
    BY <1>1 DEF RepliesInv, FramesInv
  <2>2. FramesInv' BY <1>1, <2>1, FramesStep
  <2>3. FlightInv' BY <1>1, <2>1, FlightStep
  <2>4. OnceInv' BY <1>1, <2>1, OnceStep
  <2>5. CleanInv' BY <1>1, <2>1, CleanStep
  <2>6. KindInv' BY <1>1, <2>1, KindStep
  <2>7. BufInv' /\ NoBufInv' BY <1>1, <2>1, BufStep, NoBufStep
  <2>8. RepliesMatch' BY <1>1, <2>1, StoresOwed, RepliesStep
  <2>9. WriterInv' BY <1>1, <2>1, WriterStep
  <2>10. NewestInv' BY <1>1, <2>1, NewestStep
  <2>11. FreshInv' BY <1>1, <2>1, FreshStep
  <2>12. FdInv' BY <1>1, <2>1, FdStep
  <2> QED BY <2>2, <2>3, <2>4, <2>5, <2>6, <2>7, <2>8, <2>9, <2>10, <2>11, <2>12 DEF RepliesInv
<1>2. TypeOK /\ SlotOwners /\ RepliesInv /\ [Next]_vars => RepliesInv'
  BY <1>1, RepliesStutter
<1> QED BY <1>2, RepliesInit, TypeCorrect, SlotOwnership, PTL DEF Spec

\* With a server that answers each request at most once, a reply is stored in the slot
\* of, and given to, the thread whose request it answers, and no reply waits in a slot
\* that nobody owns while the client is open (9p.c:156, 212, 522-524, 573), for any
\* number of callers, slots and requests, any socket capacity and every other fault.
THEOREM RepliesAreMatched ==
  ASSUME "duplicate" \notin Faults
  PROVE  Spec => []RepliesMatch
<1>1. RepliesInv => RepliesMatch BY DEF RepliesInv
<1> QED BY <1>1, RepliesInvHolds, PTL

\* With such a server recv_thread, which fills a read's buffer without the mutex, writes
\* while the client is open to the buffer of a thread that still waits for that
\* very read (9p.c:198).
THEOREM BuffersAreOwned ==
  ASSUME "duplicate" \notin Faults
  PROVE  Spec => []BufferOwned
<1>1. ASSUME TypeOK, SlotOwners, RepliesInv, rpc = "data", rbuf # NONE, ~closed
      PROVE  /\ Holds(rbuf) /\ tag[rbuf] = rmsg.tag
             /\ req[rbuf] = rmsg.req /\ queue[rmsg.tag].reply = NONE
  <2>1. rmsg # NONE /\ rmsg.tag \in Tags /\ rbuf \in Callers
    BY <1>1 DEF RepliesInv, FramesInv, HandInv, TypeOK, RecvType
  <2>2. Awaits(rbuf, rmsg.tag) BY <1>1 DEF RepliesInv, BufInv
  <2>3. Holds(rbuf) /\ tag[rbuf] = rmsg.tag BY <1>1, <2>1, <2>2, AwaitsHolds
  <2>4. Owed(rmsg.tag, rmsg.req) BY <1>1, <2>1, HandOwed DEF RepliesInv
  <2> QED BY <1>1, <2>1, <2>3, <2>4 DEF Owed, Owned
<1>2. TypeOK /\ SlotOwners /\ RepliesInv => BufferOwned
  BY <1>1 DEF BufferOwned
<1> QED BY <1>2, RepliesInvHolds, TypeCorrect, SlotOwnership, PTL

-----------------------------------------------------------------------------
(* The client implements Calls9p.  What is in flight is what is out.       *)

FlightIsOut == \A r : r \in InFlight <=> r \in Requests /\ Out(r)

LEMMA InFlightIsOut == TypeOK => FlightIsOut
<1> SUFFICES ASSUME TypeOK, NEW r PROVE r \in InFlight <=> r \in Requests /\ Out(r)
  BY DEF FlightIsOut
<1>1. r \in InFlight <=>
        \/ SockReq(r) \/ ServerReq(r) \/ (rmsg # NONE /\ rmsg.req = r)
        \/ \E i \in 1 .. Len(srv_out) : srv_out[i].req = r
        \/ \E i \in 1 .. Len(s2c) : s2c[i].req = r
  BY DEF InFlight, SockReq, ServerReq
<1>2. s2c \in Seq(Messages) /\ srv_out \in Seq(Messages) BY DEF TypeOK, NetType
<1>3. /\ Len(s2c) \in Nat /\ Len(srv_out) \in Nat
      /\ Len(Stream) = Len(s2c) + Len(srv_out)
      /\ \A i \in 1 .. Len(s2c) + Len(srv_out) :
           Stream[i] = IF i <= Len(s2c) THEN s2c[i] ELSE srv_out[i - Len(s2c)]
  BY <1>2, ConcatProperties, LenProperties DEF Stream
<1>4. ASSUME NEW i \in 1 .. Len(s2c) PROVE i \in Places /\ Stream[i] = s2c[i]
  BY <1>3 DEF Places
<1>5. ASSUME NEW i \in 1 .. Len(srv_out)
      PROVE  Len(s2c) + i \in Places /\ Stream[Len(s2c) + i] = srv_out[i]
  <2>1. Len(s2c) + i \in 1 .. Len(s2c) + Len(srv_out) /\ ~(Len(s2c) + i <= Len(s2c))
        /\ Len(s2c) + i - Len(s2c) = i
    BY <1>3
  <2> QED BY <1>3, <2>1 DEF Places
<1>6. ASSUME NEW i \in Places
      PROVE  \/ i \in 1 .. Len(s2c) /\ Stream[i] = s2c[i]
             \/ i - Len(s2c) \in 1 .. Len(srv_out) /\ Stream[i] = srv_out[i - Len(s2c)]
  BY <1>3 DEF Places
<1>7. (\E i \in Places : Stream[i].req = r) <=>
        \/ \E i \in 1 .. Len(srv_out) : srv_out[i].req = r
        \/ \E i \in 1 .. Len(s2c) : s2c[i].req = r
  BY <1>4, <1>5, <1>6
<1>8. r \in InFlight <=> Out(r) BY <1>1, <1>7 DEF Out, WireReq
<1>9. Out(r) => r \in Requests
  BY WayTypes DEF Out, SockReq, ServerReq, WireReq
<1> QED BY <1>8, <1>9

\* It stays out, unless its answer leaves the hands of recv_thread, or the server goes.
LEMMA OutKept ==
  ASSUME TypeOK, FramesInv, Next, "duplicate" \notin Faults, NEW r, Out(r)
  PROVE  Out(r)' \/ eof' \/ (rmsg # NONE /\ rmsg.req = r /\ rmsg' = NONE)
<1> DEFINE L == Len(Stream)
           Ln == Len(Stream')
<1>0. L \in Nat /\ Len(c2s) \in Nat BY StreamType, WayTypes
<1>1. ASSUME UNCHANGED pending, ServerReq(r) PROVE Out(r)' BY <1>1 DEF ServerReq, Out
<1>2. ASSUME UNCHANGED c2s, SockReq(r) PROVE Out(r)' BY <1>2 DEF SockReq, Out
<1>3. ASSUME StreamKept, NEW i \in Places, Stream[i].req = r PROVE Out(r)'
  <2>1. i \in Places' /\ Stream'[i] = Stream[i] BY <1>3 DEF StreamKept, Places
  <2> QED BY <1>3, <2>1 DEF WireReq, Out
<1>4. ASSUME UNCHANGED rmsg, rmsg # NONE, rmsg.req = r PROVE Out(r)'
  BY <1>4 DEF WireReq, Out
<1>5. CASE Quiet /\ UNCHANGED <<c2s, pending>>
  BY <1>1, <1>2, <1>3, <1>4, <1>5 DEF Quiet, Out, WireReq
<1>6. ASSUME NEW t \in Callers, WriteMessage(t) \/ WriteData(t), Quiet PROVE Out(r)'
  <2>1. PICK e : c2s' = Append(c2s, e) BY <1>6 DEF WriteMessage, WriteData
  <2>2. UNCHANGED pending BY <1>6 DEF WriteMessage, WriteData
  <2>3. ASSUME SockReq(r) PROVE Out(r)'
    <3>1. PICK i \in 1 .. Len(c2s) : c2s[i].last /\ c2s[i].req = r BY <2>3 DEF SockReq
    <3>2. i \in 1 .. Len(c2s') /\ c2s'[i] = c2s[i]
      BY <1>0, <2>1, WayTypes
    <3> QED BY <3>1, <3>2 DEF SockReq, Out
  <2> QED BY <1>1, <1>3, <1>4, <1>6, <2>2, <2>3 DEF Quiet, Out, WireReq
<1>7. CASE Quiet /\ ServerRecv
  <2>1. /\ Len(c2s) >= 1 /\ Len(c2s') = Len(c2s) - 1
        /\ \A i \in 1 .. Len(c2s') : c2s'[i] = c2s[i + 1]
    BY <1>7, ServerRecvKeeps
  <2>2. /\ pending \subseteq pending'
        /\ c2s[1].last => [tag |-> c2s[1].tag, req |-> c2s[1].req] \in pending'
    <3>1. Head(c2s) = c2s[1] BY <1>7, WayTypes, HeadTailProperties DEF ServerRecv
    <3> QED BY <1>7, <3>1 DEF ServerRecv
  <2>3. ServerReq(r) => Out(r)' BY <2>2 DEF ServerReq, Out
  <2>4. ASSUME SockReq(r) PROVE Out(r)'
    <3>1. PICK i \in 1 .. Len(c2s) : c2s[i].last /\ c2s[i].req = r BY <2>4 DEF SockReq
    <3>2. CASE i = 1
      <4>1. [tag |-> c2s[1].tag, req |-> c2s[1].req] \in pending'
            /\ [tag |-> c2s[1].tag, req |-> c2s[1].req].req = r
        BY <2>2, <3>1, <3>2
      <4> QED BY <4>1 DEF ServerReq, Out
    <3>3. CASE i # 1
      <4>1. i - 1 \in 1 .. Len(c2s') /\ i - 1 + 1 = i BY <1>0, <2>1, <3>3
      <4>2. c2s'[i - 1] = c2s[i] BY <2>1, <4>1
      <4> QED BY <3>1, <4>1, <4>2 DEF SockReq, Out
    <3> QED BY <3>2, <3>3
  <2> QED BY <1>3, <1>4, <1>7, <2>3, <2>4 DEF Quiet, Out, WireReq
<1>8. CASE Moves
  <2>1. /\ StreamKept /\ UNCHANGED <<c2s, pending>>
        /\ rmsg' = NONE \/ UNCHANGED rmsg
    BY <1>8 DEF Moves
  <2> QED BY <1>1, <1>2, <1>3, <1>4, <2>1 DEF Out, WireReq
<1>9. CASE Reads
  <2>1. /\ UNCHANGED <<c2s, pending>>
        /\ L >= 1 /\ Ln = L - 1 /\ \A i \in 1 .. Ln : Stream'[i] = Stream[i + 1]
        /\ rmsg' = Stream[1] \/ UNCHANGED rmsg
    BY <1>9 DEF Reads, StreamRead
  <2>2. rmsg' \in Messages /\ rmsg' # NONE /\ Stream[1].req = rmsg'.req
    <3>1. rmsg' \in Messages /\ LastOf(rmsg', rpc') = Stream[1] BY <1>9, ReadIsNext
    <3>2. LastOf(rmsg', rpc').req = rmsg'.req BY <3>1, PartOf DEF LastOf
    <3> QED BY <3>1, <3>2, NullAssumption
  <2> HIDE DEF L, Ln
  <2>3. ASSUME NEW i \in 1 .. L, Stream[i].req = r PROVE Out(r)'
    <3>1. CASE i = 1 BY <2>2, <2>3, <3>1 DEF WireReq, Out
    <3>2. CASE i # 1
      <4>1. i - 1 \in 1 .. Ln /\ i - 1 + 1 = i BY <1>0, <2>1, <3>2
      <4>2. Stream'[i - 1].req = r BY <2>1, <2>3, <4>1
      <4> QED BY <4>1, <4>2 DEF WireReq, Out, Places, Ln
    <3> QED BY <3>1, <3>2
  <2>4. ASSUME rmsg # NONE, rmsg.req = r PROVE Out(r)'
    <3>1. rpc \in Within BY <2>4 DEF FramesInv, HandInv
    <3>2. UNCHANGED rmsg BY <1>9, <3>1 DEF Reads, Within
    <3> QED BY <1>4, <2>4, <3>2
  <2> QED BY <1>1, <1>2, <2>1, <2>3, <2>4 DEF Out, WireReq, Places, L
<1>10. CASE Cuts BY <1>10 DEF Cuts
<1>11. ASSUME NEW p \in pending, NEW m \in Messages, Answers(p, m) PROVE Out(r)'
  <2> DEFINE c == Chunks(m)
  <2>1. /\ UNCHANGED <<c2s, rmsg>> /\ pending' = pending \ {p} /\ m.part = "header"
        /\ m.req = p.req
        /\ Ln = L + Len(c)
        /\ \A i \in 1 .. L : Stream'[i] = Stream[i]
        /\ \A i \in 1 .. Len(c) : Stream'[L + i] = c[i]
    BY <1>11 DEF Answers, StreamGrows, Places
  <2>2. Len(c) \in {2, 3} /\ c[1] = m BY <2>1, ChunksOf
  <2> HIDE DEF L, Ln, c
  <2>3. 1 \in 1 .. Len(c) /\ L + 1 \in 1 .. Ln /\ \A i \in 1 .. L : i \in 1 .. Ln
    BY <1>0, <2>1, <2>2
  <2>4. ASSUME ServerReq(r) PROVE Out(r)'
    <3>1. PICK o \in pending : o.req = r BY <2>4 DEF ServerReq
    <3>2. CASE o = p
      <4>1. Stream'[L + 1].req = r BY <2>1, <2>2, <2>3, <3>1, <3>2
      <4> QED BY <2>3, <4>1 DEF WireReq, Out, Places, Ln
    <3>3. CASE o # p BY <2>1, <3>1, <3>3 DEF ServerReq, Out
    <3> QED BY <3>2, <3>3
  <2>5. ASSUME NEW i \in 1 .. L, Stream[i].req = r PROVE Out(r)'
    <3>1. i \in 1 .. Ln /\ Stream'[i].req = r BY <2>1, <2>3, <2>5
    <3> QED BY <3>1 DEF WireReq, Out, Places, Ln
  <2> QED BY <1>2, <1>4, <2>1, <2>4, <2>5 DEF Out, WireReq, Places, L
<1> QED BY <1>5, <1>6, <1>7, <1>8, <1>9, <1>10, <1>11, WayKinds DEF FramesInv

\* recv_thread drops what it has in hand only when the client is closed or the server
\* is gone.
LEMMA HandDropped ==
  ASSUME TypeOK, NoBufInv, FdInv, Next, ~Stores, rmsg # NONE, rmsg' = NONE
  PROVE  closed' \/ eof'
<1>1. CASE RecvStep
  <2>1. ASSUME NEW l, RecvGoto(l) PROVE FALSE BY <2>1 DEF RecvGoto
  <2>2. CASE RecvExit BY <2>2 DEF RecvExit
  <2>3. ASSUME NEW m, m # NONE, Read(m), UNCHANGED eof PROVE eof' BY <2>3 DEF Read, FdInv
  <2>4. CASE RecvHeader
    <3>1. Read(Head(s2c)) /\ UNCHANGED eof BY <2>4 DEF RecvHeader
    <3>2. s2c # << >> => Head(s2c) # NONE
      BY NullAssumption, HeadTailProperties DEF TypeOK, NetType
    <3> QED BY <3>1, <3>2 DEF Read, FdInv
  <2>5. CASE RecvBody BY <2>3, <2>5 DEF RecvBody
  <2>6. CASE RecvData
    <3>1. CASE rbuf = NONE
      BY <2>6, <3>1 DEF RecvData, NoBufInv, structVars
    <3>2. CASE rbuf # NONE BY <2>3, <2>6, <3>2 DEF RecvData
    <3> QED BY <3>1, <3>2
  <2>7. CASE RecvIdle \/ RecvAbort \/ RecvArg
    BY <2>7 DEF RecvIdle, RecvAbort, RecvArg, recvVars
  <2>8. CASE RecvStore BY <2>1, <2>2, <2>8 DEF RecvStore, Stores
  <2>9. CASE RecvStored BY <2>2, <2>9 DEF RecvStored, Stores
  <2> QED BY <1>1, <2>1, <2>2, <2>4, <2>5, <2>6, <2>7, <2>8, <2>9
        DEF RecvStep, RecvStart, RecvClosed, RecvCheck
<1>2. CASE ~RecvStep
  <2>1. UNCHANGED rmsg
    BY <1>2 DEF Next, SendStep, WaitStep, CloseStep, ServerStep, Call,
       SendBlock, SendClosed, SendTooBig, SendTake, WriteMessage, WriteData,
       WriteFails, WaitBadTag, WaitBlock, WaitTake, PollTake, CloseBegin,
       CloseBlock, CloseFree, UseAfterFree, ServerRecv, ServerReply,
       ServerFault, ServerWrite, Disconnect, Terminated, vars, recvVars
  <2> QED BY <2>1
<1> QED BY <1>1, <1>2

-----------------------------------------------------------------------------
(* The stages of the calls, and the replies that have come to them.        *)

Stages9p  == [t \in Callers |-> StageOf(t)]
Replies9p == [t \in Callers |-> ReplyOf(t)]

AtStage(t) ==
  /\ pc[t] = "idle" => StageOf(t) = "out" /\ ReplyOf(t) = NONE
  /\ pc[t] \in {"send", "slot wait"} => StageOf(t) = "calling" /\ ReplyOf(t) = NONE
  /\ pc[t] \in {"write", "data"} => StageOf(t) = "sending" /\ ReplyOf(t) = queue[tag[t]].reply
  /\ pc[t] \in {"tagged", "wait"} /\ Holds(t)
       => StageOf(t) = "waiting" /\ ReplyOf(t) = queue[tag[t]].reply
  /\ pc[t] \in {"tagged", "wait"} /\ ~Holds(t)
       => StageOf(t) = "refused" /\ ReplyOf(t) = NONE

LEMMA StagesAt ==
  ASSUME NEW t \in Callers
  PROVE  AtStage(t) /\ AtStage(t)'
<1>1. /\ pc[t] = "idle" => ~Holds(t)
      /\ pc[t] \in {"send", "slot wait"} => ~Holds(t)
      /\ pc[t] \in {"write", "data"} => Holds(t)
  BY DEF Holds
<1>2. /\ pc'[t] = "idle" => ~Holds(t)'
      /\ pc'[t] \in {"send", "slot wait"} => ~Holds(t)'
      /\ pc'[t] \in {"write", "data"} => Holds(t)'
  BY DEF Holds
<1>3. AtStage(t) BY <1>1 DEF AtStage, StageOf, ReplyOf
<1>4. AtStage(t)' BY <1>2 DEF AtStage, StageOf, ReplyOf
<1> QED BY <1>3, <1>4

\* A call is where it was, and has what it had.
CallKept(u) == StageOf(u)' = StageOf(u) /\ ReplyOf(u)' = ReplyOf(u)

LEMMA CallKeptWhen ==
  ASSUME NEW u \in Callers, pc'[u] = pc[u], tag'[u] = tag[u],
         Holds(u) => queue'[tag[u]].reply = queue[tag[u]].reply
  PROVE  CallKept(u)
<1>1. Holds(u)' <=> Holds(u) BY DEF Holds
<1> QED BY <1>1 DEF CallKept, StageOf, ReplyOf

LEMMA CallMoves ==
  ASSUME NEW t \in Callers, \A u \in Callers \ {t} : CallKept(u)
  PROVE  /\ Stages9p' = [Stages9p EXCEPT ![t] = StageOf(t)']
         /\ Replies9p' = [Replies9p EXCEPT ![t] = ReplyOf(t)']
         /\ StageOf(t)' = StageOf(t) => Stages9p' = Stages9p
         /\ ReplyOf(t)' = ReplyOf(t) => Replies9p' = Replies9p
BY DEF CallKept, Stages9p, Replies9p

LEMMA CallsKept ==
  ASSUME \A u \in Callers : CallKept(u)
  PROVE  Stages9p' = Stages9p /\ Replies9p' = Replies9p
BY DEF CallKept, Stages9p, Replies9p

\* Who owns a slot is admitted; so there is room when a slot is free.
LEMMA AdmittedOwn == Calls!Admitted = {t \in Callers : Holds(t)}
<1>1. ASSUME NEW t \in Callers PROVE StageOf(t) \in {"sending", "waiting"} <=> Holds(t)
  BY DEF StageOf, Holds
<1> QED BY <1>1 DEF Calls!Admitted

LEMMA RoomLeft ==
  ASSUME TypeOK, SlotOwners, FreeTags # {}
  PROVE  Calls!HasRoom
<1> DEFINE A == {t \in Callers : Holds(t)}
           T == Tags \ {FirstFree}
           f == [t \in A |-> tag[t]]
<1>1. FirstFree \in Tags /\ ~queue[FirstFree].in_use BY FirstFreeIsFree
<1>2. f \in Injection(A, T)
  <2>1. \A t \in A : tag[t] \in T BY <1>1 DEF SlotOwners, OwnedSlot
  <2>2. \A t, u \in A : tag[t] = tag[u] => t = u BY DEF SlotOwners
  <2> QED BY <2>1, <2>2 DEF Injection, IsInjective
<1>3. IsFiniteSet(Tags) /\ Cardinality(Tags) = QUEUE_SIZE
  <2>1. 0 \in Int /\ QUEUE_SIZE - 1 \in Int /\ ~(0 > QUEUE_SIZE - 1)
        /\ QUEUE_SIZE - 1 - 0 + 1 = QUEUE_SIZE
    BY SlotAssumption
  <2> QED BY <2>1, FS_Interval DEF Tags
<1>4. IsFiniteSet(T) /\ Cardinality(T) = QUEUE_SIZE - 1
  BY <1>1, <1>3, FS_RemoveElement
<1> HIDE DEF A, T, f
<1>5. IsFiniteSet(A) /\ Cardinality(A) <= Cardinality(T) BY <1>2, <1>4, FS_Injection
<1>6. Cardinality(A) \in Nat BY <1>5, FS_CardinalityType
<1>7. Cardinality(A) < QUEUE_SIZE BY <1>4, <1>5, <1>6, SlotAssumption
<1>8. \A S : Calls!Cardinality(S) = Cardinality(S) BY DEF Calls!Cardinality, Cardinality, Calls!IsFiniteSet, IsFiniteSet
<1> QED BY <1>7, <1>8, AdmittedOwn DEF Calls!HasRoom, A

-----------------------------------------------------------------------------
(* The steps of the callers.                                               *)

\* Nothing comes or goes while only the client's side changes.
LEMMA FlightKept ==
  ASSUME UNCHANGED <<rmsg, c2s, pending, srv_out, s2c>>
  PROVE  InFlight' = InFlight
BY DEF InFlight

\* A step of the client is a step of Calls9p, or leaves its variables alone.
Refines == Calls!Next \/ UNCHANGED Calls!vars

LEMMA RefinesWhen ==
  ASSUME NEW t \in Callers,
         \/ Calls!Begin(t) \/ Calls!Admit(t) \/ Calls!TooBig(t) \/ Calls!Send(t)
         \/ Calls!Refuse(t) \/ Calls!Finish(t) \/ Calls!GiveUp(t) \/ Calls!Refused(t)
         \/ \E what \in {"answer", "error"} : Calls!Answer(t, what)
  PROVE  Refines
BY DEF Refines, Calls!Next

LEMMA CallRefines ==
  ASSUME TypeOK, NEW t \in Callers, Call(t)
  PROVE  Refines
<1>1. /\ pc[t] = "idle" /\ pc' = [pc EXCEPT ![t] = "send"] /\ cpc = "open"
      /\ nreq' = [nreq EXCEPT ![t] = @ + 1]
      /\ UNCHANGED <<queue, tag, got, closed, eof, cpc, rmsg, c2s, pending, srv_out, s2c>>
  BY DEF Call, recvVars, closeVars, netVars
<1>2. PICK kind \in AllKinds, size \in Sizes :
        req' = [req EXCEPT ![t] = [by |-> t, seq |-> nreq[t] + 1,
                                   kind |-> kind, size |-> size]]
  BY DEF Call
<1>3. pc'[t] = "send" /\ \A u \in Callers \ {t} : pc'[u] = pc[u]
  BY <1>1 DEF TypeOK, CallerType
<1>4. \A u \in Callers \ {t} : CallKept(u) BY <1>1, <1>3, CallKeptWhen
<1>5. /\ StageOf(t) = "out" /\ ReplyOf(t) = NONE
      /\ StageOf(t)' = "calling" /\ ReplyOf(t)' = NONE
  BY <1>1, <1>3, StagesAt DEF AtStage
<1>6. /\ Stages9p[t] = "out" /\ Stages9p' = [Stages9p EXCEPT ![t] = "calling"]
      /\ Replies9p' = Replies9p
  BY <1>4, <1>5, CallMoves DEF Stages9p
<1>7. InFlight' = InFlight BY <1>1, FlightKept
<1>8. Calls!Begin(t) BY <1>1, <1>2, <1>6, <1>7 DEF Calls!Begin, Stages9p, Replies9p
<1> QED BY <1>8, RefinesWhen

LEMMA SendRefines ==
  ASSUME TypeOK, SlotOwners, RepliesMatch, NEW t \in Callers,
         SendBlock(t) \/ SendClosed(t) \/ SendTooBig(t) \/ SendTake(t)
  PROVE  Refines
<1>1. /\ StageOf(t) = "calling" /\ ReplyOf(t) = NONE /\ Stages9p[t] = "calling"
      /\ \A u \in Callers \ {t} : pc'[u] = pc[u]
      /\ UNCHANGED <<req, nreq, got, closed, eof, cpc>>
      /\ InFlight' = InFlight
  <2>1. /\ pc[t] \in {"send", "slot wait"} /\ UNCHANGED <<req, nreq, got, closed, eof, cpc>>
        /\ UNCHANGED <<rmsg, c2s, pending, srv_out, s2c>>
    BY DEF SendBlock, SendClosed, SendTooBig, SendTake, structVars, recvVars,
                closeVars, netVars
  <2>2. \A u \in Callers \ {t} : pc'[u] = pc[u]
    BY DEF SendBlock, SendClosed, SendTooBig, SendTake, TypeOK, CallerType
  <2> QED BY <2>1, <2>2, StagesAt, FlightKept DEF AtStage, Stages9p
<1>2. CASE SendBlock(t)
  <2>1. /\ pc'[t] = "slot wait" /\ UNCHANGED <<queue, tag>>
    BY <1>2 DEF SendBlock, TypeOK, CallerType
  <2>2. \A u \in Callers \ {t} : CallKept(u) BY <1>1, <1>2, <2>1, CallKeptWhen
  <2>3. StageOf(t)' = "calling" /\ ReplyOf(t)' = NONE BY <2>1, StagesAt DEF AtStage
  <2>4. Stages9p' = Stages9p /\ Replies9p' = Replies9p BY <1>1, <1>2, <2>2, <2>3, CallMoves
  <2>5. UNCHANGED Calls!vars BY <1>1, <1>2, <2>4 DEF Calls!vars, Stages9p, Replies9p
  <2> QED BY <2>5 DEF Refines
<1>3. CASE SendClosed(t)
  <2>1. /\ closed /\ pc'[t] = "tagged" /\ tag'[t] = -1 /\ UNCHANGED queue
        /\ \A u \in Callers \ {t} : tag'[u] = tag[u]
    BY <1>3 DEF SendClosed, TypeOK, CallerType, structVars
  <2>2. \A u \in Callers \ {t} : CallKept(u) BY <1>1, <1>3, <2>1, CallKeptWhen
  <2>3. ~Holds(t)' BY <2>1 DEF Holds
  <2>4. StageOf(t)' = "refused" /\ ReplyOf(t)' = NONE BY <2>1, <2>3, StagesAt DEF AtStage
  <2>5. Stages9p' = [Stages9p EXCEPT ![t] = "refused"] /\ Replies9p' = Replies9p
    BY <1>1, <1>3, <2>2, <2>4, CallMoves
  <2>6. Calls!Refuse(t) BY <1>1, <1>3, <2>1, <2>5 DEF Calls!Refuse, Stages9p, Replies9p
  <2> QED BY <2>6, RefinesWhen
<1>4. ASSUME SendTooBig(t) \/ SendTake(t)
      PROVE  /\ ~closed /\ Calls!HasRoom
             /\ FirstFree \in Tags /\ queue[FirstFree].reply = NONE /\ tag'[t] = FirstFree
             /\ \A u \in Callers \ {t} : CallKept(u)
  <2>1. ~closed /\ FreeTags # {} /\ tag' = [tag EXCEPT ![t] = FirstFree]
    BY <1>4 DEF SendTooBig, SendTake
  <2>2. FirstFree \in Tags /\ ~queue[FirstFree].in_use BY <2>1, FirstFreeIsFree
  <2>3. queue[FirstFree].reply = NONE BY <2>1, <2>2 DEF RepliesMatch
  <2>4. tag'[t] = FirstFree /\ \A u \in Callers \ {t} : tag'[u] = tag[u]
    BY <2>1 DEF TypeOK, CallerType
  <2>5. ASSUME NEW u \in Callers \ {t}, Holds(u)
        PROVE  queue'[tag[u]].reply = queue[tag[u]].reply
    <3>1. tag[u] \in Tags /\ tag[u] # FirstFree BY <2>2, <2>5 DEF SlotOwners, OwnedSlot
    <3> QED BY <1>4, <3>1 DEF SendTooBig, SendTake, TypeOK, StructType
  <2>6. \A u \in Callers \ {t} : CallKept(u) BY <1>1, <1>4, <2>4, <2>5, CallKeptWhen
  <2> QED BY <2>1, <2>2, <2>3, <2>4, <2>6, RoomLeft
<1>5. CASE SendTooBig(t)
  <2>1. pc'[t] = "tagged" BY <1>5 DEF SendTooBig, TypeOK, CallerType
  <2>2. Holds(t)' BY <1>4, <1>5, <2>1, MinusOneNoTag DEF Holds
  <2>3. queue'[FirstFree].reply = ErrorReply("too big", req[t])
    <3>1. queue'[FirstFree] = [TakeSlot(FirstFree, t) EXCEPT
                                 !.reply = ErrorReply("too big", req[t])]
      BY <1>4, <1>5 DEF SendTooBig, TypeOK, StructType
    <3>2. DOMAIN TakeSlot(FirstFree, t) = {"in_use", "sent_type", "reply", "read_buf"}
      BY <1>4, <1>5 DEF TakeSlot, TypeOK, StructType, Slots
    <3> QED BY <3>1, <3>2
  <2>4. StageOf(t)' = "waiting" /\ ReplyOf(t)' = ErrorReply("too big", req[t])
    BY <1>4, <1>5, <2>1, <2>2, <2>3, StagesAt DEF AtStage
  <2>5. /\ Stages9p' = [Stages9p EXCEPT ![t] = "waiting"]
        /\ Replies9p' = [Replies9p EXCEPT ![t] = Calls!Reply("too big", req[t])]
    BY <1>4, <1>5, <2>4, CallMoves DEF Calls!Reply, ErrorReply
  <2>6. Calls!TooBig(t)
    <3>1. /\ Stages9p[t] = "calling" /\ ~closed /\ Calls!HasRoom
          /\ UNCHANGED <<req, nreq, got, closed, eof, cpc>> /\ InFlight' = InFlight
      BY <1>1, <1>4, <1>5
    <3> QED BY <2>5, <3>1 DEF Calls!TooBig, Stages9p, Replies9p
  <2> QED BY <2>6, RefinesWhen
<1>6. CASE SendTake(t)
  <2>1. pc'[t] = "write" BY <1>6 DEF SendTake, TypeOK, CallerType
  <2>2. queue'[FirstFree].reply = NONE
    <3>1. queue'[FirstFree] = TakeSlot(FirstFree, t)
      BY <1>4, <1>6 DEF SendTake, TypeOK, StructType
    <3>2. TakeSlot(FirstFree, t).reply = NONE
      BY <1>4, <1>6 DEF TakeSlot, TypeOK, StructType, Slots
    <3> QED BY <3>1, <3>2
  <2>3. StageOf(t)' = "sending" /\ ReplyOf(t)' = NONE
    BY <1>4, <1>6, <2>1, <2>2, StagesAt DEF AtStage
  <2>4. Stages9p' = [Stages9p EXCEPT ![t] = "sending"] /\ Replies9p' = Replies9p
    BY <1>1, <1>4, <1>6, <2>3, CallMoves
  <2>5. Calls!Admit(t) BY <1>1, <1>4, <1>6, <2>4 DEF Calls!Admit, Stages9p, Replies9p
  <2> QED BY <2>5, RefinesWhen
<1> QED BY <1>2, <1>3, <1>5, <1>6

LEMMA WriteRefines ==
  ASSUME TypeOK, TypeOK', SlotOwners, RepliesInv, Next, "duplicate" \notin Faults,
         NEW t \in Callers, WriteMessage(t) \/ WriteData(t)
  PROVE  Refines
<1>1. /\ pc[t] \in {"write", "data"}
      /\ \A u \in Callers \ {t} : pc'[u] = pc[u]
      /\ UNCHANGED <<queue, tag, req, nreq, got, closed, eof, cpc, rmsg>> /\ ~eof
  BY DEF WriteMessage, WriteData, TypeOK, CallerType, closeVars, recvVars
<1>2. /\ FramesInv /\ HandInv /\ NewestInv /\ FreshInv /\ Early(t) /\ ~closed
      /\ \A u \in Callers : Sends(u) => u = t
  BY <1>1 DEF RepliesInv, FramesInv, Early, WriterInv, Sends, WriteMessage, WriteData
<1>3. \A u \in Callers \ {t} : CallKept(u) BY <1>1, CallKeptWhen
<1>4. /\ StageOf(t) = "sending" /\ Stages9p[t] = "sending" /\ Holds(t)
      /\ ReplyOf(t) = queue[tag[t]].reply
  BY <1>1, StagesAt DEF AtStage, Stages9p, Holds
<1>5. FlightIsOut /\ FlightIsOut' BY InFlightIsOut, PTL
<1>6. \A r \in InFlight : r \in InFlight'
  BY <1>1, <1>2, <1>5, OutKept, NullAssumption DEF FlightIsOut
<1>7. \A r \in InFlight' : r \in InFlight \/ (Sends(t) /\ r = req[t])
  BY <1>2, <1>5, OutStep DEF FlightIsOut
<1>8. CASE Sends(t)
  <2>1. pc'[t] = "tagged" BY <1>8, WriteKeeps
  <2>2. Holds(t)' BY <1>1, <1>4, <2>1, MinusOneNoTag DEF Holds, SlotOwners, OwnedSlot
  <2>3. StageOf(t)' = "waiting" /\ ReplyOf(t)' = ReplyOf(t)
    BY <1>1, <1>4, <2>1, <2>2, StagesAt DEF AtStage
  <2>4. Stages9p' = [Stages9p EXCEPT ![t] = "waiting"] /\ Replies9p' = Replies9p
    BY <1>3, <2>3, CallMoves
  <2>5. req[t] \notin InFlight BY <1>2, <1>5, WriterAlone DEF FlightIsOut
  <2>6. req[t] \in InFlight'
    <3>1. /\ c2s'[Len(c2s) + 1].req = req[t] /\ c2s'[Len(c2s) + 1].last
          /\ Len(c2s') = Len(c2s) + 1 /\ Len(c2s) \in Nat
      BY <1>8, WriteKeeps, WayTypes
    <3>2. Len(c2s) + 1 \in 1 .. Len(c2s') BY <3>1
    <3> QED BY <3>1, <3>2 DEF InFlight
  <2>7. InFlight' = InFlight \cup {req[t]} BY <1>6, <1>7, <2>6
  <2>8. Calls!Send(t)
    BY <1>1, <1>2, <1>4, <2>4, <2>5, <2>7 DEF Calls!Send, Stages9p, Replies9p
  <2> QED BY <2>8, RefinesWhen
<1>9. CASE ~Sends(t)
  <2>1. pc'[t] = "data" BY <1>9, WriteKeeps
  <2>2. StageOf(t)' = "sending" /\ ReplyOf(t)' = ReplyOf(t)
    BY <1>1, <1>4, <2>1, StagesAt DEF AtStage
  <2>3. Stages9p' = Stages9p /\ Replies9p' = Replies9p BY <1>3, <1>4, <2>2, CallMoves
  <2>4. InFlight' = InFlight BY <1>6, <1>7, <1>9
  <2>5. UNCHANGED Calls!vars BY <1>1, <2>3, <2>4 DEF Calls!vars, Stages9p, Replies9p
  <2> QED BY <2>5 DEF Refines
<1> QED BY <1>8, <1>9

\* A caller that gives its slot back leaves the other calls alone.
LEMMA SlotGivenBack ==
  ASSUME TypeOK, SlotOwners, NEW t \in Callers, WriteFails(t) \/ WaitTake(t) \/ PollTake(t)
  PROVE  /\ Holds(t) /\ tag'[t] = -1
         /\ \A u \in Callers \ {t} : CallKept(u)
<1>1. /\ queue' = [queue EXCEPT ![tag[t]] = EmptySlot] /\ tag' = [tag EXCEPT ![t] = -1]
  BY DEF WriteFails, WaitTake, PollTake, Return
<1>2. \A u \in Callers \ {t} : pc'[u] = pc[u]
  BY DEF WriteFails, WaitTake, PollTake, Return, TypeOK, CallerType
<1>3. tag'[t] = -1 /\ \A u \in Callers \ {t} : tag'[u] = tag[u]
  BY <1>1 DEF TypeOK, CallerType
<1>4. Holds(t)
  <2>1. pc[t] \in {"write", "data", "wait"} \/ (pc[t] = "tagged" /\ ~BadTag(t))
    BY DEF WriteFails, WaitTake, PollTake
  <2> QED BY <2>1, MinusOneNoTag DEF Holds, BadTag
<1>5. ASSUME NEW u \in Callers \ {t}, Holds(u) PROVE queue'[tag[u]].reply = queue[tag[u]].reply
  <2>1. tag[u] \in Tags /\ tag[u] # tag[t] BY <1>4, <1>5 DEF SlotOwners, OwnedSlot
  <2> QED BY <1>1, <2>1 DEF TypeOK, StructType
<1>6. \A u \in Callers \ {t} : CallKept(u) BY <1>2, <1>3, <1>5, CallKeptWhen
<1> QED BY <1>3, <1>4, <1>6

LEMMA WriteFailsRefines ==
  ASSUME TypeOK, SlotOwners, RepliesInv, NEW t \in Callers, WriteFails(t)
  PROVE  Refines
<1>1. /\ pc[t] \in {"write", "data"} /\ pc'[t] = "tagged"
      /\ UNCHANGED <<req, nreq, got, closed, eof, cpc, rmsg, c2s, pending, srv_out, s2c>>
  BY DEF WriteFails, TypeOK, CallerType, closeVars, recvVars, netVars
<1>2. eof BY DEF WriteFails, RepliesInv, FdInv
<1>3. ReplyOf(t) = NONE /\ StageOf(t) = "sending"
  BY <1>1, StagesAt DEF AtStage, RepliesInv, CleanInv, WriterInv
<1>4. tag'[t] = -1 /\ \A u \in Callers \ {t} : CallKept(u) BY SlotGivenBack
<1>5. ~Holds(t)' BY <1>1, <1>4 DEF Holds
<1>6. StageOf(t)' = "refused" /\ ReplyOf(t)' = NONE BY <1>1, <1>5, StagesAt DEF AtStage
<1>7. /\ Stages9p[t] = "sending" /\ Stages9p' = [Stages9p EXCEPT ![t] = "refused"]
      /\ Replies9p' = Replies9p
  BY <1>3, <1>4, <1>6, CallMoves DEF Stages9p
<1>8. InFlight' = InFlight BY <1>1, FlightKept
<1>9. Calls!Refuse(t) BY <1>1, <1>2, <1>7, <1>8 DEF Calls!Refuse, Stages9p, Replies9p
<1> QED BY <1>9, RefinesWhen

\* What a call returns is what has come to it, or that the client is closed.
LEMMA TakeRefines ==
  ASSUME TypeOK, SlotOwners, NEW t \in Callers, WaitTake(t) \/ PollTake(t)
  PROVE  Refines
<1>1. /\ pc[t] \in {"tagged", "wait"} /\ pc'[t] = "idle" /\ cpc # "freed"
      /\ UNCHANGED <<req, nreq, closed, eof, cpc, rmsg, c2s, pending, srv_out, s2c>>
  BY DEF WaitTake, PollTake, Return, Locks, TypeOK, CallerType, closeVars, recvVars, netVars
<1>2. Holds(t) /\ \A u \in Callers \ {t} : CallKept(u) BY SlotGivenBack
<1>3. StageOf(t) = "waiting" /\ ReplyOf(t) = queue[tag[t]].reply
  BY <1>1, <1>2, StagesAt DEF AtStage
<1>4. StageOf(t)' = "out" /\ ReplyOf(t)' = NONE BY <1>1, StagesAt DEF AtStage
<1>5. /\ Stages9p[t] = "waiting" /\ Replies9p[t] = ReplyOf(t)
      /\ Stages9p' = [Stages9p EXCEPT ![t] = "out"]
      /\ Replies9p' = [Replies9p EXCEPT ![t] = NONE]
  BY <1>2, <1>3, <1>4, CallMoves DEF Stages9p, Replies9p
<1>6. InFlight' = InFlight BY <1>1, FlightKept
<1>7. ASSUME NEW r, got' = [got EXCEPT ![t] = r] PROVE Calls!Return(t, r)
  BY <1>1, <1>5, <1>6, <1>7 DEF Calls!Return, Stages9p, Replies9p
<1>8. \/ ReplyOf(t) # NONE /\ got' = [got EXCEPT ![t] = ReplyOf(t)]
      \/ closed /\ got' = [got EXCEPT ![t] = Calls!Reply("closed", req[t])]
  <2>1. CASE WaitTake(t)
    BY <1>3, <2>1 DEF WaitTake, WaitReady, Return, Calls!Reply, ErrorReply
  <2>2. CASE PollTake(t)
    BY <1>3, <2>2 DEF PollTake, WaitReady, Return, Calls!Reply, ErrorReply
  <2> QED BY <2>1, <2>2
<1>9. CASE ReplyOf(t) # NONE /\ got' = [got EXCEPT ![t] = ReplyOf(t)]
  <2>1. Calls!Finish(t) BY <1>5, <1>7, <1>9 DEF Calls!Finish, Stages9p, Replies9p
  <2> QED BY <2>1, RefinesWhen
<1>10. CASE closed /\ got' = [got EXCEPT ![t] = Calls!Reply("closed", req[t])]
  <2>1. Calls!GiveUp(t) BY <1>5, <1>7, <1>10 DEF Calls!GiveUp, Stages9p
  <2> QED BY <2>1, RefinesWhen
<1> QED BY <1>8, <1>9, <1>10

LEMMA WaitRefines ==
  ASSUME TypeOK, SlotOwners, NEW t \in Callers, WaitBadTag(t) \/ WaitBlock(t)
  PROVE  Refines
<1>1. /\ pc[t] \in {"tagged", "wait"} /\ cpc # "freed"
      /\ UNCHANGED <<queue, req, nreq, closed, eof, cpc, rmsg, c2s, pending, srv_out, s2c>>
      /\ \A u \in Callers \ {t} : pc'[u] = pc[u] /\ tag'[u] = tag[u]
  BY DEF WaitBadTag, WaitBlock, Return, Locks, TypeOK, CallerType, structVars, closeVars,
         recvVars, netVars
<1>2. \A u \in Callers \ {t} : CallKept(u) BY <1>1, CallKeptWhen
<1>3. InFlight' = InFlight BY <1>1, FlightKept
<1>4. CASE WaitBadTag(t)
  <2>1. ~Holds(t) BY <1>4 DEF WaitBadTag, BadTag, Holds, SlotOwners, OwnedSlot
  <2>2. /\ pc'[t] = "idle" /\ got' = [got EXCEPT ![t] = Calls!Reply("bad tag", req[t])]
    BY <1>4 DEF WaitBadTag, Return, TypeOK, CallerType, Calls!Reply, ErrorReply
  <2>3. /\ StageOf(t) = "refused" /\ ReplyOf(t) = NONE
        /\ StageOf(t)' = "out" /\ ReplyOf(t)' = NONE
    BY <1>1, <2>1, <2>2, StagesAt DEF AtStage
  <2>4. /\ Stages9p[t] = "refused" /\ Stages9p' = [Stages9p EXCEPT ![t] = "out"]
        /\ Replies9p' = [Replies9p EXCEPT ![t] = NONE]
    BY <1>2, <2>3, CallMoves DEF Stages9p
  <2>5. Calls!Refused(t)
    BY <1>1, <1>3, <2>2, <2>4 DEF Calls!Refused, Calls!Return, Stages9p, Replies9p
  <2> QED BY <2>5, RefinesWhen
<1>5. CASE WaitBlock(t)
  <2>1. pc'[t] = "wait" /\ UNCHANGED <<tag, got>> BY <1>5 DEF WaitBlock, TypeOK, CallerType
  <2>2. Holds(t) BY <1>5, MinusOneNoTag DEF WaitBlock, BadTag, Holds
  <2>3. Holds(t)' BY <2>1 DEF Holds
  <2>4. /\ StageOf(t)' = StageOf(t) /\ ReplyOf(t)' = ReplyOf(t)
    BY <1>1, <2>1, <2>2, <2>3, StagesAt DEF AtStage
  <2>5. Stages9p' = Stages9p /\ Replies9p' = Replies9p BY <1>2, <2>4, CallMoves
  <2>6. UNCHANGED Calls!vars BY <1>1, <1>3, <2>1, <2>5 DEF Calls!vars, Stages9p, Replies9p
  <2> QED BY <2>6 DEF Refines
<1> QED BY <1>4, <1>5

-----------------------------------------------------------------------------
(* The steps of recv_thread, of close9p, and of what is outside.           *)

LEMMA EofStays ==
  ASSUME Next, eof
  PROVE  eof'
BY DEF Next, Call, SendStep,
      SendBlock, SendClosed, SendTooBig, SendTake, WriteMessage, WriteData, WriteFails, WaitStep,
      WaitBadTag, WaitBlock, WaitTake, PollTake, RecvStep, RecvIdle, RecvStart,
      RecvClosed, RecvHeader, RecvCheck, RecvBody, RecvStore, RecvAbort, RecvArg, RecvData, RecvStored,
      RecvGoto, RecvExit, PutReply, CloseBegin, CloseStep, CloseBlock,
      CloseFree, UseAfterFree, ServerStep, ServerRecv, ServerReply, ServerFault, ServerWrite, Disconnect,
      Terminated, netVars, vars

\* close9p closes the client before all else, and frees it once.
ClosingInv == cpc # "open" => closed

LEMMA ClosingStep ==
  ASSUME ClosingInv, Next
  PROVE  ClosingInv'
<1>1. CASE CloseBegin BY <1>1 DEF CloseBegin, ClosingInv
<1>2. CASE CloseFree BY <1>2 DEF CloseFree, ClosingInv, structVars
<1>3. CASE ~CloseBegin /\ ~CloseFree
  <2>1. UNCHANGED cpc
    BY <1>3 DEF Next, SendStep, WaitStep, CloseStep, ServerStep, Call,
       SendBlock, SendClosed, SendTooBig, SendTake, WriteMessage, WriteData,
       WriteFails, WaitBadTag, WaitBlock, WaitTake, PollTake,
       CloseBlock, UseAfterFree, ServerRecv, ServerReply,
       ServerFault, ServerWrite, Disconnect, Terminated, closeVars, vars,
       RecvStep, RecvIdle, RecvStart, RecvClosed, RecvHeader, RecvCheck,
       RecvBody, RecvStore, PutReply, RecvAbort, RecvArg, RecvData,
       RecvStored, RecvExit, RecvGoto
  <2> QED BY <2>1, ClosedStays DEF ClosingInv
<1> QED BY <1>1, <1>2, <1>3

LEMMA ClosingHolds == Spec => []ClosingInv
<1>1. Init => ClosingInv BY DEF Init, ClosingInv
<1>2. ClosingInv /\ [Next]_vars => ClosingInv'
  BY ClosingStep DEF ClosingInv, vars, structVars, closeVars
<1> QED BY <1>1, <1>2, PTL DEF Spec

LEMMA FreedStays ==
  ASSUME Next, ~CloseFree
  PROVE  (cpc' = "freed") = (cpc = "freed")
<1>1. ASSUME cpc = "freed" PROVE cpc' = "freed"
  BY <1>1 DEF Next, SendStep, WaitStep, CloseStep, ServerStep, Call,
       SendBlock, SendClosed, SendTooBig, SendTake, WriteMessage, WriteData,
       WriteFails, WaitBadTag, WaitBlock, WaitTake, PollTake, CloseBegin,
       CloseBlock, CloseFree, UseAfterFree, ServerRecv, ServerReply,
       ServerFault, ServerWrite, Disconnect, Terminated, closeVars, vars,
       RecvStep, RecvIdle, RecvStart, RecvClosed, RecvHeader, RecvCheck,
       RecvBody, RecvStore, PutReply, RecvAbort, RecvArg, RecvData,
       RecvStored, RecvExit, RecvGoto
<1> QED BY <1>1, FreeingStep

\* A step that leaves the calls alone, on a client that is closed or has lost its server.
LEMMA LoseRefines ==
  ASSUME TypeOK, TypeOK', Next, ~CloseFree, UNCHANGED callerVars,
         \A u \in Callers : CallKept(u),
         InFlight' \subseteq InFlight, closed' \/ eof'
  PROVE  Refines
<1>1. Stages9p' = Stages9p /\ Replies9p' = Replies9p BY CallsKept
<1>2. /\ (~closed') = (~closed) \/ (~closed') = FALSE
      /\ eof' = eof \/ eof' = TRUE
  BY ClosedStays, EofStays DEF TypeOK, FlagType
<1>3. (cpc' = "freed") = (cpc = "freed") BY FreedStays
<1>4. UNCHANGED <<req, nreq, got>> BY DEF callerVars
<1>5. Calls!Lose BY <1>1, <1>2, <1>3, <1>4 DEF Calls!Lose, Stages9p, Replies9p
<1> QED BY <1>5 DEF Refines, Calls!Next

\* The reply that is stored answers the owner of the slot, if there still is one.
LEMMA StoresRefines ==
  ASSUME TypeOK, TypeOK', SlotOwners, RepliesInv, Next, Stores
  PROVE  Refines
<1> PICK r0 : r0 = rmsg.req OBVIOUS
<1> DEFINE what == IF rmsg.type = "error" THEN "error" ELSE "answer"
<1>1. /\ q \in Tags /\ q = rmsg.tag /\ r0 \in Requests /\ rmsg # NONE
      /\ rmsg' = NONE /\ UNCHANGED <<c2s, pending, s2c, srv_out>>
      /\ UNCHANGED callerVars /\ UNCHANGED <<pc, req, tag, got, nreq, closed, eof, cpc>>
  BY StoresTag DEF Stores, PutReply, callerVars, closeVars, netVars
<1>2. /\ queue'[q].reply = ErrorReply(what, r0)
      /\ \A k \in Tags \ {q} : queue'[k] = queue[k]
  <2>1. queue' = [queue EXCEPT ![q].reply = ErrorReply(what, r0)] BY DEF Stores, PutReply
  <2>2. q \in DOMAIN queue /\ DOMAIN queue = Tags
        /\ DOMAIN queue[q] = {"in_use", "sent_type", "reply", "read_buf"}
    BY <1>1 DEF TypeOK, StructType, Slots
  <2> QED BY <2>1, <2>2
<1>3. /\ FramesInv /\ OnceInv /\ FlightInv BY DEF RepliesInv
<1>4. Owed(q, r0) BY <1>3, StoresOwed
<1>5. r0 \in InFlight /\ InFlight' = InFlight \ {r0}
  <2>1. FlightIsOut /\ FlightIsOut' BY InFlightIsOut, PTL
  <2>2. ~SockReq(r0) /\ ~ServerReq(r0) /\ \A j \in Places : Stream[j].req # r0
    BY <1>3, NoneLeft
  <2>3. Stream' = Stream /\ Places' = Places BY <1>1 DEF Stream, Places
  <2>4. ~Out(r0)' BY <1>1, <2>2, <2>3 DEF Out, SockReq, ServerReq, WireReq
  <2>5. \A r : r # r0 => (Out(r)' <=> Out(r))
    BY <1>1, <2>3 DEF Out, SockReq, ServerReq, WireReq
  <2>6. Out(r0) BY <1>1 DEF Out, WireReq
  <2>7. \A r : r \in InFlight' <=> r \in InFlight /\ r # r0
    BY <1>1, <2>1, <2>4, <2>5 DEF FlightIsOut
  <2> QED BY <1>1, <2>1, <2>6, <2>7 DEF FlightIsOut
<1>6. ASSUME NEW u \in Callers, ~(Holds(u) /\ tag[u] = q) PROVE CallKept(u)
  <2>1. Holds(u) => tag[u] \in Tags \ {q} BY <1>6 DEF SlotOwners, OwnedSlot
  <2> QED BY <1>1, <1>2, <2>1, CallKeptWhen
<1>7. ASSUME NEW t \in Callers, Holds(t), tag[t] = q PROVE Refines
  <2>1. /\ pc[t] \in {"tagged", "wait"} /\ req[t] = r0 /\ queue[q].reply = NONE
    BY <1>4, <1>7 DEF Owed, Owned, Awaits
  <2>2. \A u \in Callers \ {t} : CallKept(u) BY <1>6, <1>7 DEF SlotOwners
  <2>3. Holds(t)' BY <1>1, <1>7 DEF Holds
  <2>4. /\ StageOf(t) = "waiting" /\ ReplyOf(t) = NONE
        /\ StageOf(t)' = "waiting" /\ ReplyOf(t)' = ErrorReply(what, r0)
    BY <1>1, <1>2, <1>7, <2>1, <2>3, StagesAt DEF AtStage
  <2>5. /\ Stages9p[t] = "waiting" /\ Replies9p[t] = NONE
        /\ Stages9p' = Stages9p
        /\ Replies9p' = [Replies9p EXCEPT ![t] = Calls!Reply(what, req[t])]
    BY <2>1, <2>2, <2>4, CallMoves DEF Stages9p, Replies9p, Calls!Reply, ErrorReply
  <2>6. Calls!Answer(t, what)
    BY <1>1, <1>5, <2>1, <2>5 DEF Calls!Answer, Stages9p, Replies9p
  <2> QED BY <2>6, RefinesWhen
<1>8. ASSUME \A t \in Callers : ~(Holds(t) /\ tag[t] = q) PROVE Refines
  <2>1. closed BY <1>1, <1>4, <1>8, AwaitsHolds DEF Owed
  <2>2. ~CloseFree BY <1>1 DEF CloseFree, recvVars
  <2> QED BY <1>1, <1>5, <1>6, <1>8, <2>1, <2>2, LoseRefines
<1> QED BY <1>7, <1>8

\* A step that changes neither a call nor a slot loses nothing on an open client with a
\* server.
LEMMA OthersRefine ==
  ASSUME TypeOK, TypeOK', SlotOwners, RepliesInv, Next, "duplicate" \notin Faults,
         UNCHANGED <<queue, callerVars>>, ~Stores, ~CloseFree
  PROVE  Refines
<1>1. UNCHANGED <<queue, pc, req, tag, got, nreq>> BY DEF callerVars
<1>2. \A u \in Callers : CallKept(u) BY <1>1, CallKeptWhen
<1>3. FramesInv /\ HandInv /\ NoBufInv /\ FdInv BY DEF RepliesInv, FramesInv
<1>4. FlightIsOut /\ FlightIsOut' BY InFlightIsOut, PTL
<1>5. \A t \in Callers : ~Sends(t)
  <2>1. ASSUME NEW t \in Callers, Sends(t) PROVE FALSE
    <3>1. WriteMessage(t) \/ WriteData(t) BY <2>1 DEF Sends
    <3>2. pc[t] \in {"write", "data"} /\ pc'[t] = "tagged" BY <2>1, <3>1, WriteKeeps
    <3> QED BY <1>1, <3>2
  <2> QED BY <2>1
<1>6. InFlight' \subseteq InFlight
  BY <1>3, <1>4, <1>5, OutStep DEF FlightIsOut
<1>7. CASE closed' \/ eof' BY <1>2, <1>6, <1>7, LoseRefines
<1>8. CASE ~closed' /\ ~eof'
  <2>1. ASSUME NEW r \in InFlight PROVE r \in InFlight'
    BY <1>3, <1>4, <1>8, <2>1, OutKept, HandDropped DEF FlightIsOut
  <2>2. InFlight' = InFlight BY <1>6, <2>1
  <2>3. closed' = closed /\ eof' = eof
    BY <1>8, ClosedStays, EofStays DEF TypeOK, FlagType
  <2>4. Stages9p' = Stages9p /\ Replies9p' = Replies9p BY <1>2, CallsKept
  <2>5. (cpc' = "freed") = (cpc = "freed") BY FreedStays
  <2>6. UNCHANGED Calls!vars
    BY <1>1, <2>2, <2>3, <2>4, <2>5 DEF Calls!vars, Stages9p, Replies9p
  <2> QED BY <2>6 DEF Refines
<1> QED BY <1>7, <1>8

LEMMA FreeRefines ==
  ASSUME TypeOK, SlotOwners, ClosingInv, CloseFree
  PROVE  Refines
<1>1. /\ closed /\ cpc' = "freed" /\ CloseDone
      /\ UNCHANGED <<queue, pc, req, tag, got, nreq, closed, eof>>
      /\ UNCHANGED <<rmsg, c2s, pending, srv_out, s2c>>
  BY DEF CloseFree, ClosingInv, structVars, callerVars, recvVars, netVars
<1>2. \A t \in Callers : ~Holds(t)
  BY <1>1 DEF CloseDone, FreeTags, SlotOwners, OwnedSlot
<1>3. Calls!Admitted = {} BY <1>2, AdmittedOwn
<1>4. \A u \in Callers : CallKept(u) BY <1>1, CallKeptWhen
<1>5. Stages9p' = Stages9p /\ Replies9p' = Replies9p BY <1>4, CallsKept
<1>6. InFlight' = InFlight BY <1>1, FlightKept
<1>7. Calls!Free BY <1>1, <1>3, <1>5, <1>6 DEF Calls!Free, Stages9p, Replies9p
<1> QED BY <1>7 DEF Refines, Calls!Next

-----------------------------------------------------------------------------
(* The client is a Calls9p.                                                *)

LEMMA CallsInit == Init => Calls!Init
<1> SUFFICES ASSUME Init PROVE Calls!Init
  OBVIOUS
<1>1. InFlight = {} BY DEF Init, InFlight
<1>2. \A t \in Callers : StageOf(t) = "out" /\ ReplyOf(t) = NONE
  <2>1. \A t \in Callers : pc[t] = "idle" BY DEF Init
  <2> QED BY <2>1, StagesAt DEF AtStage
<1> QED BY <1>1, <1>2 DEF Init, Calls!Init

LEMMA StepRefines ==
  ASSUME TypeOK, TypeOK', SlotOwners, RepliesInv, ClosingInv, Next,
         "duplicate" \notin Faults
  PROVE  Refines
<1>0. RepliesMatch BY DEF RepliesInv
<1>1. ASSUME NEW t \in Callers, Call(t) PROVE Refines BY <1>1, CallRefines
<1>2. ASSUME NEW t \in Callers,
             SendBlock(t) \/ SendClosed(t) \/ SendTooBig(t) \/ SendTake(t)
      PROVE  Refines
  BY <1>0, <1>2, SendRefines
<1>3. ASSUME NEW t \in Callers, WriteMessage(t) \/ WriteData(t) PROVE Refines
  BY <1>3, WriteRefines
<1>4. ASSUME NEW t \in Callers, WriteFails(t) PROVE Refines BY <1>4, WriteFailsRefines
<1>5. ASSUME NEW t \in Callers, WaitTake(t) \/ PollTake(t) PROVE Refines
  BY <1>5, TakeRefines
<1>6. ASSUME NEW t \in Callers, WaitBadTag(t) \/ WaitBlock(t) PROVE Refines
  BY <1>6, WaitRefines
<1>7. CASE Stores BY <1>7, StoresRefines
<1>8. CASE CloseFree BY <1>8, FreeRefines
<1>9. CASE UNCHANGED <<queue, callerVars>> /\ ~Stores /\ ~CloseFree
  BY <1>9, OthersRefine
<1> QED BY <1>1, <1>2, <1>3, <1>4, <1>5, <1>6, <1>7, <1>8, <1>9, StepKinds

\* With a server that answers each request at most once, a client does what Calls9p
\* promises to its callers (9p.c:101-115, 138-231, 502-600): each step of the slots, the
\* mutex, recv_thread, the stream and the server is a step of the calls or none, for any
\* number of callers, slots and requests, any socket capacity and every other fault.
THEOREM ClientImplements ==
  ASSUME "duplicate" \notin Faults
  PROVE  Spec => Implements
<1>1. TypeOK /\ SlotOwners /\ [Next]_vars => TypeOK' BY TypeStep
<1>2. ASSUME UNCHANGED vars PROVE UNCHANGED Calls!vars
  <2>1. UNCHANGED <<queue, pc, req, tag, got, nreq, closed, eof, cpc>>
    BY <1>2 DEF vars, structVars, callerVars, closeVars, netVars
  <2>2. UNCHANGED <<rmsg, c2s, pending, srv_out, s2c>> BY <1>2 DEF vars, recvVars, netVars
  <2>3. InFlight' = InFlight BY <2>2, FlightKept
  <2>4. \A u \in Callers : CallKept(u) BY <2>1, CallKeptWhen
  <2>5. Stages9p' = Stages9p /\ Replies9p' = Replies9p BY <2>4, CallsKept
  <2> QED BY <2>1, <2>3, <2>5 DEF Calls!vars, Stages9p, Replies9p
<1>3. TypeOK /\ TypeOK' /\ SlotOwners /\ RepliesInv /\ ClosingInv /\ [Next]_vars
        => [Calls!Next]_(Calls!vars)
  BY <1>2, StepRefines DEF Refines
<1> QED BY <1>1, <1>3, CallsInit, TypeCorrect, SlotOwnership, RepliesInvHolds,
           ClosingHolds, PTL DEF Spec, Implements, Calls!Spec
=============================================================================
