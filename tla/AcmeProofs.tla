------------------------------ MODULE AcmeProofs ------------------------------
(***************************************************************************)
(* Proofs about Acme, for any threads, windows, names and files, and any   *)
(* stream of events that fit in the buffer.                                *)
(***************************************************************************)
EXTENDS Acme, FunctionTheorems, SequenceTheorems, TLAPS

Finding == {"find", "new", "name", "id", "open", "undo"}
ClosePcs == {"close", "unlock", "unmount"}
EventPcs == EventOps \cup {"first read"}

\* What a thread works on, at each place.
PlaceInv ==
  \A t \in Threads :
    /\ arg[t] \in Names <=> pc[t] \in {"get"} \cup Finding
    /\ pc[t] \in Finding => win[t] \in Slots
    /\ pc[t] \in EventPcs => win[t] \in EventWins

\* The mutex of the table is held across all of acme_get_win, and by acme_close
\* while it goes through the windows.
TableInv == \A t \in Threads : mtx = t <=> pc[t] \in Finding \cup {"unlock"}

\* An Acme that does not exist has nothing, and only acme_connect at work.
ConnectInv ==
  /\ ~acme => /\ open = {} /\ wins = {} /\ event = {}
              /\ \A t \in Threads : pc[t] \in {"idle", "mount", "index"}
  /\ \A t \in Threads : pc[t] \in {"mount", "index"} =>
       ~acme /\ \A u \in Threads \ {t} : pc[u] = "idle"
  /\ acme => Index \in open \/ \E t \in Threads : pc[t] = "unmount"

\* Beside the acme_close there are only calls of acme_get_win, and none that has
\* the mutex once it has seen the windows.
CloseInv ==
  \A t \in Threads : pc[t] \in ClosePcs =>
    /\ acme /\ event = {}
    /\ \A u \in Threads \ {t} : pc[u] \in {"idle", "get"} \cup Finding
    /\ pc[t] # "close" => closed
    /\ pc[t] = "unmount" => wins = {} /\ \A u \in Threads : pc[u] \notin Finding

\* Whose the windows are: one that is being opened is not in the table, one that is
\* being released is of nobody else.
WinInv ==
  /\ event \subseteq wins
  /\ \A t \in Threads :
       /\ pc[t] \in Finding => win[t] \notin wins
       /\ pc[t] \in EventPcs => win[t] \in wins
       /\ pc[t] = "release" =>
            /\ win[t] \in wins \ event
            /\ \A u \in Threads \ {t} : win[u] # win[t]

\* The files that an acme_get_win has opened.
Opened(t) ==
  CASE pc[t] \in {"name", "id"} -> {NewCtl}
    [] pc[t] = "open" -> {<<win[t], win_files[j]>> : j \in 1 .. k[t]}
    [] pc[t] = "undo" -> {<<win[t], win_files[j]>> : j \in 1 .. k[t] - 1}
    [] OTHER -> {}

FileInv ==
  /\ open \subseteq {Index} \cup {EventFile(i) : i \in event}
                    \cup (UNION {WinFiles(i) : i \in wins})
                    \cup (UNION {Opened(t) : t \in Threads})
  /\ \A i \in wins : WinFiles(i) \ {<<i, "tag">>} \subseteq open
  /\ \A i \in event : EventFile(i) \in open
  /\ \A t \in Threads :
       /\ pc[t] \notin {"open", "undo"} => k[t] = 0
       /\ pc[t] = "open" => \A j \in 1 .. k[t] : j <= 4 => <<win[t], win_files[j]>> \in open

\* Nobody but the holder of the mutex creates a window, after it saw none.
NameInv ==
  /\ OneWindowPerName
  /\ \A t \in Threads : pc[t] \in {"new", "name"} /\ arg[t] \notin unread => named[arg[t]] = 0

Uncounted(i) == IF tag[i] > 0 THEN tag[i] ELSE 0

\* The bytes of a session: those returned, in the buffer, and behind them those of a
\* read that is not counted yet.
BytesInv(i) ==
  /\ \A j \in 1 .. Len(got[i]) : got[i][j] = first[i] + j - 1
  /\ \A j \in 1 .. n[i] + Uncounted(i) : buf[i][j] = first[i] + Len(got[i]) + j - 1
  /\ first[i] + Len(got[i]) + n[i] + Uncounted(i) = pos[i]
  /\ first[i] + Len(got[i]) \in Range(Begins)
  /\ tag[i] # NoTag => dst[i] = n[i] /\ dst[i] < SizeofBuf

\* Only a session has a tag, and a new one neither a tag nor bytes.
SessionInv ==
  /\ \A i \in EventWins \ event : tag[i] = NoTag
  /\ \A i \in event : BytesInv(i)
  /\ \A t \in Threads : pc[t] = "first read" =>
       win[t] \in event /\ emtx[win[t]] = t /\ tag[win[t]] = NoTag /\ n[win[t]] = 0

-----------------------------------------------------------------------------
(* Types.                                                                  *)

Files == {Index, NewCtl} \cup UNION {WinFiles(i) \cup {EventFile(i)} : i \in Slots}

LEMMA Places == 
  /\ {"idle", "mount", "index", "get", "find", "new", "name", "id", "open", "undo", "release",
      "lock", "io", "close", "unlock", "unmount", "first read"} \subseteq Pcs
  /\ EventOps \subseteq Pcs
BY DEF Pcs

LEMMA GotoType ==
  ASSUME pc \in [Threads -> Pcs], NEW t \in Threads, NEW l \in Pcs, Goto(t, l)
  PROVE  pc' \in [Threads -> Pcs]
BY DEF Goto

LEMMA ReturnType ==
  ASSUME ThreadType, NEW t \in Threads, Return(t), UNCHANGED ncalls
  PROVE  ThreadType'
<1>1. pc' \in [Threads -> Pcs]
  BY GotoType, Places DEF Return, ThreadType
<1>2. win' \in [Threads -> 0 .. MAX_WINS]
  BY WindowAssumption DEF Return, ThreadType
<1>3. arg' \in [Threads -> Names \cup IoFiles \cup {NONE}]
  BY DEF Return, ThreadType
<1>4. k' \in [Threads -> 0 .. 5]
  BY DEF Return, ThreadType
<1> QED BY <1>1, <1>2, <1>3, <1>4 DEF ThreadType

LEMMA MoveType ==
  ASSUME ThreadType, NEW t \in Threads, NEW l \in Pcs, Goto(t, l),
         UNCHANGED <<win, arg, k, ncalls>>
  PROVE  ThreadType'
BY GotoType DEF ThreadType

LEMMA CallType ==
  ASSUME ThreadType, NEW t \in Threads, NEW l \in Pcs, NEW i \in 0 .. MAX_WINS,
         NEW a \in Names \cup IoFiles \cup {NONE}, Call(t, l, i, a)
  PROVE  ThreadType'
<1>1. pc' \in [Threads -> Pcs]
  BY GotoType DEF Call, ThreadType
<1>2. win' \in [Threads -> 0 .. MAX_WINS] /\ arg' \in [Threads -> Names \cup IoFiles \cup {NONE}]
  BY DEF Call, ThreadType
<1>3. ncalls' \in 0 .. MaxCalls
  BY ThreadAssumption DEF Call, CanCall, ThreadType
<1> QED BY <1>1, <1>2, <1>3 DEF Call, ThreadType

LEMMA ThreadTypeOfCalls ==
  ASSUME ThreadType, NEW t \in Threads, Calls(t)
  PROVE  ThreadType'
<1>1. CASE acme_connect(t)
  <2>1. pc' \in [Threads -> Pcs]
    BY <1>1, GotoType, Places DEF acme_connect, ThreadType
  <2>2. ncalls' \in 0 .. MaxCalls
    BY <1>1, ThreadAssumption DEF acme_connect, ThreadType
  <2> QED BY <1>1, <2>1, <2>2 DEF acme_connect, ThreadType
<1>2. CASE acme_close(t)
  BY <1>2, MoveType, Places DEF acme_close
<1>3. ASSUME NEW m \in Names, GetWin(t, m)
      PROVE  ThreadType'
  <2>1. 0 \in 0 .. MAX_WINS
    BY WindowAssumption
  <2>2. m \in Names \cup IoFiles \cup {NONE} /\ "get" \in Pcs
    BY Places
  <2> QED BY <1>3, <2>1, <2>2, CallType DEF GetWin
<1>4. ASSUME NEW i \in Slots, win_release(t, i) \/ \E f \in IoFiles : Io(t, i, f)
      PROVE  ThreadType'
  <2>1. i \in 0 .. MAX_WINS
    BY WindowAssumption DEF Slots
  <2>2. NONE \in Names \cup IoFiles \cup {NONE} /\ IoFiles \subseteq Names \cup IoFiles \cup {NONE}
    OBVIOUS
  <2>3. "release" \in Pcs /\ "lock" \in Pcs
    BY Places
  <2> QED BY <1>4, <2>1, <2>2, <2>3, CallType DEF win_release, Io
<1>5. ASSUME NEW i \in EventWins, NEW op \in EventOps, EventCall(t, i, op)
      PROVE  ThreadType'
  <2>1. i \in 0 .. MAX_WINS
    BY WindowAssumption
  <2>2. NONE \in Names \cup IoFiles \cup {NONE} /\ op \in Pcs
    BY Places
  <2> QED BY <1>5, <2>1, <2>2, CallType DEF EventCall
<1> QED BY <1>1, <1>2, <1>3, <1>4, <1>5 DEF Calls

LEMMA ThreadTypeOfGets ==
  ASSUME ThreadType, NEW t \in Threads, Gets(t)
  PROVE  ThreadType'
<1> USE DEF UnchangedButFiles
<1>1. CASE GetWinAtOnce(t) \/ NoId(t) \/ UndoOpens(t) \/ GetWinEnds(t)
  BY <1>1, ReturnType, Places DEF GetWinAtOnce, NoId, UndoOpens, GetWinEnds
<1>2. CASE find_win_id(t) \/ IndexUnread(t) \/ OpensNew(t) \/ WritesName(t) \/ ReadsId(t)
  BY <1>2, MoveType, Places DEF find_win_id, IndexUnread, OpensNew, WritesName, ReadsId
<1>3. CASE GetWinLocks(t)
  <2>1. pc' \in [Threads -> Pcs]
    BY <1>3, GotoType, Places DEF GetWinLocks, ThreadType
  <2>2. win' \in [Threads -> 0 .. MAX_WINS]
    BY <1>3, WindowAssumption DEF GetWinLocks, Slots, ThreadType
  <2> QED BY <1>3, <2>1, <2>2 DEF GetWinLocks, ThreadType
<1>4. ASSUME NEW ok \in BOOLEAN, open_win_file(t, ok)
      PROVE  ThreadType'
  <2>1. pc' \in [Threads -> Pcs]
    BY <1>4, GotoType, Places DEF open_win_file, ThreadType
  <2>2. Len(win_files) = 5
    BY DEF win_files
  <2>3. k' \in [Threads -> 0 .. 5]
    BY <1>4, <2>2 DEF open_win_file, ThreadType
  <2> QED BY <1>4, <2>1, <2>3 DEF open_win_file, ThreadType
<1> QED BY <1>1, <1>2, <1>3, <1>4 DEF Gets

LEMMA ThreadTypeOfOthers ==
  ASSUME ThreadType, NEW t \in Threads, Connects(t) \/ Closes(t) \/ Uses(t) \/ Reads(t)
  PROVE  ThreadType'
<1> USE DEF UnchangedButOpen, UnchangedButWins, UnchangedButIo, UnchangedButEvents
<1>1. CASE Connects(t)
  BY <1>1, MoveType, ReturnType, Places DEF Connects, Mounts, MountFails, OpensIndex, IndexFails
<1>2. CASE Closes(t) /\ ~ClosesIndex(t) /\ ~NullFile(t)
  BY <1>2, MoveType, ReturnType, Places DEF Closes, Released, CloseLocks, ClosesWins, Unmounts
<1>3. CASE Uses(t)
  BY <1>3, MoveType, ReturnType, Places DEF Uses, IoLocks, IoEnds
<1>4. CASE UNCHANGED <<threadVars, ncalls>>
  BY <1>4 DEF threadVars, ThreadType
<1>5. CASE ClosesIndex(t) \/ NullFile(t) \/ EventLocks(t) \/ ReadDone(t)
  BY <1>4, <1>5 DEF ClosesIndex, NullFile, EventLocks, ReadDone
<1>6. CASE StartOpens(t)
  BY <1>6, MoveType, Places DEF StartOpens
<1>7. CASE start_event_read(t)
  BY <1>4, <1>7, ReturnType, Places DEF start_event_read, EventReturn
<1>8. CASE \/ NothingToDo(t) \/ StartFails(t) \/ Deserializes(t) \/ IsMalformed(t)
           \/ ReadNotStarted(t) \/ PollsNothing(t) \/ ReadEnds(t) \/ StopEnds(t)
  BY <1>8, ReturnType, Places DEF NothingToDo, StartFails, Deserializes, IsMalformed, ReadNotStarted,
       PollsNothing, ReadEnds, StopEnds, EventReturn
<1> QED BY <1>1, <1>2, <1>3, <1>5, <1>6, <1>7, <1>8 DEF Closes, Reads

\* The calls of events and the server change nothing else, and only they do.
LEMMA EventFrame ==
  ASSUME NEW t \in Threads, Connects(t) \/ Gets(t) \/ Closes(t) \/ Uses(t) \/ Calls(t)
  PROVE  UNCHANGED <<emtx, event, tag, n, buf, dst, pos, first, got>>
<1> USE DEF eventVars, sessionVars
<1>1. CASE Connects(t)
  BY <1>1 DEF Connects, Mounts, MountFails, OpensIndex, IndexFails, UnchangedButOpen
<1>2. CASE Gets(t)
  BY <1>2 DEF Gets, GetWinAtOnce, GetWinLocks, find_win_id, IndexUnread, OpensNew, WritesName,
       ReadsId, NoId, open_win_file, UndoOpens, GetWinEnds, UnchangedButFiles
<1>3. CASE Closes(t)
  BY <1>3 DEF Closes, Released, CloseLocks, ClosesWins, ClosesIndex, Unmounts, NullFile,
       UnchangedButWins
<1>4. CASE Uses(t)
  BY <1>4 DEF Uses, IoLocks, IoEnds, UnchangedButIo
<1>5. CASE Calls(t)
  BY <1>5 DEF Calls, acme_connect, acme_close, GetWin, win_release, Io, EventCall, Call
<1> QED BY <1>1, <1>2, <1>3, <1>4, <1>5

LEMMA TableFrame ==
  ASSUME NEW t \in Threads, Uses(t) \/ Reads(t)
  PROVE  UNCHANGED <<acme, closed, mtx, wins, crashed, ncalls, named, unread>>
BY DEF Uses, IoLocks, IoEnds, UnchangedButIo, Reads, EventLocks, NothingToDo, StartOpens,
     StartFails, Deserializes, IsMalformed, start_event_read, ReadNotStarted, PollsNothing,
     ReadDone, ReadEnds, StopEnds, UnchangedButEvents, acmeVars

LEMMA ServeFrame ==
  ASSUME NEW i \in EventWins, Serve(i)
  PROVE  UNCHANGED <<acme, closed, mtx, wins, open, wmtx, emtx, event, n, dst, crashed,
                     pc, win, arg, k, ncalls, named, unread, first, got>>
BY DEF Serve, Events, NoEvents, Answer, acmeVars, threadVars

\* The events lie one behind the other in the stream.
LEMMA Stream ==
  /\ Total \in Nat
  /\ \A e \in DOMAIN Begins : Begins[e] \in 1 .. Total + 1
  /\ \A e \in Sent : /\ e \in DOMAIN Begins /\ e + 1 \in DOMAIN Begins
                     /\ Size(e) \in 1 .. SizeofBuf /\ Begins[e] + Size(e) = Begins[e + 1]
<1>1. /\ Begins \in Seq(Nat) /\ Len(Begins) \in Nat \ {0}
      /\ 1 \in DOMAIN Begins /\ Len(Begins) \in DOMAIN Begins
      /\ DOMAIN Begins = 1 .. Len(Begins)
  BY EventAssumption
<1>2. \A e \in DOMAIN Begins : Begins[e] \in Nat
  BY <1>1
<1>3. \A e \in DOMAIN Begins : Begins[e] >= 1 /\ Begins[e] <= Begins[Len(Begins)]
  <2> SUFFICES ASSUME NEW e \in DOMAIN Begins
               PROVE  Begins[e] >= 1 /\ Begins[e] <= Begins[Len(Begins)]
    OBVIOUS
  <2>1. e = 1 \/ 1 < e
    BY <1>1
  <2>2. e = Len(Begins) \/ e < Len(Begins)
    BY <1>1
  <2>3. Begins[1] <= Begins[e]
    BY <1>1, <1>2, <2>1, EventAssumption
  <2>4. Begins[e] <= Begins[Len(Begins)]
    BY <1>1, <1>2, <2>2, EventAssumption
  <2> QED BY <2>3, <2>4, EventAssumption
<1>4. Total \in Nat /\ \A e \in DOMAIN Begins : Begins[e] \in 1 .. Total + 1
  BY <1>1, <1>2, <1>3 DEF Total
<1>5. ASSUME NEW e \in Sent
      PROVE  /\ e \in DOMAIN Begins /\ e + 1 \in DOMAIN Begins
             /\ Size(e) \in 1 .. SizeofBuf /\ Begins[e] + Size(e) = Begins[e + 1]
  <2>1. e \in DOMAIN Begins /\ e + 1 \in DOMAIN Begins /\ e < e + 1
    BY <1>1 DEF Sent
  <2>2. Begins[e] < Begins[e + 1] /\ Begins[e] \in Nat /\ Begins[e + 1] \in Nat
    BY <1>2, <2>1, EventAssumption
  <2>3. Size(e) <= SizeofBuf /\ SizeofBuf \in Nat
    BY EventAssumption
  <2> QED BY <2>1, <2>2, <2>3 DEF Size
<1> QED BY <1>4, <1>5

SessionType ==
  /\ EventType
  /\ pos \in [EventWins -> 1 .. Total + 1] /\ first \in [EventWins -> 1 .. Total + 1]
  /\ got \in [EventWins -> Seq(0 .. Total)]

LEMMA Room == SizeofBuf \in Nat \ {0}
BY EventAssumption

\* What is known of one window.
LEMMA SessionTypeOf ==
  ASSUME SessionType, NEW i \in EventWins
  PROVE  /\ tag[i] \in {NoTag, Pending} \cup -1 .. SizeofBuf
         /\ n[i] \in 0 .. SizeofBuf /\ dst[i] \in 0 .. SizeofBuf
         /\ buf[i] \in [1 .. SizeofBuf -> 0 .. Total]
         /\ pos[i] \in 1 .. Total + 1 /\ first[i] \in 1 .. Total + 1
         /\ got[i] \in Seq(0 .. Total)
         /\ tag[i] > 0 => dst[i] + tag[i] <= SizeofBuf
BY DEF SessionType, EventType

LEMMA TakenType ==
  ASSUME SessionType, NEW i \in EventWins, NEW e \in Event(i)
  PROVE  /\ e \in Sent /\ Size(e) \in 1 .. n[i] /\ buf[i][1] = Begins[e]
         /\ SubSeq(buf[i], 1, Size(e)) \in Seq(0 .. Total)
         /\ Len(SubSeq(buf[i], 1, Size(e))) = Size(e)
         /\ \A j \in 1 .. Size(e) : SubSeq(buf[i], 1, Size(e))[j] = buf[i][j]
<1>1. e \in Sent /\ n[i] >= Size(e) /\ buf[i][1] = Begins[e]
  BY DEF Event
<1>2. Size(e) \in Nat /\ Size(e) >= 1 /\ Size(e) <= n[i] /\ n[i] <= SizeofBuf /\ n[i] \in Nat
  <2>1. n[i] \in Nat /\ n[i] <= SizeofBuf
    BY SessionTypeOf, Room
  <2>2. Size(e) \in Nat /\ Size(e) >= 1
    BY <1>1, Stream, Room
  <2> QED BY <1>1, <2>1, <2>2
<1>3. \A j \in 1 .. Size(e) : buf[i][j] \in 0 .. Total
  <2>1. \A j \in 1 .. Size(e) : j \in 1 .. SizeofBuf
    BY <1>2, Room
  <2>2. buf[i] \in [1 .. SizeofBuf -> 0 .. Total]
    BY SessionTypeOf
  <2> QED BY <2>1, <2>2
<1>4. 1 \in Int /\ Size(e) \in Int
  BY <1>2
<1>5. /\ SubSeq(buf[i], 1, Size(e)) \in Seq(0 .. Total)
      /\ Len(SubSeq(buf[i], 1, Size(e))) = IF 1 <= Size(e) THEN Size(e) - 1 + 1 ELSE 0
      /\ \A j \in 1 .. Size(e) - 1 + 1 : SubSeq(buf[i], 1, Size(e))[j] = buf[i][1 + j - 1]
  BY <1>3, <1>4, SubSeqProperties
<1> QED BY <1>1, <1>2, <1>5

\* What a call of the events, or the server, leaves of window i.
Changed(i, g, m, d, b, p, f, s) ==
  /\ tag' = [tag EXCEPT ![i] = g] /\ n' = [n EXCEPT ![i] = m] /\ dst' = [dst EXCEPT ![i] = d]
  /\ buf' = [buf EXCEPT ![i] = b] /\ pos' = [pos EXCEPT ![i] = p]
  /\ first' = [first EXCEPT ![i] = f] /\ got' = [got EXCEPT ![i] = s]

LEMMA ChangedType ==
  ASSUME SessionType, NEW i \in EventWins,
         NEW g \in {NoTag, Pending} \cup -1 .. SizeofBuf,
         NEW m \in 0 .. SizeofBuf, NEW d \in 0 .. SizeofBuf,
         NEW b \in [1 .. SizeofBuf -> 0 .. Total],
         NEW p \in 1 .. Total + 1, NEW f \in 1 .. Total + 1, NEW s \in Seq(0 .. Total),
         g > 0 => d + g <= SizeofBuf,
         Changed(i, g, m, d, b, p, f, s),
         emtx' \in [EventWins -> Threads \cup {NONE}], event' \subseteq EventWins
  PROVE  SessionType'
<1> USE DEF SessionType, EventType, Changed
<1>1. tag' \in [EventWins -> {NoTag, Pending} \cup -1 .. SizeofBuf]
  OBVIOUS
<1>2. n' \in [EventWins -> 0 .. SizeofBuf] /\ dst' \in [EventWins -> 0 .. SizeofBuf]
  OBVIOUS
<1>3. buf' \in [EventWins -> [1 .. SizeofBuf -> 0 .. Total]]
  <2> HIDE DEF Total
  <2> QED OBVIOUS
<1>4. \A j \in EventWins : tag'[j] > 0 => dst'[j] + tag'[j] <= SizeofBuf
  OBVIOUS
<1>5. pos' \in [EventWins -> 1 .. Total + 1] /\ first' \in [EventWins -> 1 .. Total + 1]
  OBVIOUS
<1>6. got' \in [EventWins -> Seq(0 .. Total)]
  OBVIOUS
<1> QED BY <1>1, <1>2, <1>3, <1>4, <1>5, <1>6

LEMMA SameAt ==
  ASSUME NEW S, NEW f, f = [j \in S |-> f[j]], NEW i \in S
  PROVE  f = [f EXCEPT ![i] = f[i]]
OBVIOUS

\* A window that is left alone.
LEMMA UnchangedAt ==
  ASSUME SessionType, NEW i \in EventWins
  PROVE  /\ tag = [tag EXCEPT ![i] = tag[i]] /\ n = [n EXCEPT ![i] = n[i]]
         /\ dst = [dst EXCEPT ![i] = dst[i]] /\ buf = [buf EXCEPT ![i] = buf[i]]
         /\ pos = [pos EXCEPT ![i] = pos[i]] /\ first = [first EXCEPT ![i] = first[i]]
         /\ got = [got EXCEPT ![i] = got[i]]
BY DEF SessionType, EventType

\* The bytes of the buffer behind an event that is taken from it.
Rest(i, e) ==
  [j \in 1 .. SizeofBuf |-> IF j + Size(e) <= n[i] THEN buf[i][j + Size(e)] ELSE buf[i][j]]
\* The buffer after a read of r bytes.
Filled(i, r) ==
  [j \in 1 .. SizeofBuf |-> IF j - dst[i] \in 1 .. r THEN pos[i] + j - dst[i] - 1 ELSE buf[i][j]]

\* The calls of events, by what they leave.
LEMMA ReadsChange ==
  ASSUME SessionType, NEW t \in Threads, Reads(t), win[t] \in EventWins
  PROVE  LET i == win[t] IN
         \/ Changed(i, tag[i], n[i], dst[i], buf[i], pos[i], first[i], got[i]) /\ UNCHANGED event
         \/ /\ StartOpens(t)
            /\ \E p \in Range(Begins) : Changed(i, tag[i], 0, dst[i], buf[i], p, p, <<>>)
         \/ /\ Deserializes(t)
            /\ \E e \in Event(i) : Changed(i, tag[i], n[i] - Size(e), dst[i], Rest(i, e), pos[i],
                    first[i], got[i] \o SubSeq(buf[i], 1, Size(e)))
         \/ start_event_read(t) /\ Changed(i, Pending, n[i], n[i], buf[i], pos[i], first[i], got[i])
         \/ ReadDone(t) /\ Changed(i, NoTag, n[i] + tag[i], dst[i], buf[i], pos[i], first[i], got[i])
         \/ /\ event' = event \ {i}
            /\ \E m \in {0, n[i]} : Changed(i, NoTag, m, dst[i], buf[i], pos[i], first[i], got[i])
<1> DEFINE i == win[t]
<1> USE UnchangedAt DEF Changed, sessionVars
<1>1. CASE EventLocks(t) \/ NothingToDo(t) \/ StartFails(t) \/ IsMalformed(t) \/ PollsNothing(t)
  BY <1>1 DEF EventLocks, NothingToDo, StartFails, IsMalformed, PollsNothing
<1>2. CASE StartOpens(t)
  <2>1. PICK p \in Range(Begins) : pos' = [pos EXCEPT ![i] = p]
    BY <1>2 DEF StartOpens
  <2>2. pos'[i] = p
    BY <2>1 DEF SessionType
  <2> QED BY <1>2, <2>1, <2>2 DEF StartOpens
<1>3. CASE Deserializes(t)
  BY <1>3 DEF Deserializes, event_size, Rest
<1>4. CASE start_event_read(t)
  BY <1>4 DEF start_event_read
<1>5. CASE ReadDone(t)
  BY <1>5 DEF ReadDone
<1>6. CASE ReadNotStarted(t) \/ ReadEnds(t) \/ StopEnds(t)
  BY <1>6 DEF ReadNotStarted, ReadEnds, StopEnds, close_event
<1> QED BY <1>1, <1>2, <1>3, <1>4, <1>5, <1>6 DEF Reads

LEMMA ServeChange ==
  ASSUME SessionType, NEW i \in EventWins, Serve(i)
  PROVE  /\ tag[i] = Pending /\ UNCHANGED event
         /\ \/ \E r \in 1 .. SizeofBuf - dst[i] :
                 /\ pos[i] + r - 1 <= Total
                 /\ Changed(i, r, n[i], dst[i], Filled(i, r), pos[i] + r, first[i], got[i])
            \/ \E r \in {0, -1} : Changed(i, r, n[i], dst[i], buf[i], pos[i], first[i], got[i])
<1> USE UnchangedAt DEF Changed, Answer
<1>1. CASE Events(i)
  BY <1>1 DEF Events, read_count, Filled
<1>2. CASE NoEvents(i)
  BY <1>2 DEF NoEvents
<1> QED BY <1>1, <1>2 DEF Serve

\* The calls of events lock and unlock the mutex of the events.
LEMMA ReadsLock ==
  ASSUME SessionType, NEW t \in Threads, Reads(t), win[t] \in EventWins
  PROVE  /\ \E h \in {emtx[win[t]], t, NONE} : emtx' = [emtx EXCEPT ![win[t]] = h]
         /\ emtx' \in [EventWins -> Threads \cup {NONE}]
         /\ event' \subseteq EventWins
<1> DEFINE i == win[t]
<1>1. \E h \in {emtx[i], t, NONE} : emtx' = [emtx EXCEPT ![i] = h]
  <2>1. emtx = [emtx EXCEPT ![i] = emtx[i]]
    BY DEF SessionType, EventType
  <2> QED BY <2>1 DEF Reads, EventLocks, NothingToDo, StartOpens, StartFails, Deserializes,
        IsMalformed, start_event_read, ReadNotStarted, PollsNothing, ReadDone, ReadEnds,
        StopEnds, EventReturn
<1>2. emtx' \in [EventWins -> Threads \cup {NONE}]
  BY <1>1 DEF SessionType, EventType
<1>3. event' \subseteq EventWins
  BY DEF Reads, EventLocks, NothingToDo, StartOpens, StartFails, Deserializes, IsMalformed,
        start_event_read, ReadNotStarted, PollsNothing, ReadDone, ReadEnds, StopEnds,
        close_event, SessionType, EventType
<1> QED BY <1>1, <1>2, <1>3

LEMMA ReadsPlace ==
  ASSUME NEW t \in Threads, Reads(t)
  PROVE  pc[t] \in EventPcs
BY DEF Reads, EventLocks, NothingToDo, StartOpens, StartFails, Deserializes, IsMalformed,
     start_event_read, FetchMore, ReadNotStarted, PollsNothing, ReadDone, ReadEnds, StopEnds,
     Holds, EventPcs, EventOps

\* The values that ReadsChange and ServeChange name are of their types.
LEMMA RestType ==
  ASSUME SessionType, NEW i \in EventWins, NEW e \in Event(i)
  PROVE  /\ Rest(i, e) \in [1 .. SizeofBuf -> 0 .. Total]
         /\ n[i] - Size(e) \in 0 .. SizeofBuf
         /\ got[i] \o SubSeq(buf[i], 1, Size(e)) \in Seq(0 .. Total)
<1>1. Size(e) \in Nat /\ n[i] \in Nat /\ Size(e) <= n[i] /\ n[i] <= SizeofBuf
  BY TakenType, SessionTypeOf, Room
<1>2. buf[i] \in [1 .. SizeofBuf -> 0 .. Total]
  BY SessionTypeOf
<1>3. ASSUME NEW j \in 1 .. SizeofBuf, j + Size(e) <= n[i]
      PROVE  buf[i][j + Size(e)] \in 0 .. Total
  <2>1. j + Size(e) \in 1 .. SizeofBuf
    BY <1>1, <1>3, Room
  <2> QED BY <1>2, <2>1
<1>4. got[i] \o SubSeq(buf[i], 1, Size(e)) \in Seq(0 .. Total)
  BY TakenType, SessionTypeOf, ConcatProperties
<1> QED BY <1>1, <1>2, <1>3, <1>4, Room DEF Rest

LEMMA FilledType ==
  ASSUME SessionType, NEW i \in EventWins, NEW r \in 1 .. SizeofBuf - dst[i],
         pos[i] + r - 1 <= Total
  PROVE  /\ Filled(i, r) \in [1 .. SizeofBuf -> 0 .. Total]
         /\ pos[i] + r \in 1 .. Total + 1 /\ r \in -1 .. SizeofBuf /\ dst[i] + r <= SizeofBuf
<1>1. dst[i] \in Nat /\ pos[i] \in Nat /\ pos[i] >= 1 /\ r \in Nat /\ SizeofBuf \in Nat /\ Total \in Nat
  BY SessionTypeOf, Room, Stream
<1>2. buf[i] \in [1 .. SizeofBuf -> 0 .. Total]
  BY SessionTypeOf
<1>3. ASSUME NEW j \in 1 .. SizeofBuf, j - dst[i] \in 1 .. r
      PROVE  pos[i] + j - dst[i] - 1 \in 0 .. Total
  BY <1>1, <1>3
<1>4. Filled(i, r) \in [1 .. SizeofBuf -> 0 .. Total]
  BY <1>2, <1>3 DEF Filled
<1> QED BY <1>1, <1>4

LEMMA SessionTypeStep ==
  ASSUME SessionType, SessionInv, PlaceInv,
         \/ \E t \in Threads : Reads(t)
         \/ \E i \in EventWins : Serve(i)
  PROVE  SessionType'
<1>1. ASSUME NEW t \in Threads, Reads(t)
      PROVE  SessionType'
  <2> DEFINE i == win[t]
  <2>1. i \in EventWins
    BY <1>1, ReadsPlace DEF PlaceInv
  <2>2. emtx' \in [EventWins -> Threads \cup {NONE}] /\ event' \subseteq EventWins
    BY <1>1, <2>1, ReadsLock
  <2> HIDE DEF i
  <2>3. /\ tag[i] \in {NoTag, Pending} \cup -1 .. SizeofBuf
        /\ n[i] \in 0 .. SizeofBuf /\ dst[i] \in 0 .. SizeofBuf
        /\ buf[i] \in [1 .. SizeofBuf -> 0 .. Total]
        /\ pos[i] \in 1 .. Total + 1 /\ first[i] \in 1 .. Total + 1
        /\ got[i] \in Seq(0 .. Total)
        /\ tag[i] > 0 => dst[i] + tag[i] <= SizeofBuf
    BY <2>1, SessionTypeOf
  <2>4. NoTag \in {NoTag, Pending} \cup -1 .. SizeofBuf /\ Pending \in {NoTag, Pending} \cup -1 .. SizeofBuf
          /\ ~(NoTag > 0) /\ ~(Pending > 0) /\ 0 \in 0 .. SizeofBuf
    BY Room DEF NoTag, Pending
  <2>5. CASE Changed(i, tag[i], n[i], dst[i], buf[i], pos[i], first[i], got[i])
    BY <2>1, <2>2, <2>3, <2>5, ChangedType
  <2>6. ASSUME NEW p \in Range(Begins), Changed(i, tag[i], 0, dst[i], buf[i], p, p, <<>>)
        PROVE  SessionType'
    <3>1. p \in 1 .. Total + 1
      BY Stream DEF Range
    <3>2. <<>> \in Seq(0 .. Total)
      BY EmptySeq
    <3> QED BY <2>1, <2>2, <2>3, <2>4, <2>6, <3>1, <3>2, ChangedType
  <2>7. ASSUME NEW e \in Event(i),
               Changed(i, tag[i], n[i] - Size(e), dst[i], Rest(i, e), pos[i], first[i],
                       got[i] \o SubSeq(buf[i], 1, Size(e)))
        PROVE  SessionType'
    <3>1. /\ Rest(i, e) \in [1 .. SizeofBuf -> 0 .. Total]
          /\ n[i] - Size(e) \in 0 .. SizeofBuf
          /\ got[i] \o SubSeq(buf[i], 1, Size(e)) \in Seq(0 .. Total)
      BY <2>1, RestType
    <3> QED BY <2>1, <2>2, <2>3, <2>7, <3>1, ChangedType
  <2>8. CASE Changed(i, Pending, n[i], n[i], buf[i], pos[i], first[i], got[i])
    BY <2>1, <2>2, <2>3, <2>4, <2>8, ChangedType
  <2>9. CASE ReadDone(t) /\ Changed(i, NoTag, n[i] + tag[i], dst[i], buf[i], pos[i], first[i], got[i])
    <3>1. i \in event /\ tag[i] > 0
      BY <2>9 DEF ReadDone, i
    <3>2. dst[i] = n[i]
      BY <3>1, <2>4 DEF SessionInv, BytesInv
    <3>3. n[i] + tag[i] \in 0 .. SizeofBuf
      BY <2>3, <3>1, <3>2, Room DEF NoTag, Pending
    <3> QED BY <2>1, <2>2, <2>3, <2>4, <2>9, <3>3, ChangedType
  <2>10. ASSUME NEW m \in {0, n[i]}, Changed(i, NoTag, m, dst[i], buf[i], pos[i], first[i], got[i])
         PROVE  SessionType'
    <3>1. m \in 0 .. SizeofBuf
      BY <2>3, <2>4
    <3> QED BY <2>1, <2>2, <2>3, <2>4, <2>10, <3>1, ChangedType
  <2> QED BY <1>1, <2>1, <2>5, <2>6, <2>7, <2>8, <2>9, <2>10, ReadsChange DEF i
<1>2. ASSUME NEW i \in EventWins, Serve(i)
      PROVE  SessionType'
  <2>1. UNCHANGED <<emtx, event>>
    BY <1>2, ServeFrame
  <2>2. emtx' \in [EventWins -> Threads \cup {NONE}] /\ event' \subseteq EventWins
    BY <2>1 DEF SessionType, EventType
  <2>3. /\ n[i] \in 0 .. SizeofBuf /\ dst[i] \in 0 .. SizeofBuf
        /\ buf[i] \in [1 .. SizeofBuf -> 0 .. Total]
        /\ pos[i] \in 1 .. Total + 1 /\ first[i] \in 1 .. Total + 1
        /\ got[i] \in Seq(0 .. Total)
    BY SessionTypeOf
  <2>4. ASSUME NEW r \in 1 .. SizeofBuf - dst[i], pos[i] + r - 1 <= Total,
               Changed(i, r, n[i], dst[i], Filled(i, r), pos[i] + r, first[i], got[i])
        PROVE  SessionType'
    <3>1. /\ Filled(i, r) \in [1 .. SizeofBuf -> 0 .. Total]
          /\ pos[i] + r \in 1 .. Total + 1 /\ r \in -1 .. SizeofBuf /\ dst[i] + r <= SizeofBuf
      BY <2>4, FilledType
    <3> QED BY <2>2, <2>3, <2>4, <3>1, ChangedType
  <2>5. ASSUME NEW r \in {0, -1}, Changed(i, r, n[i], dst[i], buf[i], pos[i], first[i], got[i])
        PROVE  SessionType'
    <3>1. r \in -1 .. SizeofBuf /\ ~(r > 0)
      BY Room
    <3> QED BY <2>2, <2>3, <2>5, <3>1, ChangedType
  <2> QED BY <1>2, <2>4, <2>5, ServeChange
<1> QED BY <1>1, <1>2

TableType ==
  /\ acme \in BOOLEAN /\ closed \in BOOLEAN /\ crashed \in BOOLEAN
  /\ mtx \in Threads \cup {NONE} /\ wins \subseteq Slots
  /\ wmtx \in [Slots -> Threads \cup {NONE}]
  /\ named \in [Names -> Nat] /\ unread \subseteq Names

LEMMA TableTypeStep ==
  ASSUME TableType, PlaceInv, Next
  PROVE  TableType'
<1> USE DEF TableType
<1>1. ASSUME NEW t \in Threads, Connects(t)
      PROVE  TableType'
  BY <1>1 DEF Connects, Mounts, MountFails, OpensIndex, IndexFails, UnchangedButOpen
<1>2. ASSUME NEW t \in Threads, GetWinAtOnce(t) \/ GetWinLocks(t) \/ find_win_id(t) \/ OpensNew(t)
                              \/ ReadsId(t) \/ NoId(t) \/ UndoOpens(t)
      PROVE  TableType'
  BY <1>2 DEF GetWinAtOnce, GetWinLocks, find_win_id, OpensNew, ReadsId, NoId, UndoOpens,
       UnchangedButFiles, LockTable
<1>3. ASSUME NEW t \in Threads, IndexUnread(t) \/ WritesName(t)
      PROVE  TableType'
  <2>1. arg[t] \in Names
    BY <1>3 DEF IndexUnread, WritesName, PlaceInv, Finding
  <2> QED BY <1>3, <2>1 DEF IndexUnread, WritesName, UnchangedButFiles
<1>4. ASSUME NEW t \in Threads, GetWinEnds(t) \/ \E ok \in BOOLEAN : open_win_file(t, ok)
      PROVE  TableType'
  <2>1. win[t] \in Slots
    BY <1>4 DEF GetWinEnds, open_win_file, PlaceInv, Finding
  <2> QED BY <1>4, <2>1 DEF GetWinEnds, open_win_file, UnchangedButFiles
<1>5. ASSUME NEW t \in Threads, Closes(t)
      PROVE  TableType'
  BY <1>5 DEF Closes, Released, CloseLocks, ClosesWins, ClosesIndex, Unmounts, NullFile,
       UnchangedButWins, acmeVars
<1>6. ASSUME NEW t \in Threads, Uses(t)
      PROVE  TableType'
  <2>1. UNCHANGED <<acme, closed, mtx, wins, crashed, named, unread>>
    BY <1>6, TableFrame
  <2>2. wmtx' \in [Slots -> Threads \cup {NONE}]
    BY <1>6 DEF Uses, IoLocks, IoEnds
  <2> QED BY <2>1, <2>2
<1>7. ASSUME NEW t \in Threads, Reads(t)
      PROVE  TableType'
  <2>1. UNCHANGED <<acme, closed, mtx, wins, crashed, named, unread>>
    BY <1>7, TableFrame
  <2>2. UNCHANGED wmtx
    BY <1>7 DEF Reads, EventLocks, NothingToDo, StartOpens, StartFails, Deserializes, IsMalformed,
         start_event_read, ReadNotStarted, PollsNothing, ReadDone, ReadEnds, StopEnds,
         UnchangedButEvents
  <2> QED BY <2>1, <2>2
<1>8. ASSUME NEW t \in Threads, Calls(t)
      PROVE  TableType'
  BY <1>8 DEF Calls, acme_connect, acme_close, GetWin, win_release, Io, EventCall, Call, acmeVars
<1>9. ASSUME NEW i \in EventWins, Serve(i)
      PROVE  TableType'
  BY <1>9, ServeFrame
<1> QED BY <1>1, <1>2, <1>3, <1>4, <1>5, <1>6, <1>7, <1>8, <1>9 DEF Next, Step, Gets

-----------------------------------------------------------------------------
(* Places, the mutex of the table, acme_connect and acme_close.            *)

\* One thread moves at a time.
LEMMA Moves ==
  ASSUME ThreadType, NEW t \in Threads, NEW u \in Threads \ {t}, Step(t) \/ Calls(t)
  PROVE  UNCHANGED <<pc[u], win[u], arg[u], k[u]>>
<1> USE DEF ThreadType, Goto, Return, threadVars
<1>1. CASE Connects(t)
  BY <1>1 DEF Connects, Mounts, MountFails, OpensIndex, IndexFails
<1>2. CASE Gets(t)
  BY <1>2 DEF Gets, GetWinAtOnce, GetWinLocks, find_win_id, IndexUnread, OpensNew, WritesName,
       ReadsId, NoId, open_win_file, UndoOpens, GetWinEnds
<1>3. CASE Closes(t)
  BY <1>3 DEF Closes, Released, CloseLocks, ClosesWins, ClosesIndex, Unmounts, NullFile
<1>4. CASE Uses(t)
  BY <1>4 DEF Uses, IoLocks, IoEnds
<1>5. CASE Reads(t)
  BY <1>5 DEF Reads, EventLocks, NothingToDo, StartOpens, StartFails, Deserializes, IsMalformed,
       start_event_read, ReadNotStarted, PollsNothing, ReadDone, ReadEnds, StopEnds, EventReturn
<1>6. CASE Calls(t)
  BY <1>6 DEF Calls, acme_connect, acme_close, GetWin, win_release, Io, EventCall, Call
<1> QED BY <1>1, <1>2, <1>3, <1>4, <1>5, <1>6 DEF Step

\* Where a thread goes, and with what.
LEMMA GetsMoves ==
  ASSUME ThreadType, PlaceInv, NEW t \in Threads, Gets(t)
  PROVE  /\ pc[t] \in {"get"} \cup Finding /\ (pc[t] = "get" => mtx = NONE)
         /\ \/ pc'[t] = "idle" /\ arg'[t] = NONE /\ win'[t] = 0 /\ k'[t] = 0
               /\ (mtx' = NONE \/ (pc[t] = "get" /\ UNCHANGED mtx))
            \/ /\ pc'[t] \in Finding /\ UNCHANGED arg[t]
               /\ \/ pc[t] # "get" /\ UNCHANGED <<mtx, win[t]>>
                  \/ pc[t] = "get" /\ mtx' = t /\ win'[t] \in Slots \ wins
<1> USE DEF ThreadType, Goto, Return
<1>1. CASE GetWinAtOnce(t)
  BY <1>1 DEF GetWinAtOnce
<1>2. CASE GetWinLocks(t)
  BY <1>2 DEF GetWinLocks, LockTable, Finding
<1>3. CASE find_win_id(t) \/ IndexUnread(t) \/ OpensNew(t) \/ WritesName(t) \/ ReadsId(t)
  BY <1>3 DEF find_win_id, IndexUnread, OpensNew, WritesName, ReadsId, Finding
<1>4. CASE NoId(t) \/ UndoOpens(t) \/ GetWinEnds(t)
  BY <1>4 DEF NoId, UndoOpens, GetWinEnds, Finding
<1>5. CASE \E ok \in BOOLEAN : open_win_file(t, ok)
  BY <1>5 DEF open_win_file, Finding
<1> QED BY <1>1, <1>2, <1>3, <1>4, <1>5 DEF Gets

LEMMA CallsMoves ==
  ASSUME ThreadType, NEW t \in Threads, Calls(t)
  PROVE  /\ pc[t] = "idle"
         /\ \/ pc'[t] = "get" /\ arg'[t] \in Names /\ win'[t] = 0 /\ CanCall(t)
            \/ pc'[t] \in {"mount", "close"} /\ UNCHANGED <<arg[t], win[t]>>
            \/ /\ pc'[t] \in {"release", "lock"} /\ arg'[t] \in IoFiles \cup {NONE}
               /\ win'[t] \in wins /\ CanCall(t) /\ ~Releasing(win'[t])
               /\ pc'[t] = "release" => /\ win'[t] \notin event
                                        /\ \A u \in Threads : win[u] # win'[t]
            \/ /\ pc'[t] \in EventOps /\ arg'[t] = NONE /\ win'[t] \in wins \cap EventWins
               /\ CanCall(t) /\ ~Releasing(win'[t])
<1> USE DEF ThreadType, Goto, Call
<1>1. CASE acme_connect(t) \/ acme_close(t)
  BY <1>1 DEF acme_connect, acme_close
<1>2. ASSUME NEW m \in Names, GetWin(t, m)
      PROVE  pc[t] = "idle" /\ pc'[t] = "get" /\ arg'[t] \in Names /\ win'[t] = 0 /\ CanCall(t)
  BY <1>2 DEF GetWin, CanCall
<1>3. ASSUME NEW i \in Slots, win_release(t, i)
      PROVE  /\ pc[t] = "idle" /\ pc'[t] = "release" /\ arg'[t] = NONE /\ win'[t] = i
             /\ i \in wins \ event /\ CanCall(t) /\ ~Releasing(i)
             /\ \A u \in Threads : win[u] # i
  BY <1>3 DEF win_release, CanCall, Releasing
<1>4. ASSUME NEW i \in Slots, NEW f \in IoFiles, Io(t, i, f)
      PROVE  /\ pc[t] = "idle" /\ pc'[t] = "lock" /\ arg'[t] = f /\ win'[t] = i
             /\ i \in wins /\ CanCall(t) /\ ~Releasing(i)
  BY <1>4 DEF Io, CanCall
<1>5. ASSUME NEW i \in EventWins, NEW op \in EventOps, EventCall(t, i, op)
      PROVE  /\ pc[t] = "idle" /\ pc'[t] = op /\ arg'[t] = NONE /\ win'[t] = i
             /\ i \in wins /\ CanCall(t) /\ ~Releasing(i)
  BY <1>5 DEF EventCall, CanCall
<1> QED BY <1>1, <1>2, <1>3, <1>4, <1>5 DEF Calls

Returned(t) == pc'[t] = "idle" /\ arg'[t] = NONE /\ win'[t] = 0

LEMMA ConnectsMoves ==
  ASSUME ThreadType, NEW t \in Threads, Connects(t)
  PROVE  /\ pc[t] \in {"mount", "index"}
         /\ \/ pc'[t] = "index" /\ UNCHANGED <<arg[t], win[t], acme, open>>
            \/ Returned(t) /\ UNCHANGED <<acme, open>>
            \/ Returned(t) /\ acme' = TRUE /\ open' = open \cup {Index}
BY DEF Connects, Mounts, MountFails, OpensIndex, IndexFails, ThreadType, Goto, Return, Returned

LEMMA ClosesMoves ==
  ASSUME ThreadType, NEW t \in Threads, Closes(t)
  PROVE  \/ Released(t) /\ pc[t] = "release" /\ Returned(t)
         \/ CloseLocks(t) /\ pc[t] = "close" /\ pc'[t] = "unlock" /\ UNCHANGED <<arg[t], win[t]>>
         \/ ClosesWins(t) /\ pc[t] = "unlock" /\ pc'[t] = "unmount" /\ UNCHANGED <<arg[t], win[t]>>
         \/ ClosesIndex(t) /\ pc[t] = "unmount" /\ UNCHANGED <<pc, arg, win>>
         \/ Unmounts(t) /\ pc[t] = "unmount" /\ Returned(t)
         \/ NullFile(t) /\ UNCHANGED <<pc, arg, win>>
BY DEF Closes, Released, CloseLocks, ClosesWins, ClosesIndex, Unmounts, NullFile, ThreadType, Goto,
     Return, Returned, threadVars

LEMMA UsesMoves ==
  ASSUME ThreadType, NEW t \in Threads, Uses(t)
  PROVE  /\ pc[t] \in {"lock", "io"}
         /\ \/ pc'[t] = "io" /\ UNCHANGED <<arg[t], win[t]>>
            \/ Returned(t)
BY DEF Uses, IoLocks, IoEnds, ThreadType, Goto, Return, Returned

LEMMA ReadsMoves ==
  ASSUME ThreadType, NEW t \in Threads, Reads(t)
  PROVE  /\ pc[t] \in EventPcs
         /\ \/ pc'[t] \in EventPcs /\ UNCHANGED <<arg[t], win[t]>>
            \/ Returned(t)
<1>1. pc[t] \in EventPcs
  BY ReadsPlace
<1> USE DEF ThreadType, Goto, Return, Returned, EventReturn, threadVars
<1>2. CASE EventLocks(t) \/ StartOpens(t) \/ start_event_read(t) \/ ReadDone(t)
  BY <1>1, <1>2 DEF EventLocks, StartOpens, start_event_read, ReadDone, EventPcs
<1>3. CASE NothingToDo(t) \/ StartFails(t) \/ Deserializes(t) \/ IsMalformed(t)
           \/ ReadNotStarted(t) \/ PollsNothing(t) \/ ReadEnds(t) \/ StopEnds(t)
  BY <1>1, <1>3 DEF NothingToDo, StartFails, Deserializes, IsMalformed, ReadNotStarted,
       PollsNothing, ReadEnds, StopEnds
<1> QED BY <1>1, <1>2, <1>3 DEF Reads

\* The mutex of the table of the rest.
LEMMA OthersLock ==
  ASSUME NEW t \in Threads
  PROVE  /\ Connects(t) \/ Uses(t) \/ Reads(t) \/ Calls(t) => UNCHANGED mtx
         /\ Released(t) \/ CloseLocks(t) => mtx = NONE
         /\ Released(t) \/ ClosesIndex(t) \/ Unmounts(t) \/ NullFile(t) => UNCHANGED mtx
         /\ CloseLocks(t) => mtx' = t
         /\ ClosesWins(t) => mtx' = NONE
<1>1. Connects(t) => UNCHANGED mtx
  BY DEF Connects, Mounts, MountFails, OpensIndex, IndexFails, UnchangedButOpen
<1>2. Uses(t) \/ Reads(t) => UNCHANGED mtx
  BY TableFrame
<1>3. Calls(t) => UNCHANGED mtx
  BY DEF Calls, acme_connect, acme_close, GetWin, win_release, Io, EventCall, Call, acmeVars
<1> QED BY <1>1, <1>2, <1>3 DEF Released, CloseLocks, ClosesWins, ClosesIndex, Unmounts, NullFile,
      acmeVars

\* The places do not overlap.
LEMMA Apart ==
  /\ Finding \cap ({"idle", "get", "mount", "index", "release", "lock", "io"} \cup ClosePcs) = {}
  /\ EventPcs \cap ({"idle", "get", "mount", "index", "release", "lock", "io"} \cup ClosePcs \cup Finding) = {}
BY DEF Finding, ClosePcs, EventPcs, EventOps

LEMMA PlaceStep ==
  ASSUME TypeOK, PlaceInv, Next
  PROVE  PlaceInv'
<1> SUFFICES ASSUME NEW t \in Threads
             PROVE  /\ arg'[t] \in Names <=> pc'[t] \in {"get"} \cup Finding
                    /\ pc'[t] \in Finding => win'[t] \in Slots
                    /\ pc'[t] \in EventPcs => win'[t] \in EventWins
  BY DEF PlaceInv
<1>0. ThreadType
  BY DEF TypeOK
<1>1. /\ arg[t] \in Names <=> pc[t] \in {"get"} \cup Finding
      /\ pc[t] \in Finding => win[t] \in Slots
      /\ pc[t] \in EventPcs => win[t] \in EventWins
  BY DEF PlaceInv
<1>2. CASE UNCHANGED <<pc[t], arg[t], win[t]>>
  BY <1>1, <1>2
<1>3. ASSUME NEW u \in Threads \ {t}, Step(u) \/ Calls(u)
      PROVE  UNCHANGED <<pc[t], arg[t], win[t]>>
  BY <1>0, <1>3, Moves
<1>4. NONE \notin Names /\ \A f \in IoFiles : f \notin Names
  BY FileAssumption
<1>5. CASE Returned(t)
  BY <1>4, <1>5, Apart DEF Returned
<1>6. CASE Connects(t)
  BY <1>0, <1>1, <1>5, <1>6, ConnectsMoves, Apart
<1>7. CASE Gets(t)
  <2>1. CASE pc'[t] = "idle"
    BY <1>0, <1>4, <1>7, <2>1, GetsMoves, Apart
  <2>2. CASE pc'[t] # "idle"
    BY <1>0, <1>1, <1>7, <2>2, GetsMoves, Apart
  <2> QED BY <2>1, <2>2
<1>8. CASE Closes(t)
  BY <1>0, <1>1, <1>2, <1>5, <1>8, ClosesMoves, Apart DEF ClosePcs
<1>9. CASE Uses(t)
  BY <1>0, <1>1, <1>5, <1>9, UsesMoves, Apart
<1>10. CASE Reads(t)
  BY <1>0, <1>1, <1>5, <1>10, ReadsMoves, Apart
<1>11. CASE Calls(t)
  <2>1. pc[t] = "idle"
    BY <1>0, <1>11, CallsMoves
  <2>2. CASE pc'[t] = "get" /\ arg'[t] \in Names
    BY <2>2, Apart
  <2>3. CASE pc'[t] \in {"mount", "close"} /\ UNCHANGED <<arg[t], win[t]>>
    BY <1>1, <2>1, <2>3, Apart DEF ClosePcs
  <2>4. CASE pc'[t] \in {"release", "lock"} /\ arg'[t] \in IoFiles \cup {NONE}
    BY <1>4, <2>4, Apart
  <2>5. CASE pc'[t] \in EventOps /\ arg'[t] = NONE /\ win'[t] \in EventWins
    BY <1>4, <2>5, Apart DEF EventPcs
  <2> QED BY <1>0, <1>11, <2>2, <2>3, <2>4, <2>5, CallsMoves
<1>12. ASSUME NEW i \in EventWins, Serve(i)
       PROVE  UNCHANGED <<pc[t], arg[t], win[t]>>
  BY <1>12, ServeFrame
<1> QED BY <1>2, <1>3, <1>6, <1>7, <1>8, <1>9, <1>10, <1>11, <1>12 DEF Next, Step

LEMMA TableStep ==
  ASSUME TypeOK, PlaceInv, TableInv, Next
  PROVE  TableInv'
<1>0. ThreadType /\ mtx \in Threads \cup {NONE} /\ NONE \notin Threads
  BY ThreadAssumption DEF TypeOK
<1>1. ASSUME NEW t \in Threads, Step(t) \/ Calls(t)
      PROVE  TableInv'
  <2>1. \A u \in Threads \ {t} : UNCHANGED pc[u]
    BY <1>0, <1>1, Moves
  \* The others need only look at the mutex.
  <2>2. SUFFICES /\ mtx' = t <=> pc'[t] \in Finding \cup {"unlock"}
                 /\ mtx' = mtx \/ (mtx = NONE /\ mtx' = t) \/ (mtx = t /\ mtx' = NONE)
    BY <1>0, <2>1 DEF TableInv
  <2>3. mtx = t <=> pc[t] \in Finding \cup {"unlock"}
    BY DEF TableInv
  <2>4. CASE UNCHANGED mtx /\ (pc'[t] \in Finding \cup {"unlock"} <=> pc[t] \in Finding \cup {"unlock"})
    BY <2>3, <2>4
  <2>5. CASE Connects(t)
    BY <1>0, <2>4, <2>5, ConnectsMoves, OthersLock, Apart DEF Returned
  <2>6. CASE Gets(t)
    <3>1. CASE pc[t] = "get"
      <4>1. mtx = NONE
        BY <1>0, <2>6, <3>1, GetsMoves
      <4>2. CASE pc'[t] = "idle" /\ UNCHANGED mtx
        BY <1>0, <4>1, <4>2, Apart
      <4>3. CASE pc'[t] \in Finding /\ mtx' = t
        BY <4>1, <4>3
      <4>4. CASE pc'[t] = "idle" /\ mtx' = NONE
        BY <1>0, <4>1, <4>4, Apart
      <4> QED BY <1>0, <2>6, <3>1, <4>2, <4>3, <4>4, GetsMoves
    <3>2. CASE pc[t] \in Finding
      <4>1. mtx = t
        BY <2>3, <3>2
      <4>2. CASE pc'[t] = "idle" /\ mtx' = NONE
        BY <1>0, <4>1, <4>2, Apart
      <4>3. CASE pc'[t] \in Finding /\ UNCHANGED mtx
        BY <4>1, <4>3
      <4> QED BY <1>0, <2>6, <3>2, <4>2, <4>3, GetsMoves, Apart
    <3> QED BY <1>0, <2>6, <3>1, <3>2, GetsMoves
  <2>7. CASE Released(t) \/ ClosesIndex(t) \/ Unmounts(t) \/ NullFile(t)
    <3>1. UNCHANGED mtx
      BY <2>7, OthersLock
    <3>2. \/ pc[t] \in {"release", "unmount"} /\ pc'[t] = "idle"
          \/ UNCHANGED pc
      BY <1>0, <2>7 DEF Released, ClosesIndex, Unmounts, NullFile, Goto, Return, ThreadType, threadVars
    <3> QED BY <2>4, <3>1, <3>2, Apart DEF ClosePcs
  <2>8. CASE CloseLocks(t)
    <3>1. mtx = NONE /\ mtx' = t /\ pc'[t] = "unlock"
      BY <1>0, <2>8 DEF CloseLocks, Goto, ThreadType
    <3> QED BY <3>1
  <2>9. CASE ClosesWins(t)
    <3>1. pc[t] = "unlock" /\ mtx' = NONE /\ pc'[t] = "unmount"
      BY <1>0, <2>9 DEF ClosesWins, Goto, ThreadType
    <3>2. mtx = t /\ pc'[t] \notin Finding \cup {"unlock"}
      BY <2>3, <3>1, Apart DEF ClosePcs
    <3> QED BY <1>0, <3>1, <3>2
  <2>10. CASE Uses(t)
    BY <1>0, <2>4, <2>10, UsesMoves, OthersLock, Apart DEF Returned
  <2>11. CASE Reads(t)
    BY <1>0, <2>4, <2>11, ReadsMoves, OthersLock, Apart DEF Returned, ClosePcs
  <2>12. CASE Calls(t)
    <3>1. UNCHANGED mtx /\ pc[t] = "idle"
      BY <1>0, <2>12, OthersLock, CallsMoves
    <3>2. pc'[t] \in {"get", "mount", "close", "release", "lock"} \cup EventOps
      BY <1>0, <2>12, CallsMoves
    <3> QED BY <2>4, <3>1, <3>2, Apart DEF ClosePcs, EventPcs
  <2> QED BY <1>1, <2>5, <2>6, <2>7, <2>8, <2>9, <2>10, <2>11, <2>12 DEF Step, Closes
<1>2. ASSUME NEW i \in EventWins, Serve(i)
      PROVE  TableInv'
  BY <1>2, ServeFrame DEF TableInv
<1> QED BY <1>1, <1>2 DEF Next

\* At most one acme_get_win is past the mutex.
LEMMA OneFinds ==
  ASSUME TableInv, NEW t \in Threads, NEW u \in Threads, t # u, pc[t] \in Finding \cup {"unlock"}
  PROVE  pc[u] \notin Finding \cup {"unlock"}
BY DEF TableInv

-----------------------------------------------------------------------------
(* Files.                                                                  *)

LEMMA FiveFiles ==
  /\ Len(win_files) = 5 /\ DOMAIN win_files = 1 .. 5
  /\ win_files[1] = "ctl" /\ win_files[2] = "addr" /\ win_files[3] = "data"
  /\ win_files[4] = "body" /\ win_files[5] = "tag"
  /\ Range(win_files) = {"ctl", "addr", "data", "body", "tag"}
<1>1. /\ Len(win_files) = 5 /\ DOMAIN win_files = 1 .. 5
      /\ win_files[1] = "ctl" /\ win_files[2] = "addr" /\ win_files[3] = "data"
      /\ win_files[4] = "body" /\ win_files[5] = "tag"
  BY DEF win_files
<1>2. \A j \in 1 .. 5 : j = 1 \/ j = 2 \/ j = 3 \/ j = 4 \/ j = 5
  OBVIOUS
<1> QED BY <1>1, <1>2 DEF Range

\* A file is of one window, or of none.
LEMMA FilesApart ==
  ASSUME NEW i, NEW j
  PROVE  /\ Index # NewCtl /\ Index # EventFile(i) /\ NewCtl # EventFile(i)
         /\ Index \notin WinFiles(i) /\ NewCtl \notin WinFiles(i) /\ EventFile(i) \notin WinFiles(j)
         /\ EventFile(i) = EventFile(j) => i = j
         /\ \A x \in WinFiles(i) : x \in WinFiles(j) => i = j
         /\ \A m \in 1 .. 5 : <<i, win_files[m]>> \in WinFiles(i)
<1>1. \A m \in 1 .. 5 : win_files[m] \in Range(win_files)
  BY FiveFiles DEF Range
<1>2. \A x : x \in WinFiles(i) <=> \E f \in {"ctl", "addr", "data", "body", "tag"} : x = <<i, f>>
  BY FiveFiles DEF WinFiles
<1>3. \A x : x \in WinFiles(j) <=> \E f \in {"ctl", "addr", "data", "body", "tag"} : x = <<j, f>>
  BY FiveFiles DEF WinFiles
<1>4. Index # NewCtl /\ Index # EventFile(i) /\ NewCtl # EventFile(i)
  BY DEF Index, NewCtl, EventFile
<1>5. Index \notin WinFiles(i) /\ NewCtl \notin WinFiles(i) /\ EventFile(i) \notin WinFiles(j)
  BY <1>2, <1>3 DEF Index, NewCtl, EventFile
<1>6. EventFile(i) = EventFile(j) => i = j
  BY DEF EventFile
<1>7. \A x \in WinFiles(i) : x \in WinFiles(j) => i = j
  BY <1>2, <1>3
<1>8. \A m \in 1 .. 5 : <<i, win_files[m]>> \in WinFiles(i)
  BY <1>1 DEF WinFiles
<1> QED BY <1>4, <1>5, <1>6, <1>7, <1>8

\* Only acme_close closes the index.
LEMMA IndexKept ==
  ASSUME TypeOK, FileInv, Next, ~ \E t \in Threads : ClosesIndex(t), Index \in open
  PROVE  Index \in open'
<1>1. ASSUME NEW t \in Threads, Connects(t)
      PROVE  Index \in open'
  BY <1>1, ConnectsMoves DEF TypeOK
<1>2. ASSUME NEW t \in Threads, UndoOpens(t)
      PROVE  Index \in open'
  <2>1. k[t] \in 0 .. 5
    BY DEF TypeOK, ThreadType
  <2>2. \A j \in 1 .. k[t] - 1 : <<win[t], win_files[j]>> # Index
    <3>1. Index \notin WinFiles(win[t]) /\ \A m \in 1 .. 5 : <<win[t], win_files[m]>> \in WinFiles(win[t])
      BY FilesApart
    <3>2. \A j \in 1 .. k[t] - 1 : j \in 1 .. 5
      BY <2>1
    <3> QED BY <3>1, <3>2
  <2> QED BY <1>2, <2>2 DEF UndoOpens, undo_label
<1>3. ASSUME NEW t \in Threads, Gets(t), ~UndoOpens(t)
      PROVE  Index \in open'
  <2>1. Index # NewCtl
    BY FilesApart
  <2>2. CASE \E ok \in BOOLEAN : open_win_file(t, ok)
    BY <2>2 DEF open_win_file
  <2>3. CASE OpensNew(t) \/ ReadsId(t) \/ NoId(t)
    BY <2>1, <2>3 DEF OpensNew, ReadsId, NoId
  <2>4. CASE GetWinAtOnce(t) \/ GetWinLocks(t) \/ find_win_id(t) \/ IndexUnread(t) \/ WritesName(t)
             \/ GetWinEnds(t)
    BY <2>4 DEF GetWinAtOnce, GetWinLocks, find_win_id, IndexUnread, WritesName, GetWinEnds
  <2> QED BY <1>3, <2>2, <2>3, <2>4 DEF Gets
<1>4. ASSUME NEW t \in Threads, Closes(t), ~ClosesIndex(t)
      PROVE  Index \in open'
  <2>1. \A i : Index \notin WinFiles(i)
    BY FilesApart
  <2>2. CASE Released(t) \/ ClosesWins(t)
    BY <2>1, <2>2 DEF Released, ClosesWins, win_release_with_lock
  <2>3. CASE CloseLocks(t) \/ Unmounts(t) \/ NullFile(t)
    BY <2>3 DEF CloseLocks, Unmounts, NullFile
  <2> QED BY <1>4, <2>2, <2>3 DEF Closes
<1>5. ASSUME NEW t \in Threads, Uses(t)
      PROVE  Index \in open'
  BY <1>5 DEF Uses, IoLocks, IoEnds, UnchangedButIo
<1>6. ASSUME NEW t \in Threads, Reads(t)
      PROVE  Index \in open'
  BY <1>6, FilesApart DEF Reads, EventLocks, NothingToDo, StartOpens, StartFails, Deserializes,
       IsMalformed, start_event_read, ReadNotStarted, PollsNothing, ReadDone, ReadEnds,
       StopEnds, close_event
<1>7. ASSUME NEW t \in Threads, Calls(t)
      PROVE  Index \in open'
  BY <1>7 DEF Calls, acme_connect, acme_close, GetWin, win_release, Io, EventCall, Call
<1>8. ASSUME NEW i \in EventWins, Serve(i)
      PROVE  Index \in open'
  BY <1>8, ServeFrame
<1> QED BY <1>1, <1>2, <1>3, <1>4, <1>5, <1>6, <1>7, <1>8 DEF Next, Step

\* Who changes the Acme and its windows.
LEMMA Frames ==
  ASSUME NEW t \in Threads
  PROVE  /\ Connects(t) => UNCHANGED <<closed, wins, event>>
         /\ Gets(t) => UNCHANGED <<acme, closed, event>>
         /\ Gets(t) /\ ~GetWinEnds(t) => UNCHANGED wins
         /\ Closes(t) => UNCHANGED event
         /\ Released(t) => UNCHANGED <<acme, closed>>
         /\ CloseLocks(t) => UNCHANGED <<acme, wins, open>> /\ closed' = TRUE
         /\ ClosesWins(t) => UNCHANGED <<acme, closed>> /\ wins' = {}
         /\ ClosesIndex(t) \/ NullFile(t) => UNCHANGED <<acme, closed, wins>>
         /\ Calls(t) => UNCHANGED <<acme, closed, wins, event, open>>
         /\ Uses(t) => UNCHANGED <<acme, closed, wins, event, open>>
         /\ Reads(t) => UNCHANGED <<acme, closed, wins>>
<1>1. Connects(t) => UNCHANGED <<closed, wins, event>>
  BY EventFrame DEF Connects, Mounts, MountFails, OpensIndex, IndexFails, UnchangedButOpen
<1>2. Gets(t) => UNCHANGED <<acme, closed, event>>
  BY EventFrame DEF Gets, GetWinAtOnce, GetWinLocks, find_win_id, IndexUnread, OpensNew, WritesName,
       ReadsId, NoId, open_win_file, UndoOpens, GetWinEnds, UnchangedButFiles
<1>3. Gets(t) /\ ~GetWinEnds(t) => UNCHANGED wins
  BY DEF Gets, GetWinAtOnce, GetWinLocks, find_win_id, IndexUnread, OpensNew, WritesName,
       ReadsId, NoId, open_win_file, UndoOpens
<1>4. Closes(t) => UNCHANGED event
  BY EventFrame
<1>5. /\ Released(t) => UNCHANGED <<acme, closed>>
      /\ CloseLocks(t) => UNCHANGED <<acme, wins, open>> /\ closed' = TRUE
      /\ ClosesWins(t) => UNCHANGED <<acme, closed>> /\ wins' = {}
      /\ ClosesIndex(t) \/ NullFile(t) => UNCHANGED <<acme, closed, wins>>
  BY DEF Released, CloseLocks, ClosesWins, ClosesIndex, NullFile, acmeVars
<1>6. Calls(t) => UNCHANGED <<acme, closed, wins, event, open>>
  BY EventFrame DEF Calls, acme_connect, acme_close, GetWin, win_release, Io, EventCall, Call, acmeVars
<1>7. Uses(t) => UNCHANGED <<acme, closed, wins, event, open>>
  BY EventFrame, TableFrame DEF Uses, IoLocks, IoEnds, UnchangedButIo
<1>8. Reads(t) => UNCHANGED <<acme, closed, wins>>
  BY TableFrame
<1> QED BY <1>1, <1>2, <1>3, <1>4, <1>5, <1>6, <1>7, <1>8

-----------------------------------------------------------------------------
(* acme_connect and acme_close.                                            *)

\* While there is no Acme only acme_connect moves.
LEMMA NoAcmeStep ==
  ASSUME TypeOK, PlaceInv, SessionInv, ConnectInv, ~acme, Next
  PROVE  ConnectInv'
<1>0. ThreadType /\ wins = {} /\ event = {} /\ open = {}
        /\ \A t \in Threads : pc[t] \in {"idle", "mount", "index"}
  BY DEF TypeOK, ConnectInv
<1>1. ASSUME NEW t \in Threads, Connects(t)
      PROVE  ConnectInv'
  <2>1. pc[t] \in {"mount", "index"} /\ \A u \in Threads \ {t} : pc'[u] = "idle"
    BY <1>0, <1>1, ConnectsMoves, Moves DEF ConnectInv, Step, Next
  <2>2. wins' = {} /\ event' = {}
    BY <1>0, <1>1, Frames
  <2>3. CASE pc'[t] = "index" /\ UNCHANGED <<acme, open>>
    BY <1>0, <2>1, <2>2, <2>3 DEF ConnectInv
  <2>4. CASE Returned(t) /\ UNCHANGED <<acme, open>>
    BY <1>0, <2>1, <2>2, <2>4 DEF ConnectInv, Returned
  <2>5. CASE Returned(t) /\ acme' = TRUE /\ open' = open \cup {Index}
    BY <1>0, <2>1, <2>2, <2>5 DEF ConnectInv, Returned
  <2> QED BY <1>0, <1>1, <2>3, <2>4, <2>5, ConnectsMoves
<1>2. ASSUME NEW t \in Threads, Calls(t)
      PROVE  ConnectInv'
  <2>1. acme_connect(t)
    BY <1>0, <1>2 DEF Calls, acme_close, GetWin, win_release, Io, EventCall, Call, CanCall
  <2>2. \A u \in Threads \ {t} : pc'[u] = "idle"
    BY <1>0, <1>2, <2>1, Moves DEF acme_connect
  <2>3. pc'[t] = "mount"
    BY <1>0, <2>1 DEF acme_connect, Goto, ThreadType
  <2> QED BY <1>0, <1>2, <2>2, <2>3, Frames DEF ConnectInv
<1>3. ASSUME NEW t \in Threads, Gets(t) \/ Closes(t) \/ Uses(t) \/ Reads(t)
      PROVE  FALSE
  <2>1. pc[t] \notin {"get", "lock", "io"} \cup Finding \cup EventPcs
    BY <1>0, Apart
  <2>2. ~Closes(t)
    BY <1>0 DEF Closes, Released, CloseLocks, ClosesWins, ClosesIndex, Unmounts, NullFile
  <2> QED BY <1>0, <1>3, <2>1, <2>2, GetsMoves, UsesMoves, ReadsMoves
<1>4. ASSUME NEW i \in EventWins, Serve(i)
      PROVE  ConnectInv'
  BY <1>4, ServeFrame DEF ConnectInv
<1> QED BY <1>1, <1>2, <1>3, <1>4 DEF Next, Step

LEMMA ConnectStep ==
  ASSUME TypeOK, PlaceInv, SessionInv, FileInv, ConnectInv, CloseInv, Next
  PROVE  ConnectInv'
<1>0. ThreadType
  BY DEF TypeOK
<1>1. CASE ~acme
  BY <1>1, NoAcmeStep
<1>2. CASE acme
  <2>1. \A t \in Threads : pc[t] \notin {"mount", "index"}
    BY <1>2 DEF ConnectInv
  <2>2. ASSUME NEW t \in Threads, Unmounts(t)
        PROVE  ConnectInv'
    <3>1. pc[t] = "unmount" /\ open = {} /\ \A u \in Threads : pc[u] # "get"
      BY <2>2 DEF Unmounts
    <3>2. event = {} /\ wins = {} /\ \A u \in Threads \ {t} : pc[u] = "idle"
      BY <3>1 DEF CloseInv, ClosePcs
    <3>3. \A u \in Threads : pc'[u] = "idle"
      BY <1>0, <2>2, <3>2 DEF Unmounts, Return, Goto, ThreadType
    <3>4. acme' = FALSE /\ UNCHANGED <<open, wins, event>>
      BY <2>2, EventFrame DEF Unmounts, Closes
    <3> QED BY <3>1, <3>2, <3>3, <3>4 DEF ConnectInv
  <2>3. CASE ~ \E t \in Threads : Unmounts(t)
    <3>1. ASSUME NEW t \in Threads, Step(t) \/ Calls(t), ~Unmounts(t)
          PROVE  /\ acme' = TRUE /\ pc'[t] \notin {"mount", "index"}
                 /\ pc[t] = "unmount" => pc'[t] = "unmount"
      <4>1. ~Connects(t)
        BY <1>0, <2>1, ConnectsMoves
      <4>2. CASE Gets(t)
        BY <1>0, <1>2, <4>2, GetsMoves, Apart, Frames DEF TypeOK, ClosePcs
      <4>3. CASE Closes(t)
        BY <1>0, <1>2, <2>1, <3>1, <4>3, ClosesMoves, Frames DEF Returned
      <4>4. CASE Uses(t)
        BY <1>0, <1>2, <4>4, UsesMoves, Frames DEF Returned
      <4>5. CASE Reads(t)
        BY <1>0, <1>2, <4>5, ReadsMoves, Apart, Frames DEF Returned, ClosePcs
      <4>6. CASE Calls(t)
        <5>1. acme' = TRUE /\ pc[t] = "idle"
          BY <1>0, <1>2, <4>6, Frames, CallsMoves
        <5>2. pc'[t] \notin {"mount", "index"}
          BY <1>0, <1>2, <4>6, Places DEF Calls, acme_connect, acme_close, GetWin, win_release, Io, EventCall,
               Call, Goto, ThreadType, EventOps
        <5> QED BY <5>1, <5>2
      <4> QED BY <3>1, <4>1, <4>2, <4>3, <4>4, <4>5, <4>6 DEF Step
    <3>2. ASSUME NEW i \in EventWins, Serve(i)
          PROVE  UNCHANGED <<acme, pc>>
      BY <3>2, ServeFrame
    <3>3. acme' = TRUE /\ \A t \in Threads : pc'[t] \notin {"mount", "index"}
      BY <1>0, <1>2, <2>1, <2>3, <3>1, <3>2, Moves DEF Next
    <3>4. \A t \in Threads : pc[t] = "unmount" => pc'[t] = "unmount"
      BY <1>0, <2>3, <3>1, <3>2, Moves DEF Next
    <3>5. CASE \E t \in Threads : ClosesIndex(t)
      BY <3>3, <3>4, <3>5 DEF ConnectInv, ClosesIndex
    <3>6. CASE ~ \E t \in Threads : ClosesIndex(t)
      BY <1>2, <3>3, <3>4, <3>6, IndexKept DEF ConnectInv
    <3> QED BY <3>5, <3>6
  <2> QED BY <2>2, <2>3
<1> QED BY <1>1, <1>2 DEF TypeOK

\* What CloseInv says of one thread.
Closed(t) ==
  /\ acme /\ event = {}
  /\ \A u \in Threads \ {t} : pc[u] \in {"idle", "get"} \cup Finding
  /\ pc[t] # "close" => closed
  /\ pc[t] = "unmount" => wins = {} /\ \A u \in Threads : pc[u] \notin Finding

LEMMA CloseStep ==
  ASSUME TypeOK, PlaceInv, TableInv, CloseInv, Next
  PROVE  CloseInv'
<1> SUFFICES ASSUME NEW t \in Threads, pc'[t] \in ClosePcs
             PROVE  Closed(t)'
  BY DEF CloseInv, Closed
<1>0. ThreadType
  BY DEF TypeOK
<1>1. pc[t] \in ClosePcs => Closed(t)
  BY DEF CloseInv, Closed
<1>2. CASE UNCHANGED <<acme, event, closed, wins, pc>>
  BY <1>1, <1>2 DEF Closed
<1>3. ASSUME NEW u \in Threads \ {t}, Step(u) \/ Calls(u)
      PROVE  Closed(t)'
  <2>1. pc[t] \in ClosePcs /\ pc'[t] = pc[t] /\ Closed(t)
    BY <1>0, <1>1, <1>3, Moves
  <2>2. pc[u] \in {"idle", "get"} \cup Finding /\ acme /\ event = {}
    BY <2>1 DEF Closed
  <2>3. Gets(u)
    <3>1. ~Calls(u)
      BY <2>1, <2>2 DEF Calls, acme_connect, acme_close, GetWin, win_release, Io, EventCall, Call,
           CanCall, Closing, ClosePcs
    <3>2. pc[u] \notin {"mount", "index", "lock", "io", "release"} \cup ClosePcs \cup EventPcs
      BY <2>2, Apart DEF ClosePcs
    <3>3. ~Closes(u)
      <4>1. \A v \in Threads : wmtx[win[v]] = NONE /\ pc[v] = "lock" => pc[v] \notin {"idle", "get"} \cup Finding
        BY Apart
      <4> QED BY <3>2, <4>1 DEF Closes, Released, CloseLocks, ClosesWins, ClosesIndex, Unmounts,
                 NullFile, ClosePcs
    <3>4. ~Connects(u) /\ ~Uses(u) /\ ~Reads(u)
      BY <1>0, <3>2, ConnectsMoves, UsesMoves, ReadsMoves
    <3> QED BY <1>3, <3>1, <3>3, <3>4 DEF Step
  <2>4. UNCHANGED <<acme, closed, event>>
    BY <2>3, Frames
  <2>5. \A v \in Threads \ {u} : pc'[v] = pc[v]
    BY <1>0, <1>3, Moves
  <2>6. pc'[u] \in {"idle"} \cup Finding
    BY <1>0, <2>3, GetsMoves DEF TypeOK
  <2>7. CASE pc[t] # "unmount"
    BY <2>1, <2>2, <2>4, <2>5, <2>6, <2>7 DEF Closed
  <2>8. CASE pc[t] = "unmount"
    <3>1. closed /\ wins = {} /\ \A v \in Threads : pc[v] \notin Finding
      BY <2>1, <2>8 DEF Closed
    <3>2. GetWinAtOnce(u)
      BY <2>3, <3>1 DEF Gets, GetWinLocks, find_win_id, IndexUnread, OpensNew, WritesName, ReadsId,
           NoId, open_win_file, UndoOpens, GetWinEnds, Finding
    <3>3. pc'[u] = "idle" /\ UNCHANGED wins
      BY <1>0, <3>2 DEF GetWinAtOnce, Return, Goto, ThreadType
    <3> QED BY <2>1, <2>2, <2>4, <2>5, <3>1, <3>3, Apart DEF Closed
  <2> QED BY <2>7, <2>8
<1>4. ASSUME Closes(t), Step(t)
      PROVE  Closed(t)'
  <2>0. \A u \in Threads \ {t} : pc'[u] = pc[u]
    BY <1>0, <1>4, Moves
  <2>1. CASE CloseLocks(t)
    <3>1. pc[t] = "close" /\ pc'[t] = "unlock" /\ closed' = TRUE /\ UNCHANGED <<acme, event>>
      BY <1>0, <1>4, <2>1, Frames DEF CloseLocks, Goto, ThreadType
    <3> QED BY <1>1, <2>0, <3>1 DEF Closed, ClosePcs
  <2>2. CASE ClosesWins(t)
    <3>1. pc[t] = "unlock" /\ pc'[t] = "unmount" /\ wins' = {} /\ UNCHANGED <<acme, event, closed>>
      BY <1>0, <1>4, <2>2, Frames DEF ClosesWins, Goto, ThreadType
    <3>2. \A u \in Threads \ {t} : pc[u] \notin Finding
      BY <3>1, OneFinds
    <3> QED BY <1>1, <2>0, <3>1, <3>2, Apart DEF Closed, ClosePcs
  <2>3. CASE ClosesIndex(t) \/ NullFile(t)
    <3>1. UNCHANGED <<acme, closed, wins, event>>
      BY <1>4, <2>3, Frames
    <3>2. UNCHANGED pc
      BY <2>3 DEF ClosesIndex, NullFile, threadVars
    <3> QED BY <1>2, <3>1, <3>2
  <2>4. ~Released(t) /\ ~Unmounts(t)
    BY <1>0 DEF Released, Unmounts, Return, Goto, ThreadType, ClosePcs
  <2> QED BY <1>4, <2>1, <2>2, <2>3, <2>4 DEF Closes
<1>5. CASE Calls(t)
  <2>1. acme_close(t)
    <3>1. pc'[t] \notin {"get", "release", "lock", "mount"} \cup EventOps
      BY Apart DEF ClosePcs, EventPcs
    <3> QED BY <1>0, <1>5, <3>1 DEF Calls, acme_connect, GetWin, win_release, Io, EventCall, Call, Goto,
          ThreadType
  <2>2. pc'[t] = "close" /\ acme /\ event = {}
    BY <1>0, <2>1 DEF acme_close, Goto, ThreadType
  <2>3. \A u \in Threads \ {t} : pc'[u] = pc[u] /\ pc[u] \in {"idle", "get"} \cup Finding
    BY <1>0, <1>5, <2>1, Moves DEF acme_close, PlaceInv
  <2> QED BY <1>5, <2>2, <2>3, Frames DEF Closed
<1>6. ASSUME Connects(t) \/ Gets(t) \/ Uses(t) \/ Reads(t)
      PROVE  FALSE
  BY <1>0, <1>6, ConnectsMoves, GetsMoves, UsesMoves, ReadsMoves, Apart DEF Returned, ClosePcs, TypeOK
<1>7. ASSUME NEW i \in EventWins, Serve(i)
      PROVE  Closed(t)'
  BY <1>2, <1>7, ServeFrame
<1> QED BY <1>3, <1>4, <1>5, <1>6, <1>7 DEF Next, Step

-----------------------------------------------------------------------------
(* Windows.                                                                *)

\* What WinInv says of one thread.
Owns(t) ==
  /\ pc[t] \in Finding => win[t] \notin wins
  /\ pc[t] \in EventPcs => win[t] \in wins
  /\ pc[t] = "release" =>
       /\ win[t] \in wins \ event
       /\ \A u \in Threads \ {t} : win[u] # win[t]

LEMMA WinFacts ==
  ASSUME WinInv
  PROVE  event \subseteq wins /\ \A t \in Threads : Owns(t)
BY DEF WinInv, Owns

\* A call that begins takes a window of the table that nobody releases.
LEMMA WinCalls ==
  ASSUME TypeOK, WinInv, NEW t \in Threads, Calls(t)
  PROVE  WinInv'
<1>0. ThreadType /\ event \subseteq wins /\ \A u \in Threads : Owns(u)
  BY WinFacts DEF TypeOK
<1>1. UNCHANGED <<wins, event>> /\ pc[t] = "idle"
  BY <1>0, Frames, CallsMoves
<1>2. \A u \in Threads \ {t} : UNCHANGED <<pc[u], win[u]>>
  BY <1>0, Moves
<1>3. Owns(t)' /\ \A u \in Threads : pc[u] = "release" => win'[t] # win[u]
  <2>1. CASE pc'[t] = "get" /\ win'[t] = 0
    <3>1. 0 \notin wins
      BY WindowAssumption DEF TypeOK, Slots
    <3>2. Owns(t)'
      BY <2>1, Apart DEF Owns
    <3> QED BY <1>0, <2>1, <3>1, <3>2 DEF Owns
  <2>2. CASE pc'[t] \in {"mount", "close"} /\ UNCHANGED win[t]
    <3>1. Owns(t)'
      BY <2>2, Apart DEF Owns, ClosePcs
    <3> QED BY <1>0, <1>1, <2>2, <3>1 DEF Owns
  <2>3. CASE /\ pc'[t] \in {"release", "lock"} /\ win'[t] \in wins /\ ~Releasing(win'[t])
             /\ pc'[t] = "release" => /\ win'[t] \notin event
                                      /\ \A u \in Threads : win[u] # win'[t]
    <3>1. \A u \in Threads : pc[u] = "release" => win'[t] # win[u]
      BY <2>3 DEF Releasing
    <3>2. pc'[t] \notin Finding \cup EventPcs
      BY <2>3, Apart
    <3>3. pc'[t] = "release" => /\ win'[t] \in wins' \ event'
                                /\ \A u \in Threads \ {t} : win'[u] # win'[t]
      BY <1>1, <1>2, <2>3
    <3> QED BY <3>1, <3>2, <3>3 DEF Owns
  <2>4. CASE pc'[t] \in EventOps /\ win'[t] \in wins /\ ~Releasing(win'[t])
    <3>1. pc'[t] \in EventPcs
      BY <2>4 DEF EventPcs
    <3>2. pc'[t] \notin Finding \cup {"release"}
      BY <3>1, Apart
    <3> QED BY <1>1, <2>4, <3>1, <3>2 DEF Owns, Releasing
  <2> QED BY <1>0, <2>1, <2>2, <2>3, <2>4, CallsMoves
<1>4. ASSUME NEW u \in Threads \ {t}
      PROVE  Owns(u)'
  BY <1>0, <1>1, <1>2, <1>3 DEF Owns
<1> QED BY <1>0, <1>1, <1>3, <1>4 DEF WinInv, Owns

\* A step that changes no window but perhaps the thread's own, to none.
LEMMA WinQuiet ==
  ASSUME TypeOK, WinInv, NEW t \in Threads, Step(t), UNCHANGED wins, event' \subseteq event,
         \/ pc'[t] \in {"idle", "index", "unlock", "unmount"} /\ win'[t] \in {0, win[t]}
         \/ pc'[t] \in {"lock", "io"} /\ UNCHANGED win[t]
         \/ pc'[t] \in Finding /\ pc[t] \in Finding /\ UNCHANGED win[t]
         \/ pc'[t] \in EventPcs /\ pc[t] \in EventPcs /\ UNCHANGED win[t]
         \/ pc'[t] \in Finding /\ win'[t] \notin wins
         \/ UNCHANGED <<pc[t], win[t]>>
  PROVE  WinInv'
<1>0. ThreadType /\ event \subseteq wins /\ \A u \in Threads : Owns(u)
  BY WinFacts DEF TypeOK
<1>1. \A u \in Threads \ {t} : UNCHANGED <<pc[u], win[u]>>
  BY <1>0, Moves
<1>2. 0 \notin wins
  BY WindowAssumption DEF TypeOK, Slots
<1>3. ASSUME NEW u \in Threads \ {t}
      PROVE  Owns(u)'
  <2>1. pc[u] = "release" => win'[t] # win[u]
    BY <1>0, <1>2 DEF Owns
  <2> QED BY <1>0, <1>1, <2>1 DEF Owns
<1>4. Owns(t)'
  BY <1>0, <1>1, Apart DEF Owns, ClosePcs
<1> QED BY <1>0, <1>3, <1>4 DEF WinInv, Owns

LEMMA WinStep ==
  ASSUME TypeOK, PlaceInv, TableInv, CloseInv, WinInv, Next
  PROVE  WinInv'
<1>0. ThreadType /\ event \subseteq wins /\ \A u \in Threads : Owns(u)
  BY WinFacts DEF TypeOK
<1>1. ASSUME NEW t \in Threads, Step(t)
      PROVE  WinInv'
  <2>0. \A u \in Threads \ {t} : UNCHANGED <<pc[u], win[u]>>
    BY <1>0, <1>1, Moves
  <2>1. CASE Connects(t)
    BY <1>0, <1>1, <2>1, ConnectsMoves, Frames, WinQuiet DEF Returned
  <2>2. CASE Gets(t) /\ ~GetWinEnds(t)
    <3>1. UNCHANGED <<wins, event>>
      BY <2>2, Frames
    <3> QED BY <1>0, <1>1, <2>2, <3>1, GetsMoves, WinQuiet
  <2>3. CASE GetWinEnds(t)
    <3>1. pc[t] = "open" /\ wins' = wins \cup {win[t]} /\ pc'[t] = "idle" /\ UNCHANGED event
      BY <1>0, <2>3, Frames DEF GetWinEnds, Goto, Return, ThreadType, Gets
    <3>2. \A u \in Threads \ {t} : pc[u] \notin Finding
      BY <3>1, OneFinds DEF Finding
    <3>3. \A u \in Threads \ {t} : Owns(u)'
      <4>1. win'[t] = 0
        BY <1>0, <2>3 DEF GetWinEnds, Return, ThreadType
      <4>2. 0 \notin wins
        BY WindowAssumption DEF TypeOK, Slots
      <4> QED BY <1>0, <2>0, <3>1, <3>2, <4>1, <4>2 DEF Owns
    <3>4. Owns(t)'
      BY <3>1, Apart DEF Owns
    <3> QED BY <1>0, <3>1, <3>3, <3>4 DEF WinInv, Owns
  <2>4. CASE Released(t)
    <3>1. pc[t] = "release" /\ wins' = wins \ {win[t]} /\ pc'[t] = "idle" /\ win'[t] = 0
      BY <1>0, <2>4 DEF Released, Goto, Return, ThreadType
    <3>2. UNCHANGED event /\ win[t] \notin event
      BY <1>0, <2>4, <3>1, Frames DEF Closes, Owns
    <3>3. \A u \in Threads \ {t} : win[u] # win[t]
      BY <1>0, <3>1 DEF Owns
    <3>4. 0 \notin wins
      BY WindowAssumption DEF TypeOK, Slots
    <3>5. \A u \in Threads \ {t} : Owns(u)'
      BY <1>0, <2>0, <3>1, <3>2, <3>3, <3>4 DEF Owns
    <3>6. Owns(t)'
      BY <3>1, Apart DEF Owns
    <3> QED BY <1>0, <3>1, <3>2, <3>5, <3>6 DEF WinInv, Owns
  <2>5. CASE ClosesWins(t)
    <3>1. pc[t] = "unlock" /\ pc'[t] = "unmount" /\ wins' = {}
      BY <1>0, <2>5 DEF ClosesWins, Goto, ThreadType
    <3>2. event = {} /\ UNCHANGED event
      BY <2>5, <3>1, Frames DEF CloseInv, ClosePcs, Closes
    <3>3. \A u \in Threads \ {t} : pc[u] \in {"idle", "get"} \cup Finding
      BY <3>1 DEF CloseInv, ClosePcs
    <3>4. \A u \in Threads \ {t} : Owns(u)'
      BY <2>0, <3>1, <3>3, Apart DEF Owns
    <3>5. Owns(t)'
      BY <3>1, Apart DEF Owns, ClosePcs
    <3> QED BY <3>1, <3>2, <3>4, <3>5 DEF WinInv, Owns
  <2>6. CASE ClosesIndex(t) \/ NullFile(t)
    <3>1. UNCHANGED <<wins, event>>
      BY <2>6, Frames DEF Closes
    <3>2. UNCHANGED <<pc, win>>
      BY <2>6 DEF ClosesIndex, NullFile, threadVars
    <3> QED BY <3>1, <3>2 DEF WinInv
  <2>7. CASE CloseLocks(t) \/ Unmounts(t)
    <3>1. UNCHANGED <<wins, event>>
      BY <2>7, Frames DEF Closes, Unmounts
    <3>2. pc'[t] \in {"idle", "unlock"} /\ win'[t] \in {0, win[t]}
      BY <1>0, <2>7 DEF CloseLocks, Unmounts, Goto, Return, ThreadType
    <3> QED BY <1>1, <3>1, <3>2, WinQuiet
  <2>8. CASE Uses(t)
    BY <1>0, <1>1, <2>8, UsesMoves, Frames, WinQuiet DEF Returned
  <2>9. CASE Reads(t) /\ ~StartOpens(t)
    <3>1. event' \subseteq event
      BY <2>9 DEF Reads, EventLocks, NothingToDo, StartFails, Deserializes, IsMalformed,
           start_event_read, ReadNotStarted, PollsNothing, ReadDone, ReadEnds, StopEnds, close_event
    <3>2. UNCHANGED wins
      BY <2>9, Frames
    <3>3. \/ pc'[t] = "idle" /\ win'[t] = 0
          \/ pc'[t] \in EventPcs /\ pc[t] \in EventPcs /\ UNCHANGED win[t]
      BY <1>0, <2>9, ReadsMoves DEF Returned
    <3> QED BY <1>1, <3>1, <3>2, <3>3, WinQuiet
  <2>10. CASE StartOpens(t)
    <3>1. pc[t] = "start" /\ pc'[t] = "first read" /\ UNCHANGED win /\ event' = event \cup {win[t]}
      BY <1>0, <2>10 DEF StartOpens, Holds, Goto, ThreadType
    <3>2. pc[t] \in EventPcs /\ pc'[t] \in EventPcs
      BY <3>1 DEF EventPcs, EventOps
    <3>3. UNCHANGED wins /\ win[t] \in wins
      BY <1>0, <2>10, <3>2, Frames DEF Reads, Owns
    <3>4. \A u \in Threads \ {t} : Owns(u)'
      BY <1>0, <2>0, <3>1, <3>3 DEF Owns
    <3>5. Owns(t)'
      BY <3>1, <3>2, <3>3, Apart DEF Owns
    <3> QED BY <1>0, <3>1, <3>3, <3>4, <3>5 DEF WinInv, Owns
  <2> QED BY <1>1, <2>1, <2>2, <2>3, <2>4, <2>5, <2>6, <2>7, <2>8, <2>9, <2>10 DEF Step, Closes
<1>2. ASSUME NEW t \in Threads, Calls(t)
      PROVE  WinInv'
  BY <1>2, WinCalls
<1>3. ASSUME NEW i \in EventWins, Serve(i)
      PROVE  WinInv'
  BY <1>3, ServeFrame DEF WinInv
<1> QED BY <1>1, <1>2, <1>3 DEF Next

-----------------------------------------------------------------------------
(* What FileInv says.                                                      *)

Accounted(x) ==
  \/ x = Index
  \/ \E i \in event : x = EventFile(i)
  \/ \E i \in wins : x \in WinFiles(i)
  \/ \E t \in Threads : x \in Opened(t)
HasFiles(i) == \A x \in WinFiles(i) : x # <<i, "tag">> => x \in open
Opening(t) ==
  /\ pc[t] \notin {"open", "undo"} => k[t] = 0
  /\ pc[t] = "open" => \A j \in 1 .. k[t] : j <= 4 => <<win[t], win_files[j]>> \in open

LEMMA FileFacts ==
  FileInv <=> /\ \A x \in open : Accounted(x)
              /\ \A i \in wins : HasFiles(i)
              /\ \A i \in event : EventFile(i) \in open
              /\ \A t \in Threads : Opening(t)
<1>1. (\A x \in open : Accounted(x))
        <=> open \subseteq {Index} \cup {EventFile(i) : i \in event}
                    \cup (UNION {WinFiles(i) : i \in wins})
                    \cup (UNION {Opened(t) : t \in Threads})
  BY DEF Accounted
<1>2. \A i \in wins : HasFiles(i) <=> WinFiles(i) \ {<<i, "tag">>} \subseteq open
  BY DEF HasFiles
<1> QED BY <1>1, <1>2 DEF FileInv, Opening

LEMMA FileFactsNext ==
  ASSUME \A x \in open' : Accounted(x)', \A i \in wins' : HasFiles(i)',
         \A i \in event' : EventFile(i) \in open', \A t \in Threads : Opening(t)'
  PROVE  FileInv'
<1>1. open' \subseteq {Index} \cup {EventFile(i) : i \in event'}
                    \cup (UNION {WinFiles(i) : i \in wins'})
                    \cup (UNION {Opened(t)' : t \in Threads})
  BY DEF Accounted
<1>2. \A i \in wins' : WinFiles(i) \ {<<i, "tag">>} \subseteq open'
  BY DEF HasFiles
<1> QED BY <1>1, <1>2 DEF FileInv, Opening

\* A step of the thread t, by the files that it adds and those that it takes away.
LEMMA FileMove ==
  ASSUME FileInv, NEW t \in Threads,
         \A u \in Threads \ {t} : UNCHANGED <<pc[u], win[u], k[u]>>,
         \A x \in open' \ open : Accounted(x)',
         \A x \in open' : x \in Opened(t) => Accounted(x)',
         \A i \in event \ event' : EventFile(i) \notin open',
         \A i \in wins \ wins' : \A x \in WinFiles(i) : x \notin open',
         \A i \in wins' \cap wins : \A x \in WinFiles(i) : x \in open => x \in open',
         \A i \in wins' \ wins : HasFiles(i)',
         \A i \in event' \cap event : EventFile(i) \in open => EventFile(i) \in open',
         \A i \in event' \ event : EventFile(i) \in open',
         \A u \in Threads \ {t} : pc[u] = "open" =>
           \A x \in WinFiles(win[u]) : x \in open => x \in open',
         \A u \in Threads : k[u] \in 0 .. 5,
         Opening(t)'
  PROVE  FileInv'
<1>0. /\ \A x \in open : Accounted(x)
      /\ \A i \in wins : HasFiles(i)
      /\ \A i \in event : EventFile(i) \in open
      /\ \A u \in Threads : Opening(u)
  BY FileFacts
<1>1. \A u \in Threads \ {t} : Opened(u)' = Opened(u)
  BY DEF Opened
<1>2. ASSUME NEW x \in open', x \in open, x \notin Opened(t)
      PROVE  Accounted(x)'
  <2>1. Accounted(x)
    BY <1>0, <1>2
  <2>2. CASE x = Index
    BY <2>2 DEF Accounted
  <2>3. CASE \E i \in event : x = EventFile(i)
    BY <2>3 DEF Accounted
  <2>4. CASE \E i \in wins : x \in WinFiles(i)
    BY <2>4 DEF Accounted
  <2>5. ASSUME NEW u \in Threads, x \in Opened(u)
        PROVE  Accounted(x)'
    <3>1. u # t
      BY <1>2, <2>5
    <3>2. x \in Opened(u)'
      BY <1>1, <2>5, <3>1
    <3> QED BY <3>2 DEF Accounted
  <2> QED BY <2>1, <2>2, <2>3, <2>4, <2>5 DEF Accounted
<1>3. \A x \in open' : Accounted(x)'
  BY <1>2
<1>4. ASSUME NEW i \in wins'
      PROVE  HasFiles(i)'
  <2>1. CASE i \in wins
    BY <1>0, <1>4, <2>1 DEF HasFiles
  <2> QED BY <1>4, <2>1
<1>5. \A i \in event' : EventFile(i) \in open'
  BY <1>0
<1>6. ASSUME NEW u \in Threads \ {t}
      PROVE  Opening(u)'
  <2>1. Opening(u) /\ UNCHANGED <<pc[u], win[u], k[u]>> /\ k[u] \in 0 .. 5
    BY <1>0
  <2>2. ASSUME pc[u] = "open", NEW j \in 1 .. k[u], j <= 4
        PROVE  <<win[u], win_files[j]>> \in open'
    <3>1. <<win[u], win_files[j]>> \in open
      BY <2>1, <2>2 DEF Opening
    <3>2. j \in 1 .. 5
      BY <2>1
    <3>3. <<win[u], win_files[j]>> \in WinFiles(win[u])
      BY <3>2, FilesApart
    <3> QED BY <2>2, <3>1, <3>3
  <2> QED BY <2>1, <2>2 DEF Opening
<1> QED BY <1>3, <1>4, <1>5, <1>6, FileFactsNext

\* Only open_win_file counts, and its thread begins at none.
LEMMA Counting ==
  ASSUME ThreadType, NEW t \in Threads, Step(t) \/ Calls(t)
  PROVE  \/ pc'[t] = "idle" /\ k'[t] = 0
         \/ /\ UNCHANGED k[t]
            /\ \/ UNCHANGED pc[t]
               \/ pc[t] \notin {"open", "undo"} /\ pc'[t] # "undo"
                  /\ (pc'[t] = "open" => pc[t] \in {"find", "id"})
         \/ \E ok \in BOOLEAN : open_win_file(t, ok)
<1> USE DEF ThreadType, Goto, Return, threadVars
<1>1. CASE Connects(t)
  BY <1>1 DEF Connects, Mounts, MountFails, OpensIndex, IndexFails
<1>2. CASE Gets(t)
  BY <1>2 DEF Gets, GetWinAtOnce, GetWinLocks, find_win_id, IndexUnread, OpensNew, WritesName,
       ReadsId, NoId, UndoOpens, GetWinEnds
<1>3. CASE Closes(t)
  BY <1>3 DEF Closes, Released, CloseLocks, ClosesWins, ClosesIndex, Unmounts, NullFile
<1>4. CASE Uses(t)
  BY <1>4 DEF Uses, IoLocks, IoEnds
<1>5. CASE Reads(t)
  BY <1>5 DEF Reads, EventLocks, NothingToDo, StartOpens, StartFails, Deserializes, IsMalformed,
       start_event_read, ReadNotStarted, PollsNothing, ReadDone, ReadEnds, StopEnds, EventReturn,
       FetchMore, Holds
<1>6. CASE Calls(t)
  BY <1>6 DEF Calls, acme_connect, acme_close, GetWin, win_release, Io, EventCall, Call, CanCall,
       EventOps
<1> QED BY <1>1, <1>2, <1>3, <1>4, <1>5, <1>6 DEF Step

\* A step that opens no file of a window leaves the count of the files right.
LEMMA OpeningKept ==
  ASSUME ThreadType, NEW t \in Threads, Step(t) \/ Calls(t), Opening(t),
         \A ok \in BOOLEAN : ~open_win_file(t, ok),
         pc[t] = "open" => open \subseteq open' /\ UNCHANGED win[t]
  PROVE  Opening(t)'
<1>1. CASE pc'[t] = "idle" /\ k'[t] = 0
  BY <1>1 DEF Opening
<1>2. CASE UNCHANGED <<k[t], pc[t]>>
  BY <1>2 DEF Opening
<1>3. CASE /\ UNCHANGED k[t] /\ pc[t] \notin {"open", "undo"} /\ pc'[t] # "undo"
           /\ (pc'[t] = "open" => pc[t] \in {"find", "id"})
  <2>1. k'[t] = 0
    BY <1>3 DEF Opening
  <2> QED BY <2>1 DEF Opening
<1> QED BY <1>1, <1>2, <1>3, Counting

\* A step that changes no set of files, and opens none.
LEMMA FileQuiet ==
  ASSUME ThreadType, FileInv, NEW t \in Threads, Step(t) \/ Calls(t),
         UNCHANGED <<open, wins, event>>, UNCHANGED pc[t] => UNCHANGED win[t],
         \A ok \in BOOLEAN : ~open_win_file(t, ok),
         \/ pc[t] \notin {"id", "open", "undo"} /\ (pc[t] = "name" => pc'[t] = "id")
         \/ UNCHANGED pc[t]
  PROVE  FileInv'
<1>0. /\ \A x \in open : Accounted(x)
      /\ \A i \in wins : HasFiles(i)
      /\ \A i \in event : EventFile(i) \in open
      /\ \A u \in Threads : Opening(u)
  BY FileFacts
<1>1. \A u \in Threads \ {t} : UNCHANGED <<pc[u], win[u], k[u]>> /\ Opened(u)' = Opened(u)
  BY Moves DEF Opened
<1>2. Opened(t) \subseteq Opened(t)'
  <2>1. CASE UNCHANGED pc[t]
    <3>1. CASE UNCHANGED k[t]
      BY <2>1, <3>1 DEF Opened
    <3>2. CASE pc[t] = "idle"
      BY <3>2 DEF Opened
    <3> QED BY <2>1, <3>1, <3>2, Counting
  <2>2. CASE pc[t] \notin {"id", "open", "undo"} /\ (pc[t] = "name" => pc'[t] = "id")
    BY <2>2 DEF Opened
  <2> QED BY <2>1, <2>2
<1>3. \A x \in open' : Accounted(x)'
  BY <1>0, <1>1, <1>2 DEF Accounted
<1>4. \A i \in wins' : HasFiles(i)'
  BY <1>0 DEF HasFiles
<1>5. \A i \in event' : EventFile(i) \in open'
  BY <1>0
<1>6. \A u \in Threads \ {t} : Opening(u)'
  BY <1>0, <1>1 DEF Opening
<1>7. Opening(t)'
  <2>1. pc[t] = "open" => UNCHANGED win[t]
    OBVIOUS
  <2> QED BY <1>0, <2>1, OpeningKept
<1> QED BY <1>3, <1>4, <1>5, <1>6, <1>7, FileFactsNext

\* The steps of acme_get_win that open and close files.
LEMMA GetsFiles ==
  ASSUME TypeOK, PlaceInv, TableInv, WinInv, FileInv, NEW t \in Threads, Step(t),
         \/ OpensNew(t) \/ ReadsId(t) \/ NoId(t) \/ UndoOpens(t) \/ GetWinEnds(t)
         \/ \E ok \in BOOLEAN : open_win_file(t, ok)
  PROVE  FileInv'
<1>i. PICK i : i = win[t]
  OBVIOUS
<1> USE <1>i
<1> DEFINE File(j) == <<i, win_files[j]>>
<1>0. ThreadType /\ event \subseteq wins /\ \A u \in Threads : k[u] \in 0 .. 5
  BY WinFacts DEF TypeOK, ThreadType
<1>1. pc[t] \in Finding /\ i \notin wins /\ Opening(t)
  <2>1. pc[t] \in {"new", "name", "id", "undo", "open"}
    BY DEF OpensNew, ReadsId, NoId, UndoOpens, GetWinEnds, open_win_file
  <2> QED BY <2>1, WinFacts, FileFacts DEF Finding, Owns
<1>2. \A u \in Threads \ {t} : UNCHANGED <<pc[u], win[u], k[u]>> /\ pc[u] # "open"
  BY <1>0, <1>1, Moves, OneFinds DEF Finding
<1>3. UNCHANGED event
  BY Frames DEF Gets
<1>4. \A j \in 1 .. 5 : File(j) \in WinFiles(i)
  BY FilesApart
<1>5. \A v : NewCtl \notin WinFiles(v) /\ NewCtl # EventFile(v)
  BY FilesApart
<1>6. \A v, w : \A x \in WinFiles(v) : x \in WinFiles(w) => v = w
  BY FilesApart
<1>7. \A v, w : EventFile(v) \notin WinFiles(w)
  BY FilesApart
<1>8. CASE OpensNew(t)
  <2>1. /\ open' = open \cup {NewCtl} /\ UNCHANGED wins /\ pc[t] = "new"
        /\ Opened(t)' = {NewCtl} /\ UNCHANGED win[t]
    BY <1>0, <1>8 DEF OpensNew, Goto, ThreadType, Opened
  <2>2. Opening(t)'
    BY <1>0, <1>1, <1>8, <2>1, OpeningKept DEF open_win_file
  <2>3. Opened(t) = {}
    BY <2>1 DEF Opened
  <2>4. \A x \in open' \ open : Accounted(x)'
    BY <2>1 DEF Accounted
  <2> QED BY <1>0, <1>2, <1>3, <2>1, <2>2, <2>3, <2>4, FileMove
<1>9. CASE ReadsId(t) \/ NoId(t)
  <2>1. /\ open' = open \ {NewCtl} /\ UNCHANGED wins /\ pc[t] \in {"new", "name", "id"}
    BY <1>9 DEF ReadsId, NoId
  <2>2. Opening(t)'
    BY <1>0, <1>1, <1>9, <2>1, OpeningKept DEF open_win_file
  <2>3. Opened(t) \subseteq {NewCtl}
    BY <2>1 DEF Opened
  <2> QED BY <1>0, <1>2, <1>3, <1>5, <2>1, <2>2, <2>3, FileMove
<1>10. CASE UndoOpens(t)
  <2>1. /\ open' = open \ Opened(t) /\ UNCHANGED wins /\ pc[t] = "undo"
    BY <1>10 DEF UndoOpens, undo_label, Opened
  <2>2. Opening(t)'
    BY <1>0, <1>1, <1>10, <2>1, OpeningKept DEF open_win_file
  <2>3. \A x \in Opened(t) : x \in WinFiles(i)
    <3>1. Opened(t) = {File(j) : j \in 1 .. k[t] - 1}
      BY <2>1 DEF Opened
    <3>2. \A j \in 1 .. k[t] - 1 : j \in 1 .. 5
      BY <1>0
    <3> HIDE DEF File
    <3> QED BY <1>4, <3>1, <3>2
  <2>4. \A w \in wins : \A x \in WinFiles(w) : x \in open => x \in open'
    BY <1>1, <1>6, <2>1, <2>3
  <2>5. \A w \in event : EventFile(w) \in open => EventFile(w) \in open'
    BY <1>7, <2>1, <2>3
  <2> QED BY <1>0, <1>2, <1>3, <2>1, <2>2, <2>4, <2>5, FileMove
<1>11. CASE GetWinEnds(t)
  <2>1. /\ UNCHANGED open /\ wins' = wins \cup {i} /\ pc[t] = "open" /\ k[t] = 5
    BY <1>11, FiveFiles DEF GetWinEnds
  <2>2. Opening(t)'
    <3>1. UNCHANGED open /\ pc'[t] = "idle" /\ k'[t] = 0
      BY <1>0, <1>11 DEF GetWinEnds, Return, Goto, ThreadType
    <3> QED BY <3>1 DEF Opening
  <2>3. \A x \in Opened(t) : x \in WinFiles(i)
    <3>1. Opened(t) = {File(j) : j \in 1 .. 5}
      BY <2>1 DEF Opened
    <3> HIDE DEF File
    <3> QED BY <1>4, <3>1
  <2>4. HasFiles(i)'
    <3>1. File(1) \in open /\ File(2) \in open /\ File(3) \in open /\ File(4) \in open
      <4>1. \A j \in 1 .. 5 : j <= 4 => File(j) \in open
        BY <1>1, <2>1 DEF Opening
      <4> QED BY <4>1
    <3>2. \A x \in WinFiles(i) : x \in {File(1), File(2), File(3), File(4), <<i, "tag">>}
      BY FiveFiles DEF WinFiles
    <3> HIDE DEF File
    <3> QED BY <2>1, <3>1, <3>2 DEF HasFiles
  <2>5. \A x \in open' : x \in Opened(t) => Accounted(x)'
    BY <2>1, <2>3 DEF Accounted
  <2> QED BY <1>0, <1>2, <1>3, <2>1, <2>2, <2>4, <2>5, FileMove
<1>12. ASSUME NEW ok \in BOOLEAN, open_win_file(t, ok)
       PROVE  FileInv'
  <2> DEFINE j == k[t] + 1
  <2>1. /\ j \in 1 .. 5 /\ pc[t] = "open" /\ UNCHANGED wins /\ k'[t] = j /\ UNCHANGED win[t]
        /\ open' = (IF ok THEN open \cup {File(j)} ELSE open)
        /\ pc'[t] = IF <<i, looked_at[j]>> \in open' THEN "open" ELSE "undo"
    <3>1. j \in 1 .. 5
      BY <1>0, <1>12, FiveFiles DEF open_win_file
    <3> QED BY <1>0, <1>12, <3>1 DEF open_win_file, Goto, ThreadType
  <2>2. \A m \in 1 .. k[t] : m <= 4 => File(m) \in open
    BY <1>1, <2>1 DEF Opening
  <2>3. j <= 4 => looked_at[j] = win_files[j]
    <3>1. j \in 1 .. 5
      BY <2>1
    <3> HIDE DEF j
    <3> QED BY <3>1, FiveFiles DEF looked_at
  <2>4. j = 5 => <<i, looked_at[j]>> = File(4)
    BY FiveFiles DEF looked_at
  <2>5. k[t] \in Nat
    BY <1>0
  <2> HIDE DEF File
  <2>6. CASE pc'[t] = "open"
    <3>1. Opened(t)' = {File(m) : m \in 1 .. j}
      BY <2>1, <2>6 DEF Opened, File
    <3>2. Opened(t) = {File(m) : m \in 1 .. k[t]}
      BY <2>1 DEF Opened, File
    <3>3. Opened(t) \subseteq Opened(t)' /\ File(j) \in Opened(t)'
      <4>1. \A m \in 1 .. k[t] : m \in 1 .. j
        BY <2>5
      <4>2. j \in 1 .. j
        BY <2>5
      <4> HIDE DEF j
      <4> QED BY <3>1, <3>2, <4>1, <4>2
    <3>4. j <= 4 => File(j) \in open'
      <4>1. j <= 4 => <<i, looked_at[j]>> \in open'
        BY <2>1, <2>6
      <4> QED BY <2>3, <4>1 DEF File
    <3>5. Opening(t)'
      <4>1. \A m \in 1 .. j : m \in 1 .. k[t] \/ m = j
        BY <2>5
      <4>2. \A m \in 1 .. j : m <= 4 => File(m) \in open'
        BY <2>1, <2>2, <3>4, <4>1
      <4> QED BY <2>1, <2>6, <4>2 DEF Opening, File
    <3>6. \A x \in open' : x \in Opened(t) \/ x \notin open => Accounted(x)'
      BY <2>1, <3>3 DEF Accounted
    <3>7. open \subseteq open'
      BY <2>1
    <3> QED BY <1>0, <1>2, <1>3, <2>1, <3>5, <3>6, <3>7, FileMove
  <2>7. CASE pc'[t] # "open"
    <3>1. pc'[t] = "undo" /\ <<i, looked_at[j]>> \notin open'
      BY <2>1, <2>7
    <3>2. j # 5
      <4>1. ASSUME j = 5
            PROVE  FALSE
        <5>1. 4 \in 1 .. k[t]
          BY <2>5, <4>1
        <5>2. File(4) \in open'
          BY <2>1, <2>2, <5>1
        <5> QED BY <2>4, <3>1, <4>1, <5>2
      <4> QED BY <4>1
    <3>3. File(j) \notin open'
      <4>1. j <= 4
        BY <2>1, <3>2
      <4> QED BY <2>3, <3>1, <4>1 DEF File
    <3>4. UNCHANGED open
      BY <2>1, <3>3
    <3>5. Opened(t)' = Opened(t)
      <4>1. j - 1 = k[t]
        BY <2>5
      <4> QED BY <2>1, <3>1, <4>1 DEF Opened
    <3>6. Opening(t)'
      BY <3>1 DEF Opening
    <3>7. \A x \in open' : x \in Opened(t) => Accounted(x)'
      BY <3>5 DEF Accounted
    <3> QED BY <1>0, <1>2, <1>3, <2>1, <3>4, <3>6, <3>7, FileMove
  <2> QED BY <2>6, <2>7
<1> QED BY <1>8, <1>9, <1>10, <1>11, <1>12

\* The steps of win_release and acme_close that close files.
LEMMA ClosesFiles ==
  ASSUME TypeOK, PlaceInv, TableInv, CloseInv, WinInv, FileInv, NEW t \in Threads, Step(t),
         Released(t) \/ ClosesWins(t) \/ ClosesIndex(t)
  PROVE  FileInv'
<1>0. ThreadType /\ event \subseteq wins /\ (\A u \in Threads : k[u] \in 0 .. 5)
        /\ mtx \in Threads \cup {NONE} /\ NONE \notin Threads
  BY WinFacts, ThreadAssumption DEF TypeOK, ThreadType
<1>1. \A u \in Threads \ {t} : UNCHANGED <<pc[u], win[u], k[u]>>
  BY <1>0, Moves
<1>2. UNCHANGED event
  BY Frames DEF Closes
<1>3. \A v, w : \A x \in WinFiles(v) : x \in WinFiles(w) => v = w
  BY FilesApart
<1>4. \A v, w : EventFile(v) \notin WinFiles(w)
  BY FilesApart
<1>5. Opening(t)' /\ Opened(t) = {} /\ pc[t] \in {"release"} \cup ClosePcs
  <2>1. pc[t] \in {"release", "unlock", "unmount"}
    BY DEF Released, ClosesWins, ClosesIndex
  <2>2. \A ok \in BOOLEAN : ~open_win_file(t, ok)
    BY <2>1 DEF open_win_file
  <2>3. Opening(t)
    BY FileFacts
  <2> QED BY <1>0, <2>1, <2>2, <2>3, OpeningKept DEF Opened, ClosePcs
<1>6. CASE Released(t)
  <2>1. open' = open \ WinFiles(win[t]) /\ wins' = wins \ {win[t]} /\ mtx = NONE
    BY <1>6 DEF Released, win_release_with_lock
  <2>2. pc[t] = "release"
    BY <1>6 DEF Released
  <2>3. \A u \in Threads : pc[u] # "open"
    BY <1>0, <2>1 DEF TableInv, Finding
  <2>4. win[t] \notin event
    BY <2>2, WinFacts DEF Owns
  <2>5. \A v \in wins' : \A x \in WinFiles(v) : x \in open => x \in open'
    BY <1>3, <2>1
  <2>6. \A v \in event : EventFile(v) \in open => EventFile(v) \in open'
    BY <1>4, <2>1
  <2>7. \A v \in wins \ wins' : \A x \in WinFiles(v) : x \notin open'
    BY <2>1
  <2>8. wins' \subseteq wins /\ open' \subseteq open
    BY <2>1
  <2> QED BY <1>0, <1>1, <1>2, <1>5, <2>3, <2>5, <2>6, <2>7, <2>8, FileMove
<1>7. CASE ClosesWins(t)
  <2>1. /\ \A x : x \in open' <=> x \in open /\ ~\E v \in wins : x \in WinFiles(v)
        /\ wins' = {} /\ pc[t] = "unlock"
    BY <1>7 DEF ClosesWins, win_release_with_lock
  <2>2. event = {}
    BY <2>1 DEF CloseInv, ClosePcs
  <2>3. \A u \in Threads \ {t} : pc[u] # "open"
    BY <2>1, OneFinds DEF Finding
  <2>4. \A v \in wins \ wins' : \A x \in WinFiles(v) : x \notin open'
    BY <2>1
  <2>5. wins' = {} /\ open' \subseteq open
    BY <2>1
  <2> QED BY <1>0, <1>1, <1>2, <1>5, <2>2, <2>3, <2>4, <2>5, FileMove
<1>8. CASE ClosesIndex(t)
  <2>1. open' = open \ {Index} /\ UNCHANGED wins
    BY <1>8 DEF ClosesIndex, acmeVars
  <2>2. \A v : Index \notin WinFiles(v) /\ Index # EventFile(v)
    BY FilesApart
  <2>3. \A v : \A x \in WinFiles(v) : x \in open => x \in open'
    BY <2>1, <2>2
  <2>4. \A v \in event : EventFile(v) \in open => EventFile(v) \in open'
    BY <2>1, <2>2
  <2>5. open' \subseteq open
    BY <2>1
  <2> QED BY <1>0, <1>1, <1>2, <1>5, <2>1, <2>3, <2>4, <2>5, FileMove
<1> QED BY <1>6, <1>7, <1>8

\* The calls of events open and close the event file.
LEMMA ReadsFiles ==
  ASSUME NEW t \in Threads, Reads(t)
  PROVE  \/ UNCHANGED <<open, event>>
         \/ open' = open \cup {EventFile(win[t])} /\ event' = event \cup {win[t]}
         \/ open' = open \ {EventFile(win[t])} /\ event' = event \ {win[t]}
BY DEF Reads, EventLocks, NothingToDo, StartOpens, StartFails, Deserializes, IsMalformed,
     start_event_read, ReadNotStarted, PollsNothing, ReadDone, ReadEnds, StopEnds, close_event

LEMMA EventFiles ==
  ASSUME TypeOK, PlaceInv, FileInv, NEW t \in Threads, Step(t), Reads(t)
  PROVE  FileInv'
<1>i. PICK i : i = win[t]
  OBVIOUS
<1> USE <1>i
<1>0. ThreadType /\ (\A u \in Threads : k[u] \in 0 .. 5) /\ UNCHANGED wins
  BY Frames DEF TypeOK, ThreadType
<1>1. \A u \in Threads \ {t} : UNCHANGED <<pc[u], win[u], k[u]>>
  BY <1>0, Moves
<1>2. pc[t] \in EventPcs /\ Opening(t)
  BY ReadsPlace, FileFacts
<1>3. Opened(t) = {}
  BY <1>2 DEF Opened, EventPcs, EventOps
<1>4. Opening(t)'
  <2>1. pc[t] # "open"
    BY <1>2, Apart DEF Finding
  <2> QED BY <1>0, <1>2, <2>1, OpeningKept DEF open_win_file
<1>5. \A v, w : EventFile(v) \notin WinFiles(w) /\ (EventFile(v) = EventFile(w) => v = w)
  BY FilesApart
<1>6. CASE UNCHANGED <<open, event>>
  BY <1>0, <1>1, <1>3, <1>4, <1>6, FileMove
<1>7. CASE open' = open \cup {EventFile(i)} /\ event' = event \cup {i}
  <2>1. \A x \in open' \ open : Accounted(x)'
    BY <1>7 DEF Accounted
  <2> QED BY <1>0, <1>1, <1>3, <1>4, <1>7, <2>1, FileMove
<1>8. CASE open' = open \ {EventFile(i)} /\ event' = event \ {i}
  <2>1. \A v : \A x \in WinFiles(v) : x \in open => x \in open'
    BY <1>5, <1>8
  <2>2. \A v \in event' : EventFile(v) \in open => EventFile(v) \in open'
    BY <1>5, <1>8
  <2>3. \A v \in event \ event' : EventFile(v) \notin open'
    BY <1>8
  <2>4. open' \subseteq open /\ event' \subseteq event
    BY <1>8
  <2> QED BY <1>0, <1>1, <1>3, <1>4, <2>1, <2>2, <2>3, <2>4, FileMove
<1> QED BY <1>6, <1>7, <1>8, ReadsFiles

LEMMA FileStep ==
  ASSUME TypeOK, PlaceInv, TableInv, CloseInv, WinInv, FileInv, Next
  PROVE  FileInv'
<1>0. ThreadType
  BY DEF TypeOK
<1>1. ASSUME NEW t \in Threads, Step(t), Connects(t)
      PROVE  FileInv'
  <2>1. pc[t] \in {"mount", "index"} /\ UNCHANGED <<wins, event>> /\ open' \subseteq open \cup {Index}
          /\ open \subseteq open'
    BY <1>0, <1>1, ConnectsMoves, Frames
  <2>2. \A u \in Threads \ {t} : UNCHANGED <<pc[u], win[u], k[u]>>
    BY <1>0, <1>1, Moves
  <2>3. Opened(t) = {} /\ Opening(t) /\ \A ok \in BOOLEAN : ~open_win_file(t, ok)
    BY <2>1, FileFacts DEF Opened, open_win_file
  <2>4. Opening(t)'
    BY <1>0, <1>1, <2>1, <2>3, OpeningKept
  <2>5. \A x \in open' \ open : Accounted(x)'
    BY <2>1 DEF Accounted
  <2>6. \A u \in Threads : k[u] \in 0 .. 5
    BY <1>0 DEF ThreadType
  <2> QED BY <2>1, <2>2, <2>3, <2>4, <2>5, <2>6, FileMove
<1>2. ASSUME NEW t \in Threads, Step(t),
             GetWinAtOnce(t) \/ GetWinLocks(t) \/ find_win_id(t) \/ IndexUnread(t) \/ WritesName(t)
      PROVE  FileInv'
  <2>1. UNCHANGED <<open, wins, event>>
    BY <1>2, Frames DEF Gets, GetWinAtOnce, GetWinLocks, find_win_id, IndexUnread, WritesName
  <2>2. pc[t] \in {"get", "find", "name"} /\ (pc[t] = "name" => pc'[t] = "id")
          /\ (UNCHANGED pc[t] => UNCHANGED win[t])
    BY <1>0, <1>2 DEF GetWinAtOnce, GetWinLocks, find_win_id, IndexUnread, WritesName, Goto,
         Return, ThreadType
  <2>3. \A ok \in BOOLEAN : ~open_win_file(t, ok)
    BY <2>2 DEF open_win_file
  <2> QED BY <1>0, <1>2, <2>1, <2>2, <2>3, FileQuiet
<1>3. ASSUME NEW t \in Threads, Step(t), CloseLocks(t) \/ Unmounts(t) \/ NullFile(t) \/ Uses(t)
      PROVE  FileInv'
  <2>1. UNCHANGED <<open, wins, event>>
    BY <1>3, Frames DEF Closes, Unmounts, NullFile, acmeVars
  <2>2. pc[t] \in {"close", "unmount", "release", "unlock", "lock", "io"}
          /\ (UNCHANGED pc[t] => UNCHANGED win[t])
    BY <1>0, <1>3 DEF CloseLocks, Unmounts, NullFile, Uses, IoLocks, IoEnds, Goto,
         Return, ThreadType, threadVars
  <2>3. \A ok \in BOOLEAN : ~open_win_file(t, ok)
    BY <2>2 DEF open_win_file
  <2> QED BY <1>0, <1>3, <2>1, <2>2, <2>3, FileQuiet
<1>4. ASSUME NEW t \in Threads, Calls(t)
      PROVE  FileInv'
  <2>1. UNCHANGED <<open, wins, event>> /\ pc[t] = "idle" /\ pc'[t] # "idle"
    <3>1. "idle" \notin EventOps
      BY DEF EventOps
    <3> QED BY <1>0, <1>4, <3>1, Frames, CallsMoves
  <2>2. \A ok \in BOOLEAN : ~open_win_file(t, ok)
    BY <2>1 DEF open_win_file
  <2> QED BY <1>0, <1>4, <2>1, <2>2, FileQuiet
<1>5. ASSUME NEW i \in EventWins, Serve(i)
      PROVE  FileInv'
  <2>1. UNCHANGED <<open, wins, event, pc, win, k>>
    BY <1>5, ServeFrame
  <2>2. \A t \in Threads : Opened(t)' = Opened(t)
    BY <2>1 DEF Opened
  <2> QED BY <2>1, <2>2 DEF FileInv
<1>6. ASSUME NEW t \in Threads, Step(t), Gets(t)
      PROVE  FileInv'
  BY <1>2, <1>6, GetsFiles DEF Gets
<1>7. ASSUME NEW t \in Threads, Step(t), Closes(t)
      PROVE  FileInv'
  BY <1>3, <1>7, ClosesFiles DEF Closes
<1> QED BY <1>1, <1>3, <1>4, <1>5, <1>6, <1>7, EventFiles DEF Next, Step

-----------------------------------------------------------------------------
(* Names.                                                                  *)

Unnamed(t) == pc[t] \in {"new", "name"} /\ arg[t] \notin unread => named[arg[t]] = 0

LEMMA NameFrame ==
  ASSUME NEW t \in Threads, Step(t) \/ Calls(t)
  PROVE  (~WritesName(t) => UNCHANGED named) /\ (~IndexUnread(t) => UNCHANGED unread)
<1>1. CASE Connects(t)
  BY <1>1 DEF Connects, Mounts, MountFails, OpensIndex, IndexFails, UnchangedButOpen
<1>2. CASE Gets(t)
  BY <1>2 DEF Gets, GetWinAtOnce, GetWinLocks, find_win_id, IndexUnread, OpensNew, WritesName,
       ReadsId, NoId, open_win_file, UndoOpens, GetWinEnds, UnchangedButFiles
<1>3. CASE Closes(t)
  BY <1>3 DEF Closes, Released, CloseLocks, ClosesWins, ClosesIndex, Unmounts, NullFile,
       UnchangedButWins
<1>4. CASE Uses(t) \/ Reads(t)
  BY <1>4, TableFrame
<1>5. CASE Calls(t)
  BY <1>5 DEF Calls, acme_connect, acme_close, GetWin, win_release, Io, EventCall, Call
<1> QED BY <1>1, <1>2, <1>3, <1>4, <1>5 DEF Step

LEMMA NameStep ==
  ASSUME TypeOK, PlaceInv, TableInv, NameInv, Next
  PROVE  NameInv'
<1>0. ThreadType /\ named \in [Names -> Nat] /\ unread \subseteq Names
        /\ OneWindowPerName /\ \A u \in Threads : Unnamed(u)
  BY DEF TypeOK, NameInv, Unnamed
<1>1. ASSUME NEW t \in Threads, Step(t) \/ Calls(t)
      PROVE  NameInv'
  <2>1. \A u \in Threads \ {t} : UNCHANGED <<pc[u], arg[u]>>
    BY <1>0, <1>1, Moves
  <2>2. CASE WritesName(t)
    <3>1. /\ pc[t] = "name" /\ pc'[t] = "id" /\ UNCHANGED <<arg, unread>>
          /\ named' = [named EXCEPT ![arg[t]] = @ + 1]
      BY <1>0, <2>2 DEF WritesName, Goto, ThreadType
    <3>2. arg[t] \in Names
      BY <3>1 DEF PlaceInv, Finding
    <3>3. OneWindowPerName'
      <4> SUFFICES ASSUME NEW m \in Names, m \notin unread
                   PROVE  named'[m] <= 1
        BY <3>1 DEF OneWindowPerName
      <4>1. CASE m = arg[t]
        <5>1. named[m] = 0
          BY <1>0, <3>1, <4>1 DEF Unnamed
        <5> QED BY <1>0, <3>1, <4>1, <5>1
      <4>2. CASE m # arg[t]
        BY <1>0, <3>1, <4>2 DEF OneWindowPerName
      <4> QED BY <4>1, <4>2
    <3>4. \A u \in Threads \ {t} : pc'[u] \notin {"new", "name"}
      BY <2>1, <3>1, OneFinds DEF Finding
    <3>5. \A u \in Threads : Unnamed(u)'
      BY <3>1, <3>4 DEF Unnamed
    <3> QED BY <3>3, <3>5 DEF NameInv, Unnamed
  <2>3. CASE IndexUnread(t)
    <3>1. /\ UNCHANGED <<arg, named>> /\ unread' = unread \cup {arg[t]}
      BY <2>3 DEF IndexUnread
    <3>2. OneWindowPerName'
      BY <1>0, <3>1 DEF OneWindowPerName
    <3>3. \A u \in Threads : Unnamed(u)'
      BY <1>0, <2>1, <3>1 DEF Unnamed
    <3> QED BY <3>2, <3>3 DEF NameInv, Unnamed
  <2>4. CASE ~WritesName(t) /\ ~IndexUnread(t)
    <3>1. UNCHANGED <<named, unread>>
      BY <1>1, <2>4, NameFrame
    <3>2. OneWindowPerName'
      BY <1>0, <3>1 DEF OneWindowPerName
    <3>3. \A u \in Threads \ {t} : Unnamed(u)'
      BY <1>0, <2>1, <3>1 DEF Unnamed
    <3>4. Unnamed(t)'
      <4>1. CASE find_win_id(t)
        <5>1. /\ pc[t] = "find" /\ UNCHANGED arg
              /\ pc'[t] = IF named[arg[t]] > 0 THEN "open" ELSE "new"
          BY <1>0, <4>1 DEF find_win_id, Goto, ThreadType
        <5>2. named[arg[t]] \in Nat
          BY <1>0, <5>1 DEF PlaceInv, Finding
        <5>3. pc'[t] = "new" => named[arg[t]] = 0
          BY <5>1, <5>2
        <5>4. pc'[t] # "name"
          BY <5>1
        <5> QED BY <3>1, <5>1, <5>3, <5>4 DEF Unnamed
      <4>2. CASE OpensNew(t)
        <5>1. pc[t] = "new" /\ UNCHANGED arg
          BY <4>2 DEF OpensNew
        <5> QED BY <1>0, <3>1, <5>1 DEF Unnamed
      <4>3. CASE ~find_win_id(t) /\ ~OpensNew(t)
        <5>1. UNCHANGED <<pc[t], arg[t]>> \/ pc'[t] \notin {"new", "name"}
          <6>1. CASE Connects(t)
            BY <1>0, <6>1, ConnectsMoves DEF Returned
          <6>2. CASE Gets(t)
            BY <1>0, <2>4, <4>3, <6>2 DEF Gets, GetWinAtOnce, GetWinLocks, ReadsId, NoId,
                 open_win_file, UndoOpens, GetWinEnds, Goto, Return, ThreadType
          <6>3. CASE Closes(t)
            BY <1>0, <6>3, ClosesMoves DEF Returned
          <6>4. CASE Uses(t)
            BY <1>0, <6>4, UsesMoves DEF Returned
          <6>5. CASE Reads(t)
            BY <1>0, <6>5, ReadsMoves, Apart DEF Returned, Finding
          <6>6. CASE Calls(t)
            BY <1>0, <6>6, CallsMoves DEF EventOps
          <6> QED BY <1>1, <6>1, <6>2, <6>3, <6>4, <6>5, <6>6 DEF Step
        <5>2. CASE UNCHANGED <<pc[t], arg[t]>>
          BY <1>0, <3>1, <5>2 DEF Unnamed
        <5>3. CASE pc'[t] \notin {"new", "name"}
          BY <5>3 DEF Unnamed
        <5> QED BY <5>1, <5>2, <5>3
      <4> QED BY <4>1, <4>2, <4>3
    <3> QED BY <3>2, <3>3, <3>4 DEF NameInv, Unnamed
  <2> QED BY <2>2, <2>3, <2>4
<1>2. ASSUME NEW i \in EventWins, Serve(i)
      PROVE  NameInv'
  BY <1>2, ServeFrame DEF NameInv, OneWindowPerName
<1> QED BY <1>1, <1>2 DEF Next

-----------------------------------------------------------------------------
(* Events.                                                                 *)

\* What BytesInv says, of the values of one window.
Bytes(g, m, d, b, p, f, s) ==
  LET r == IF g > 0 THEN g ELSE 0 IN
  /\ \A j \in 1 .. Len(s) : s[j] = f + j - 1
  /\ \A j \in 1 .. m + r : b[j] = f + Len(s) + j - 1
  /\ f + Len(s) + m + r = p
  /\ f + Len(s) \in Range(Begins)
  /\ g # NoTag => d = m /\ d < SizeofBuf

BytesAt(i) == Bytes(tag[i], n[i], dst[i], buf[i], pos[i], first[i], got[i])

LEMMA BytesIs ==
  ASSUME NEW i
  PROVE  BytesInv(i) <=> BytesAt(i)
BY DEF BytesInv, Uncounted, Bytes, BytesAt

LEMMA BytesIsNext ==
  ASSUME NEW i, Bytes(tag'[i], n'[i], dst'[i], buf'[i], pos'[i], first'[i], got'[i])
  PROVE  BytesInv(i)'
BY DEF BytesInv, Uncounted, Bytes

\* What Changed says, window by window.
LEMMA ChangedAt ==
  ASSUME SessionType, NEW i \in EventWins, NEW g, NEW m, NEW d, NEW b, NEW p, NEW f, NEW s,
         Changed(i, g, m, d, b, p, f, s)
  PROVE  /\ tag'[i] = g /\ n'[i] = m /\ dst'[i] = d /\ buf'[i] = b /\ pos'[i] = p
         /\ first'[i] = f /\ got'[i] = s
         /\ \A j \in EventWins \ {i} :
              UNCHANGED <<tag[j], n[j], dst[j], buf[j], pos[j], first[j], got[j]>>
BY DEF Changed, SessionType, EventType

\* The event that is taken is the next one of the session.
LEMMA BytesTaken ==
  ASSUME SessionType, NEW i \in EventWins, NEW e \in Event(i), BytesAt(i), tag[i] = NoTag
  PROVE  Bytes(tag[i], n[i] - Size(e), dst[i], Rest(i, e), pos[i], first[i],
               got[i] \o SubSeq(buf[i], 1, Size(e)))
<1> DEFINE s == got[i]
           c == SubSeq(buf[i], 1, Size(e))
<1>1. /\ e \in Sent /\ Size(e) \in 1 .. n[i] /\ buf[i][1] = Begins[e]
      /\ c \in Seq(0 .. Total) /\ Len(c) = Size(e)
      /\ \A j \in 1 .. Size(e) : c[j] = buf[i][j]
  BY TakenType
<1>2. /\ s \in Seq(0 .. Total) /\ Len(s) \in Nat /\ n[i] \in Nat /\ Size(e) \in Nat
      /\ n[i] <= SizeofBuf /\ SizeofBuf \in Nat /\ first[i] \in Nat
  <2>1. s \in Seq(0 .. Total) /\ n[i] \in 0 .. SizeofBuf /\ first[i] \in 1 .. Total + 1
    BY SessionTypeOf
  <2>2. Len(s) \in Nat /\ SizeofBuf \in Nat /\ Total \in Nat
    BY <2>1, Room, Stream
  <2> QED BY <1>1, <2>1, <2>2
<1>3. /\ Len(s \o c) = Len(s) + Size(e)
      /\ \A j \in 1 .. Len(s) + Size(e) : (s \o c)[j] = IF j <= Len(s) THEN s[j] ELSE c[j - Len(s)]
  BY <1>1, <1>2, ConcatProperties
<1>4. /\ \A j \in 1 .. Len(s) : s[j] = first[i] + j - 1
      /\ \A j \in 1 .. n[i] : buf[i][j] = first[i] + Len(s) + j - 1
      /\ first[i] + Len(s) + n[i] = pos[i]
  <2>1. ~(tag[i] > 0)
    BY DEF NoTag
  <2>2. n[i] + 0 = n[i] /\ first[i] + Len(s) + n[i] + 0 = first[i] + Len(s) + n[i]
    BY <1>2
  <2> QED BY <2>1, <2>2 DEF BytesAt, Bytes
<1> HIDE DEF s, c
<1>5. \A j \in 1 .. Len(s \o c) : (s \o c)[j] = first[i] + j - 1
  <2> SUFFICES ASSUME NEW j \in 1 .. Len(s) + Size(e)
               PROVE  (s \o c)[j] = first[i] + j - 1
    BY <1>3
  <2>1. CASE j <= Len(s)
    BY <1>2, <1>3, <1>4, <2>1
  <2>2. CASE j > Len(s)
    <3>1. j - Len(s) \in 1 .. Size(e) /\ j - Len(s) \in 1 .. n[i]
      BY <1>1, <1>2, <2>2
    <3>2. (s \o c)[j] = c[j - Len(s)]
      BY <1>2, <1>3, <2>2
    <3>3. c[j - Len(s)] = first[i] + Len(s) + (j - Len(s)) - 1
      BY <1>1, <1>4, <3>1
    <3> QED BY <1>2, <3>2, <3>3
  <2>3. j <= Len(s) \/ j > Len(s)
    <3>1. Len(s) \in Int /\ j \in Int
      BY <1>2
    <3> QED BY <3>1
  <2> QED BY <2>1, <2>2, <2>3
<1>6. \A j \in 1 .. n[i] - Size(e) : Rest(i, e)[j] = first[i] + Len(s \o c) + j - 1
  <2> SUFFICES ASSUME NEW j \in 1 .. n[i] - Size(e)
               PROVE  Rest(i, e)[j] = first[i] + Len(s) + Size(e) + j - 1
    <3>1. Len(s \o c) = Len(s) + Size(e)
      BY <1>3
    <3>2. \A j \in 1 .. n[i] - Size(e) :
            first[i] + Len(s \o c) + j - 1 = first[i] + Len(s) + Size(e) + j - 1
      BY <1>2, <3>1
    <3> QED BY <3>2
  <2>1. j \in 1 .. SizeofBuf /\ j + Size(e) <= n[i] /\ j + Size(e) \in 1 .. n[i]
    BY <1>2
  <2>2. Rest(i, e)[j] = buf[i][j + Size(e)]
    BY <2>1 DEF Rest
  <2> QED BY <1>2, <1>4, <2>1, <2>2
<1>7. first[i] + Len(s \o c) + (n[i] - Size(e)) = pos[i]
  BY <1>2, <1>3, <1>4
<1>8. first[i] + Len(s \o c) \in Range(Begins)
  <2>1. buf[i][1] = first[i] + Len(s)
    BY <1>1, <1>2, <1>4
  <2>2. e + 1 \in DOMAIN Begins /\ Begins[e] + Size(e) = Begins[e + 1]
    BY <1>1, Stream
  <2>3. first[i] + Len(s \o c) = Begins[e + 1]
    BY <1>1, <1>2, <1>3, <2>1, <2>2
  <2> QED BY <2>2, <2>3 DEF Range
<1> QED
  <2>1. ~(tag[i] > 0)
    BY DEF NoTag
  <2>2. n[i] - Size(e) + 0 = n[i] - Size(e)
    BY <1>2
  <2>3. first[i] + Len(s \o c) + (n[i] - Size(e)) + 0 = pos[i]
    BY <1>2, <1>3, <1>7
  <2> QED BY <2>1, <2>2, <2>3, <1>5, <1>6, <1>8 DEF Bytes, s, c

\* A read is sent only when the buffer is not full: one that is full starts with a
\* whole event.
LEMMA BufferHasRoom ==
  ASSUME SessionType, NEW i \in EventWins, BytesAt(i), tag[i] = NoTag, Event(i) = {}
  PROVE  n[i] < SizeofBuf
<1> SUFFICES ASSUME n[i] >= SizeofBuf
             PROVE  FALSE
  BY SessionTypeOf, Room
<1>1. n[i] = SizeofBuf /\ n[i] \in Nat /\ n[i] >= 1 /\ Total \in Nat
  BY SessionTypeOf, Room, Stream
<1>2. /\ first[i] \in Nat /\ Len(got[i]) \in Nat /\ pos[i] <= Total + 1 /\ pos[i] \in Nat
  BY SessionTypeOf, <1>1
<1>3. /\ buf[i][1] = first[i] + Len(got[i]) /\ first[i] + Len(got[i]) + n[i] = pos[i]
      /\ first[i] + Len(got[i]) \in Range(Begins)
  <2>1. ~(tag[i] > 0)
    BY DEF NoTag
  <2>2. 1 \in 1 .. n[i] + 0
    BY <1>1
  <2>3. buf[i][1] = first[i] + Len(got[i]) + 1 - 1 /\ first[i] + Len(got[i]) + n[i] + 0 = pos[i]
        /\ first[i] + Len(got[i]) \in Range(Begins)
    BY <2>1, <2>2 DEF BytesAt, Bytes
  <2> QED BY <1>1, <1>2, <2>3
<1>4. PICK e \in DOMAIN Begins : Begins[e] = first[i] + Len(got[i])
  BY <1>3 DEF Range
<1>5. Begins[e] <= Total
  BY <1>1, <1>2, <1>3, <1>4
<1>6. e \in Sent
  <2>1. Begins \in Seq(Nat) /\ e \in 1 .. Len(Begins) /\ Len(Begins) \in Nat \ {0}
    BY EventAssumption
  <2>2. e # Len(Begins)
    <3>1. ASSUME e = Len(Begins)
          PROVE  FALSE
      <4>1. Begins[e] \in Nat /\ Total = Begins[e] - 1
        BY <2>1, <3>1 DEF Total
      <4> QED BY <1>5, <4>1
    <3> QED BY <3>1
  <2> QED BY <2>1, <2>2 DEF Sent
<1>7. Size(e) <= n[i]
  BY <1>1, <1>6, EventAssumption
<1>8. e \in Event(i)
  BY <1>1, <1>3, <1>4, <1>6, <1>7, Stream DEF Event
<1> QED BY <1>8

\* The answer of the server goes behind the bytes that are there.
LEMMA BytesFilled ==
  ASSUME SessionType, NEW i \in EventWins, BytesAt(i), tag[i] = Pending,
         NEW r \in 1 .. SizeofBuf - dst[i]
  PROVE  Bytes(r, n[i], dst[i], Filled(i, r), pos[i] + r, first[i], got[i])
<1>1. /\ n[i] \in Nat /\ first[i] \in Nat /\ Len(got[i]) \in Nat /\ r \in Nat /\ r > 0
      /\ SizeofBuf \in Nat /\ pos[i] \in Nat
  BY SessionTypeOf, Room, Stream
<1>2. /\ \A j \in 1 .. Len(got[i]) : got[i][j] = first[i] + j - 1
      /\ \A j \in 1 .. n[i] : buf[i][j] = first[i] + Len(got[i]) + j - 1
      /\ first[i] + Len(got[i]) + n[i] = pos[i]
      /\ first[i] + Len(got[i]) \in Range(Begins)
      /\ dst[i] = n[i] /\ dst[i] < SizeofBuf
  <2>1. ~(tag[i] > 0) /\ Pending # NoTag
    BY DEF Pending, NoTag
  <2>2. n[i] + 0 = n[i] /\ first[i] + Len(got[i]) + n[i] + 0 = first[i] + Len(got[i]) + n[i]
    BY <1>1
  <2> QED BY <2>1, <2>2 DEF BytesAt, Bytes
<1>3. \A j \in 1 .. n[i] + r : Filled(i, r)[j] = first[i] + Len(got[i]) + j - 1
  <2> SUFFICES ASSUME NEW j \in 1 .. n[i] + r
               PROVE  Filled(i, r)[j] = first[i] + Len(got[i]) + j - 1
    OBVIOUS
  <2>1. j \in 1 .. SizeofBuf
    BY <1>1, <1>2
  <2>2. CASE j <= n[i]
    <3>1. j \in 1 .. n[i] /\ ~(j - dst[i] \in 1 .. r)
      BY <1>1, <1>2, <2>2
    <3> QED BY <1>2, <2>1, <3>1 DEF Filled
  <2>3. CASE j > n[i]
    <3>1. j - dst[i] \in 1 .. r
      BY <1>1, <1>2, <2>3
    <3>2. Filled(i, r)[j] = pos[i] + j - dst[i] - 1
      BY <2>1, <3>1 DEF Filled
    <3> QED BY <1>1, <1>2, <3>2
  <2> QED BY <1>1, <2>2, <2>3
<1>4. first[i] + Len(got[i]) + n[i] + r = pos[i] + r
  BY <1>1, <1>2
<1> QED BY <1>1, <1>2, <1>3, <1>4 DEF Bytes

\* A read that is counted, or that ends without bytes.
LEMMA BytesCounted ==
  ASSUME SessionType, NEW i \in EventWins, BytesAt(i), tag[i] > 0
  PROVE  Bytes(NoTag, n[i] + tag[i], dst[i], buf[i], pos[i], first[i], got[i])
<1>1. n[i] \in Nat /\ first[i] \in Nat /\ Len(got[i]) \in Nat /\ tag[i] \in Int
  BY SessionTypeOf, Room, Stream DEF NoTag, Pending
<1>2. ~(NoTag > 0)
  BY DEF NoTag
<1>3. n[i] + tag[i] + 0 = n[i] + tag[i]
      /\ first[i] + Len(got[i]) + (n[i] + tag[i]) + 0 = first[i] + Len(got[i]) + n[i] + tag[i]
  BY <1>1
<1> QED BY <1>2, <1>3 DEF BytesAt, Bytes

\* A session that nobody touches.
LEMMA BytesKept ==
  ASSUME NEW j, BytesInv(j),
         UNCHANGED <<tag[j], n[j], dst[j], buf[j], pos[j], first[j], got[j]>>
  PROVE  BytesInv(j)'
BY DEF BytesInv, Uncounted

\* A call of events waits for the mutex or holds it.
LEMMA ReadsHold ==
  ASSUME SessionInv, NEW t \in Threads, Reads(t)
  PROVE  emtx[win[t]] \in {NONE, t} /\ (~EventLocks(t) => emtx[win[t]] = t)
<1>1. EventLocks(t) => emtx[win[t]] = NONE
  BY DEF EventLocks
<1>2. pc[t] = "first read" => emtx[win[t]] = t
  BY DEF SessionInv
<1>3. ~EventLocks(t) => pc[t] = "first read" \/ emtx[win[t]] = t
  BY DEF Reads, NothingToDo, StartOpens, StartFails, Deserializes, IsMalformed,
     start_event_read, FetchMore, ReadNotStarted, PollsNothing, ReadDone, ReadEnds, StopEnds, Holds
<1> QED BY <1>1, <1>2, <1>3

\* The thread that has started the events.
Starting(t) ==
  pc[t] = "first read" =>
    win[t] \in event /\ emtx[win[t]] = t /\ tag[win[t]] = NoTag /\ n[win[t]] = 0

LEMMA StartingKept ==
  ASSUME TypeOK, PlaceInv, SessionInv, NEW t \in Threads, Step(t), Reads(t)
  PROVE  \A u \in Threads : Starting(u)'
<1>i. PICK i : i = win[t]
  OBVIOUS
<1> USE <1>i
<1>0. ThreadType /\ SessionType /\ NONE \notin Threads /\ \A u \in Threads : Starting(u)
  BY ThreadAssumption DEF TypeOK, SessionType, SessionInv, Starting
<1>1. i \in EventWins
  BY ReadsPlace DEF PlaceInv
<1>2. emtx[i] \in {NONE, t} /\ (~EventLocks(t) => emtx[i] = t)
  BY ReadsHold
<1>3. \A j \in EventWins \ {i} : emtx'[j] = emtx[j]
  <2>1. PICK h \in {emtx[i], t, NONE} : emtx' = [emtx EXCEPT ![i] = h]
    BY <1>0, <1>1, ReadsLock
  <2> QED BY <1>0, <2>1 DEF SessionType, EventType
<1>4. \A j \in EventWins \ {i} : tag'[j] = tag[j] /\ n'[j] = n[j]
  BY <1>0, <1>1, ReadsChange, ChangedAt
<1>5. ASSUME NEW u \in Threads \ {t}
      PROVE  Starting(u)'
  <2>1. UNCHANGED <<pc[u], win[u]>>
    BY <1>0, Moves
  <2> SUFFICES ASSUME pc[u] = "first read"
               PROVE  win[u] \in event' /\ emtx'[win[u]] = u /\ tag'[win[u]] = NoTag
                        /\ n'[win[u]] = 0
    BY <2>1 DEF Starting
  <2>2. win[u] \in event /\ emtx[win[u]] = u /\ tag[win[u]] = NoTag /\ n[win[u]] = 0
    BY <1>0 DEF Starting
  <2>3. win[u] # i /\ win[u] \in EventWins
    BY <1>0, <1>2, <2>2 DEF SessionType, EventType
  <2>4. win[u] \in event'
    BY <2>2, <2>3, ReadsFiles
  <2>5. /\ emtx'[win[u]] = emtx[win[u]] /\ tag'[win[u]] = tag[win[u]]
        /\ n'[win[u]] = n[win[u]]
    BY <1>3, <1>4, <2>3
  <2> QED BY <2>2, <2>4, <2>5
<1>6. Starting(t)'
  <2>1. CASE StartOpens(t)
    <3>1. /\ i \notin event /\ event' = event \cup {i} /\ UNCHANGED <<tag, emtx>>
          /\ n' = [n EXCEPT ![i] = 0] /\ win'[t] = i
      BY <2>1 DEF StartOpens
    <3>2. tag[i] = NoTag /\ emtx[i] = t /\ n'[i] = 0
      <4>1. ~EventLocks(t)
        BY <1>0, <2>1 DEF StartOpens, EventLocks, Goto, ThreadType, threadVars, Holds
      <4> QED BY <1>0, <1>1, <1>2, <3>1, <4>1 DEF SessionInv, SessionType, EventType
    <3> QED BY <3>1, <3>2 DEF Starting
  <2>2. CASE ~StartOpens(t)
    <3>1. pc'[t] # "first read"
      BY <1>0, <2>2 DEF Reads, EventLocks, NothingToDo, StartFails, Deserializes, IsMalformed,
           start_event_read, FetchMore, ReadNotStarted, PollsNothing, ReadDone, ReadEnds, StopEnds,
           Holds, EventReturn, Return, Goto, ThreadType, threadVars, EventOps
    <3> QED BY <3>1 DEF Starting
  <2> QED BY <2>1, <2>2
<1> QED BY <1>5, <1>6

\* The window whose events are read.
LEMMA ReadsBytes ==
  ASSUME TypeOK, SessionInv, NEW t \in Threads, Reads(t), NEW i \in EventWins, i = win[t]
  PROVE  /\ i \in event' => BytesInv(i)'
         /\ i \notin event' => tag'[i] = NoTag
<1>0. SessionType
  BY DEF TypeOK, SessionType
<1>1. /\ i \in event => BytesInv(i) /\ BytesAt(i)
      /\ i \notin event => tag[i] = NoTag
  BY BytesIs DEF SessionInv
<1>2. ASSUME Changed(i, tag[i], n[i], dst[i], buf[i], pos[i], first[i], got[i]), UNCHANGED event
      PROVE  /\ i \in event' => BytesInv(i)'
             /\ i \notin event' => tag'[i] = NoTag
  <2>1. UNCHANGED <<tag[i], n[i], dst[i], buf[i], pos[i], first[i], got[i]>>
    BY <1>0, <1>2, ChangedAt
  <2> QED BY <1>1, <1>2, <2>1, BytesKept
<1>3. ASSUME StartOpens(t), NEW p \in Range(Begins), Changed(i, tag[i], 0, dst[i], buf[i], p, p, <<>>)
      PROVE  BytesInv(i)' /\ i \in event'
  <2>1. i \notin event /\ i \in event'
    BY <1>3 DEF StartOpens
  <2>2. /\ tag'[i] = tag[i] /\ n'[i] = 0 /\ dst'[i] = dst[i] /\ buf'[i] = buf[i]
        /\ pos'[i] = p /\ first'[i] = p /\ got'[i] = <<>>
    BY <1>0, <1>3, ChangedAt
  <2>3. p \in Nat /\ Len(<<>>) = 0
    BY Stream, EmptySeq DEF Range
  <2>4. Bytes(NoTag, 0, dst[i], buf[i], p, p, <<>>)
    <3>1. ~(NoTag > 0) /\ p + 0 + 0 + 0 = p /\ p + 0 = p
      BY <2>3 DEF NoTag
    <3> QED BY <2>3, <3>1 DEF Bytes
  <2> QED BY <1>1, <2>1, <2>2, <2>4, BytesIsNext
<1>4. ASSUME Deserializes(t), NEW e \in Event(i),
             Changed(i, tag[i], n[i] - Size(e), dst[i], Rest(i, e), pos[i], first[i],
                     got[i] \o SubSeq(buf[i], 1, Size(e)))
      PROVE  BytesInv(i)' /\ i \in event'
  <2>1. i \in event /\ tag[i] = NoTag /\ UNCHANGED event
    BY <1>4 DEF Deserializes, Takes
  <2> DEFINE s == got[i] \o SubSeq(buf[i], 1, Size(e))
  <2>2. Bytes(tag[i], n[i] - Size(e), dst[i], Rest(i, e), pos[i], first[i], s)
    BY <1>0, <1>1, <2>1, BytesTaken
  <2>3. /\ tag'[i] = tag[i] /\ n'[i] = n[i] - Size(e) /\ dst'[i] = dst[i] /\ buf'[i] = Rest(i, e)
        /\ pos'[i] = pos[i] /\ first'[i] = first[i]
        /\ got'[i] = s
    <3>1. Changed(i, tag[i], n[i] - Size(e), dst[i], Rest(i, e), pos[i], first[i], s)
      BY <1>4
    <3> HIDE DEF s
    <3> QED BY <1>0, <3>1, ChangedAt
  <2> HIDE DEF s
  <2> QED BY <2>1, <2>2, <2>3, BytesIsNext
<1>5. ASSUME start_event_read(t), Changed(i, Pending, n[i], n[i], buf[i], pos[i], first[i], got[i])
      PROVE  BytesInv(i)' /\ i \in event'
  <2>1. i \in event /\ tag[i] = NoTag /\ UNCHANGED event /\ (n[i] = 0 \/ Event(i) = {})
    <3>1. CASE pc[t] = "first read"
      BY <1>5, <3>1 DEF SessionInv, start_event_read
    <3>2. CASE pc[t] # "first read"
      BY <1>5, <3>2 DEF start_event_read, FetchMore
    <3> QED BY <3>1, <3>2
  <2>2. n[i] < SizeofBuf
    BY <1>0, <1>1, <2>1, BufferHasRoom, Room
  <2>3. Bytes(Pending, n[i], n[i], buf[i], pos[i], first[i], got[i])
    <3>1. ~(tag[i] > 0) /\ ~(Pending > 0)
      BY <2>1 DEF NoTag, Pending
    <3> QED BY <1>1, <2>1, <2>2, <3>1 DEF BytesAt, Bytes
  <2>4. /\ tag'[i] = Pending /\ n'[i] = n[i] /\ dst'[i] = n[i] /\ buf'[i] = buf[i]
        /\ pos'[i] = pos[i] /\ first'[i] = first[i] /\ got'[i] = got[i]
    BY <1>0, <1>5, ChangedAt
  <2> QED BY <2>1, <2>3, <2>4, BytesIsNext
<1>6. ASSUME ReadDone(t), Changed(i, NoTag, n[i] + tag[i], dst[i], buf[i], pos[i], first[i], got[i])
      PROVE  BytesInv(i)' /\ i \in event'
  <2>1. i \in event /\ tag[i] > 0 /\ UNCHANGED event
    BY <1>6 DEF ReadDone
  <2>2. Bytes(NoTag, n[i] + tag[i], dst[i], buf[i], pos[i], first[i], got[i])
    BY <1>0, <1>1, <2>1, BytesCounted
  <2>3. /\ tag'[i] = NoTag /\ n'[i] = n[i] + tag[i] /\ dst'[i] = dst[i] /\ buf'[i] = buf[i]
        /\ pos'[i] = pos[i] /\ first'[i] = first[i] /\ got'[i] = got[i]
    BY <1>0, <1>6, ChangedAt
  <2> QED BY <2>1, <2>2, <2>3, BytesIsNext
<1>7. ASSUME event' = event \ {i}, NEW m,
             Changed(i, NoTag, m, dst[i], buf[i], pos[i], first[i], got[i])
      PROVE  tag'[i] = NoTag /\ i \notin event'
  BY <1>0, <1>7, ChangedAt
<1> QED BY <1>0, <1>2, <1>3, <1>4, <1>5, <1>6, <1>7, ReadsChange

\* The window that the server answers.
LEMMA ServeBytes ==
  ASSUME TypeOK, SessionInv, NEW i \in EventWins, Serve(i)
  PROVE  i \in event /\ tag[i] = Pending /\ BytesInv(i)'
<1>0. SessionType
  BY DEF TypeOK, SessionType
<1>1. tag[i] = Pending /\ i \in event
  <2>1. tag[i] = Pending
    BY <1>0, ServeChange
  <2>2. Pending # NoTag
    BY DEF NoTag, Pending
  <2> QED BY <2>1, <2>2 DEF SessionInv
<1>2. BytesAt(i)
  BY <1>1, BytesIs DEF SessionInv
<1>3. ASSUME NEW r \in 1 .. SizeofBuf - dst[i],
             Changed(i, r, n[i], dst[i], Filled(i, r), pos[i] + r, first[i], got[i])
      PROVE  BytesInv(i)'
  <2>1. Bytes(r, n[i], dst[i], Filled(i, r), pos[i] + r, first[i], got[i])
    BY <1>0, <1>1, <1>2, BytesFilled
  <2>2. /\ tag'[i] = r /\ n'[i] = n[i] /\ dst'[i] = dst[i] /\ buf'[i] = Filled(i, r)
        /\ pos'[i] = pos[i] + r /\ first'[i] = first[i] /\ got'[i] = got[i]
    BY <1>0, <1>3, ChangedAt
  <2> QED BY <2>1, <2>2, BytesIsNext
<1>4. ASSUME NEW r \in {0, -1},
             Changed(i, r, n[i], dst[i], buf[i], pos[i], first[i], got[i])
      PROVE  BytesInv(i)'
  <2>1. Bytes(r, n[i], dst[i], buf[i], pos[i], first[i], got[i])
    <3>1. ~(tag[i] > 0) /\ ~(r > 0) /\ tag[i] # NoTag
      BY <1>1 DEF NoTag, Pending
    <3> QED BY <1>2, <3>1 DEF BytesAt, Bytes
  <2>2. /\ tag'[i] = r /\ n'[i] = n[i] /\ dst'[i] = dst[i] /\ buf'[i] = buf[i]
        /\ pos'[i] = pos[i] /\ first'[i] = first[i] /\ got'[i] = got[i]
    BY <1>0, <1>4, ChangedAt
  <2> QED BY <2>1, <2>2, BytesIsNext
<1> QED BY <1>0, <1>1, <1>3, <1>4, ServeChange

LEMMA SessionStep ==
  ASSUME TypeOK, PlaceInv, SessionInv, Next
  PROVE  SessionInv'
<1>0. ThreadType /\ SessionType /\ \A u \in Threads : Starting(u)
  BY DEF TypeOK, SessionType, SessionInv, Starting
<1>1. ASSUME NEW t \in Threads, Step(t), Reads(t)
      PROVE  SessionInv'
  <2>i. PICK i : i = win[t]
    OBVIOUS
  <2>1. i \in EventWins
    BY <1>1, <2>i, ReadsPlace DEF PlaceInv
  <2>2. /\ i \in event' => BytesInv(i)'
        /\ i \notin event' => tag'[i] = NoTag
    BY <1>1, <2>i, <2>1, ReadsBytes
  <2>3. \A j \in EventWins \ {i} :
          UNCHANGED <<tag[j], n[j], dst[j], buf[j], pos[j], first[j], got[j]>>
    BY <1>0, <1>1, <2>i, <2>1, ReadsChange, ChangedAt
  <2>4. \A j \in EventWins \ {i} : j \in event' <=> j \in event
    BY <1>1, <2>i, ReadsFiles
  <2>5. \A j \in EventWins \ event' : tag'[j] = NoTag
    BY <2>2, <2>3, <2>4 DEF SessionInv
  <2>6. event \subseteq EventWins /\ event' \subseteq EventWins
    BY <1>0, <1>1, <2>i, <2>1, ReadsLock DEF SessionType, EventType
  <2>7. ASSUME NEW j \in event', j # i
        PROVE  BytesInv(j)'
    BY <2>3, <2>4, <2>6, <2>7, BytesKept DEF SessionInv
  <2>8. \A u \in Threads : Starting(u)'
    BY <1>1, StartingKept
  <2>9. \A j \in event' : BytesInv(j)'
    BY <2>2, <2>7
  <2> QED BY <2>5, <2>8, <2>9 DEF SessionInv, Starting
<1>2. ASSUME NEW t \in Threads, Step(t) \/ Calls(t),
             Connects(t) \/ Gets(t) \/ Closes(t) \/ Uses(t) \/ Calls(t)
      PROVE  SessionInv'
  <2>1. UNCHANGED <<emtx, event, tag, n, buf, dst, pos, first, got>>
    BY <1>2, EventFrame
  <2>2. \A u \in Threads \ {t} : Starting(u)'
    BY <1>0, <1>2, <2>1, Moves DEF Starting
  <2>3. pc'[t] = "first read" => UNCHANGED <<pc[t], win[t]>>
    <3>1. "first read" \in EventPcs /\ "first read" \notin EventOps
      BY DEF EventPcs, EventOps
    <3>2. CASE Connects(t) \/ Closes(t) \/ Uses(t)
      BY <1>0, <3>2, ConnectsMoves, ClosesMoves, UsesMoves DEF Returned
    <3>3. CASE Gets(t)
      BY <1>0, <3>1, <3>3, GetsMoves, Apart
    <3>4. CASE Calls(t)
      BY <1>0, <3>1, <3>4, CallsMoves
    <3> QED BY <1>2, <3>2, <3>3, <3>4
  <2>4. Starting(t)'
    BY <1>0, <2>1, <2>3 DEF Starting
  <2>5. \A i \in EventWins \ event' : tag'[i] = NoTag
    BY <2>1 DEF SessionInv
  <2>6. \A i \in event' : BytesInv(i)'
    BY <2>1, BytesKept DEF SessionInv
  <2> QED BY <2>2, <2>4, <2>5, <2>6 DEF SessionInv, Starting
<1>3. ASSUME NEW i \in EventWins, Serve(i)
      PROVE  SessionInv'
  <2>1. UNCHANGED <<emtx, event, n, pc, win>> /\ event \subseteq EventWins
    BY <1>0, <1>3, ServeFrame DEF SessionType, EventType
  <2>2. i \in event /\ tag[i] = Pending /\ BytesInv(i)'
    BY <1>3, ServeBytes
  <2>3. \A j \in EventWins \ {i} :
          UNCHANGED <<tag[j], n[j], dst[j], buf[j], pos[j], first[j], got[j]>>
    BY <1>0, <1>3, ServeChange, ChangedAt
  <2>4. \A j \in EventWins \ event' : tag'[j] = NoTag
    BY <2>1, <2>2, <2>3 DEF SessionInv
  <2>5. \A j \in event' : BytesInv(j)'
    BY <2>1, <2>2, <2>3, BytesKept DEF SessionInv
  <2>6. ASSUME NEW u \in Threads
        PROVE  Starting(u)'
    <3>0. Pending # NoTag
      BY DEF NoTag, Pending
    <3>1. pc[u] = "first read" => win[u] # i /\ win[u] \in EventWins
      BY <1>0, <2>1, <2>2, <3>0 DEF Starting
    <3> QED BY <1>0, <2>1, <2>3, <3>1 DEF Starting
  <2> QED BY <2>4, <2>5, <2>6 DEF SessionInv, Starting
<1> QED BY <1>1, <1>2, <1>3 DEF Next, Step

-----------------------------------------------------------------------------
(* The invariant.                                                          *)

Inv ==
  /\ TypeOK /\ PlaceInv /\ TableInv /\ ConnectInv /\ CloseInv /\ WinInv /\ FileInv
  /\ NameInv /\ SessionInv

LEMMA Types == TypeOK <=> TableType /\ ThreadType /\ SessionType /\ open \subseteq Files
BY DEF TypeOK, TableType, SessionType, Files

LEMMA TypesNext ==
  ASSUME TableType', ThreadType', SessionType', open' \subseteq Files
  PROVE  TypeOK'
BY DEF TypeOK, TableType, SessionType, Files

LEMMA FilesType ==
  ASSUME TableType, ThreadType, SessionType, PlaceInv, FileInv
  PROVE  open \subseteq Files
<1> SUFFICES ASSUME NEW x \in open
             PROVE  x \in Files
  OBVIOUS
<1>1. Accounted(x)
  BY FileFacts
<1>2. wins \subseteq Slots /\ event \subseteq Slots
  BY WindowAssumption DEF TableType, SessionType, EventType, Slots
<1>3. Index \in Files /\ NewCtl \in Files
        /\ \A i \in Slots : WinFiles(i) \subseteq Files /\ EventFile(i) \in Files
  BY DEF Files
<1>4. ASSUME NEW t \in Threads, x \in Opened(t)
      PROVE  x \in Files
  <2>1. CASE pc[t] \in {"name", "id"}
    BY <1>3, <1>4, <2>1 DEF Opened
  <2>2. CASE pc[t] \in {"open", "undo"}
    <3>1. win[t] \in Slots /\ k[t] \in 0 .. 5
      BY <2>2 DEF PlaceInv, Finding, ThreadType
    <3>2. PICK j \in 1 .. 5 : x = <<win[t], win_files[j]>>
      <4>1. PICK j \in 1 .. k[t] : x = <<win[t], win_files[j]>>
        BY <1>4, <2>2, <3>1 DEF Opened
      <4>2. j \in 1 .. 5
        BY <3>1
      <4> QED BY <4>1, <4>2
    <3>3. x \in WinFiles(win[t])
      BY <3>2, FilesApart
    <3> QED BY <1>3, <3>1, <3>3
  <2>3. CASE pc[t] \notin {"name", "id", "open", "undo"}
    BY <1>4, <2>3 DEF Opened
  <2> QED BY <2>1, <2>2, <2>3
<1> QED BY <1>1, <1>2, <1>3, <1>4 DEF Accounted

LEMMA FilesTypeNext ==
  ASSUME TableType', ThreadType', SessionType', PlaceInv', FileInv'
  PROVE  open' \subseteq Files
<1>1. (TableType /\ ThreadType /\ SessionType /\ PlaceInv /\ FileInv => open \subseteq Files)'
  BY FilesType, PTL
<1> QED BY <1>1 DEF Files, WinFiles, EventFile, Index, NewCtl, Slots

LEMMA InvInit ==
  ASSUME Init
  PROVE  Inv
<1> USE DEF Init
<1>1. TableType
  BY DEF TableType
<1>2. ThreadType
  <2>1. pc \in [Threads -> Pcs]
    BY Places
  <2>2. win \in [Threads -> 0 .. MAX_WINS] /\ k \in [Threads -> 0 .. 5] /\ ncalls \in 0 .. MaxCalls
    BY WindowAssumption, ThreadAssumption
  <2>3. arg \in [Threads -> Names \cup IoFiles \cup {NONE}]
    OBVIOUS
  <2> QED BY <2>1, <2>2, <2>3 DEF ThreadType
<1>3. SessionType
  <2>1. Total \in Nat
    BY Stream
  <2>2. emtx \in [EventWins -> Threads \cup {NONE}] /\ event \subseteq EventWins
    OBVIOUS
  <2>3. tag \in [EventWins -> {NoTag, Pending} \cup -1 .. SizeofBuf]
    OBVIOUS
  <2>4. n \in [EventWins -> 0 .. SizeofBuf] /\ dst \in [EventWins -> 0 .. SizeofBuf]
    BY Room
  <2>5. buf \in [EventWins -> [1 .. SizeofBuf -> 0 .. Total]]
    BY <2>1
  <2>6. \A i \in EventWins : ~(tag[i] > 0)
    BY DEF NoTag
  <2>7. pos \in [EventWins -> 1 .. Total + 1] /\ first \in [EventWins -> 1 .. Total + 1]
    BY <2>1
  <2>8. got \in [EventWins -> Seq(0 .. Total)]
    BY EmptySeq
  <2> QED BY <2>2, <2>3, <2>4, <2>5, <2>6, <2>7, <2>8 DEF SessionType, EventType
<1>4. \A t \in Threads : pc[t] = "idle" /\ k[t] = 0 /\ arg[t] = NONE
  OBVIOUS
<1>5. PlaceInv
  BY <1>4, FileAssumption, Apart DEF PlaceInv
<1>6. TableInv
  BY <1>4, ThreadAssumption, Apart DEF TableInv
<1>7. ConnectInv /\ CloseInv
  BY <1>4 DEF ConnectInv, CloseInv, ClosePcs
<1>8. WinInv
  BY <1>4, Apart DEF WinInv
<1>9. FileInv
  BY <1>4 DEF FileInv
<1>10. NameInv
  BY <1>4 DEF NameInv, OneWindowPerName
<1>11. SessionInv
  BY <1>4 DEF SessionInv
<1>12. TypeOK
  BY <1>1, <1>2, <1>3, <1>5, <1>9, FilesType, Types
<1> QED BY <1>5, <1>6, <1>7, <1>8, <1>9, <1>10, <1>11, <1>12 DEF Inv

LEMMA ThreadTypeStep ==
  ASSUME ThreadType, Next
  PROVE  ThreadType'
<1>1. ASSUME NEW i \in EventWins, Serve(i)
      PROVE  ThreadType'
  BY <1>1, ServeFrame DEF ThreadType
<1> QED BY <1>1, ThreadTypeOfCalls, ThreadTypeOfGets, ThreadTypeOfOthers DEF Next, Step

LEMMA SessionTypeNext ==
  ASSUME SessionType, SessionInv, PlaceInv, Next
  PROVE  SessionType'
<1>1. ASSUME NEW t \in Threads, Connects(t) \/ Gets(t) \/ Closes(t) \/ Uses(t) \/ Calls(t)
      PROVE  SessionType'
  BY <1>1, EventFrame DEF SessionType, EventType
<1> QED BY <1>1, SessionTypeStep DEF Next, Step

LEMMA InvStep ==
  ASSUME Inv, [Next]_vars
  PROVE  Inv'
<1>1. CASE Next
  <2>1. TableType' /\ ThreadType' /\ SessionType'
    BY <1>1, Types, TableTypeStep, ThreadTypeStep, SessionTypeNext DEF Inv
  <2>2. PlaceInv' /\ TableInv' /\ CloseInv' /\ WinInv' /\ FileInv'
    BY <1>1, PlaceStep, TableStep, CloseStep, WinStep, FileStep DEF Inv
  <2>3. ConnectInv' /\ NameInv' /\ SessionInv'
    BY <1>1, ConnectStep, NameStep, SessionStep DEF Inv
  <2>4. TypeOK'
    BY <2>1, <2>2, FilesTypeNext, TypesNext
  <2> QED BY <2>2, <2>3, <2>4 DEF Inv
<1>2. CASE UNCHANGED vars
  <2> USE <1>2 DEF vars, acmeVars, eventVars, threadVars, sessionVars, Inv
  <2>1. TypeOK'
    BY DEF TypeOK, EventType, ThreadType
  <2>2. PlaceInv' /\ TableInv' /\ ConnectInv' /\ CloseInv' /\ WinInv'
    BY DEF PlaceInv, TableInv, ConnectInv, CloseInv, WinInv
  <2>3. FileInv'
    <3>1. \A t \in Threads : Opened(t)' = Opened(t)
      BY DEF Opened
    <3> QED BY <3>1 DEF FileInv
  <2>4. NameInv'
    BY DEF NameInv, OneWindowPerName
  <2>5. SessionInv'
    BY DEF SessionInv, BytesInv, Uncounted
  <2> QED BY <2>1, <2>2, <2>3, <2>4, <2>5
<1> QED BY <1>1, <1>2

LEMMA InvHolds == Spec => []Inv
<1>1. Init => Inv
  BY InvInit
<1>2. Inv /\ [Next]_vars => Inv'
  BY InvStep
<1> QED BY <1>1, <1>2, PTL DEF Spec

-----------------------------------------------------------------------------
(* Theorems.                                                               *)

\* Each variable keeps its type: no read runs over the buffer, no count of the files
\* leaves the five, and no window is outside the table (acme.c:29-119, 400-406).
THEOREM TypeCorrect == Spec => []TypeOK
<1>1. Inv => TypeOK
  BY DEF Inv
<1> QED BY <1>1, InvHolds, PTL

\* No path of acme_get_win, acme_connect, win_release, acme_close or the events leaves
\* a file open or closes one of another window, for any number of threads and windows
\* (acme.c:75-119, 225-299, 408-660).
THEOREM FilesAreAccounted == Spec => []FilesAccounted
<1>1. Inv => FilesAccounted
  <2> SUFFICES ASSUME Inv, \A t \in Threads : ~Between(t)
               PROVE  /\ open \subseteq {Index} \cup {EventFile(i) : i \in event}
                                         \cup UNION {WinFiles(i) : i \in wins}
                      /\ \A i \in wins : WinFiles(i) \ {<<i, "tag">>} \subseteq open
                      /\ event \subseteq wins /\ \A i \in event : EventFile(i) \in open
                      /\ Index \in open => acme
                      /\ acme => Index \in open \/ \E t \in Threads : pc[t] = "unmount"
    BY DEF FilesAccounted
  <2>1. \A t \in Threads : Opened(t) = {}
    BY DEF Between, Opened
  <2>2. open \subseteq {Index} \cup {EventFile(i) : i \in event}
                        \cup UNION {WinFiles(i) : i \in wins}
    <3>1. \A x \in open : Accounted(x)
      BY FileFacts DEF Inv
    <3> QED BY <2>1, <3>1 DEF Accounted
  <2>3. /\ \A i \in wins : WinFiles(i) \ {<<i, "tag">>} \subseteq open
        /\ \A i \in event : EventFile(i) \in open
    BY DEF Inv, FileInv
  <2>4. event \subseteq wins
    BY WinFacts DEF Inv
  <2>5. /\ Index \in open => acme
        /\ acme => Index \in open \/ \E t \in Threads : pc[t] = "unmount"
    BY DEF Inv, ConnectInv, TypeOK
  <2> QED BY <2>2, <2>3, <2>4, <2>5
<1> QED BY <1>1, InvHolds, PTL

\* acme_get_win never creates a second window of a name, unless the index could not be
\* read: the mutex is held from the look into the index to the window's name
\* (acme.c:142-146, 188-216).
THEOREM OneWindow == Spec => []OneWindowPerName
<1>1. Inv => OneWindowPerName
  BY DEF Inv, NameInv
<1> QED BY <1>1, InvHolds, PTL

\* However the reads cut the stream, the events of a session are returned whole, in
\* order and once, for any stream whose events fit in the buffer (acme.c:400-406,
\* 483-660).
THEOREM EventsAreWhole == Spec => []EventsWhole
<1>1. Inv => EventsWhole
  <2> SUFFICES ASSUME Inv, NEW i \in event
               PROVE  LET seen == got[i] \o SubSeq(buf[i], 1, n[i])
                          uncounted == IF tag[i] > 0 THEN tag[i] ELSE 0
                      IN  /\ \A j \in DOMAIN seen : seen[j] = first[i] + j - 1
                          /\ first[i] + Len(seen) + uncounted = pos[i]
                          /\ first[i] + Len(got[i]) \in Range(Begins)
                          /\ tag[i] = Pending => dst[i] = n[i] /\ dst[i] < SizeofBuf
    BY DEF EventsWhole
  <2> DEFINE s == got[i]
             c == SubSeq(buf[i], 1, n[i])
  <2>0. SessionType /\ i \in EventWins /\ BytesInv(i)
    BY DEF Inv, TypeOK, SessionType, EventType, SessionInv
  <2>1. /\ s \in Seq(0 .. Total) /\ n[i] \in 0 .. SizeofBuf /\ first[i] \in 1 .. Total + 1
        /\ buf[i] \in [1 .. SizeofBuf -> 0 .. Total]
    BY <2>0, SessionTypeOf
  <2>2. Len(s) \in Nat /\ SizeofBuf \in Nat /\ Total \in Nat /\ n[i] \in Nat /\ first[i] \in Nat
    BY <2>1, Room, Stream
  <2>3. Uncounted(i) \in Nat
    BY <2>0, SessionTypeOf, Room DEF Uncounted, NoTag, Pending
  <2>4. \A j \in 1 .. n[i] : buf[i][j] \in 0 .. Total
    <3>1. \A j \in 1 .. n[i] : j \in 1 .. SizeofBuf
      BY <2>1, <2>2
    <3> QED BY <2>1, <3>1
  <2>5. /\ c \in Seq(0 .. Total) /\ Len(c) = n[i]
        /\ \A j \in 1 .. n[i] : c[j] = buf[i][j]
    <3>1. 1 \in Int /\ n[i] \in Int
      BY <2>2
    <3>2. /\ c \in Seq(0 .. Total)
          /\ Len(c) = IF 1 <= n[i] THEN n[i] - 1 + 1 ELSE 0
          /\ \A j \in 1 .. n[i] - 1 + 1 : c[j] = buf[i][1 + j - 1]
      BY <2>4, <3>1, SubSeqProperties
    <3> QED BY <2>2, <3>2
  <2>6. /\ s \o c \in Seq(0 .. Total) /\ Len(s \o c) = Len(s) + n[i]
        /\ \A j \in 1 .. Len(s) + n[i] : (s \o c)[j] = IF j <= Len(s) THEN s[j] ELSE c[j - Len(s)]
    BY <2>1, <2>5, ConcatProperties
  <2>7. /\ \A j \in 1 .. Len(s) : s[j] = first[i] + j - 1
        /\ \A j \in 1 .. n[i] + Uncounted(i) : buf[i][j] = first[i] + Len(s) + j - 1
        /\ first[i] + Len(s) + n[i] + Uncounted(i) = pos[i]
        /\ first[i] + Len(s) \in Range(Begins)
        /\ tag[i] # NoTag => dst[i] = n[i] /\ dst[i] < SizeofBuf
    BY <2>0 DEF BytesInv
  <2>8. Pending # NoTag
    BY DEF Pending, NoTag
  <2> HIDE DEF s, c
  <2>9. ASSUME NEW j \in 1 .. Len(s) + n[i]
        PROVE  (s \o c)[j] = first[i] + j - 1
    <3>0. Len(s) \in Int /\ j \in Int /\ n[i] \in Int
      BY <2>2
    <3>1. CASE j <= Len(s)
      BY <2>6, <2>7, <3>0, <3>1
    <3>2. CASE j > Len(s)
      <4>1. j - Len(s) \in 1 .. n[i] /\ j - Len(s) \in 1 .. n[i] + Uncounted(i)
        BY <2>3, <3>0, <3>2
      <4>2. (s \o c)[j] = buf[i][j - Len(s)]
        BY <2>5, <2>6, <3>0, <3>2, <4>1
      <4>3. buf[i][j - Len(s)] = first[i] + Len(s) + (j - Len(s)) - 1
        BY <2>7, <4>1
      <4> QED BY <2>2, <3>0, <4>2, <4>3
    <3>3. j <= Len(s) \/ j > Len(s)
      BY <3>0
    <3> QED BY <3>1, <3>2, <3>3
  <2>10. DOMAIN (s \o c) = 1 .. Len(s) + n[i]
    BY <2>6
  <2>11. first[i] + Len(s \o c) + Uncounted(i) = pos[i]
    BY <2>2, <2>3, <2>6, <2>7
  <2> QED BY <2>7, <2>8, <2>9, <2>10, <2>11 DEF s, c, Uncounted
<1> QED BY <1>1, InvHolds, PTL
===============================================================================
