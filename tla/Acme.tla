--------------------------------- MODULE Acme ---------------------------------
(***************************************************************************)
(* The Acme client of src/9/acme.c: one connection with its table of       *)
(* windows, the five files of each window, and the event file with the     *)
(* buffer in which events are put together from reads of any length.       *)
(*                                                                         *)
(* A File9 is a pair of its window and its name, and is in `open` from a   *)
(* successful open9 to its close9; Fsys9 models those calls, each of which *)
(* is one step here.  Acme, the server, may refuse any of them.  Its event *)
(* stream is a sequence of bytes, which are numbered: byte p of the stream *)
(* is the number p, so that a byte out of place can be told.               *)
(*                                                                         *)
(* Three mutexes: of the table, held across all of acme_get_win; of a      *)
(* window's files; and of its events.                                      *)
(***************************************************************************)
EXTENDS Integers, Sequences, Functions

CONSTANTS
  Threads,
  NONE,              \* no thread
  MAX_WINS,
  Names,             \* names of windows
  IoFiles,           \* files that callers read and write, of "data", "body", "tag" ...
  EventWins,         \* bound: windows whose events callers read
  SizeofBuf,         \* sizeof(win->buf)
  Begins,            \* the first byte of each event of the stream, and the byte after the last
  Malformed,         \* events that are not as deserialize_event expects
  MaxCalls           \* bound: calls of a behaviour, beside acme_close

ASSUME ThreadAssumption == NONE \notin Threads /\ MaxCalls \in Nat
ASSUME WindowAssumption == MAX_WINS \in Nat \ {0} /\ EventWins \subseteq 1 .. MAX_WINS
\* The events of the stream, their sizes and its last byte.
Sent == 1 .. Len(Begins) - 1
Size(e) == Begins[e + 1] - Begins[e]
Total == Begins[Len(Begins)] - 1

ASSUME EventAssumption ==
  /\ SizeofBuf \in Nat \ {0} /\ Malformed \subseteq Sent
  /\ Begins \in Seq(Nat) /\ Begins # <<>> /\ Begins[1] = 1
  /\ \A d, e \in DOMAIN Begins : d < e => Begins[d] < Begins[e]
  /\ \A e \in Sent : Size(e) <= SizeofBuf    \* an event fits, the comment at acme.c:40 says

Slots == 1 .. MAX_WINS
win_files == <<"ctl", "addr", "data", "body", "tag">>
WinFiles(i) == {<<i, f>> : f \in Range(win_files)}
Index  == <<0, "index">>
NewCtl == <<0, "new">>
EventFile(i) == <<i, "event">>

ASSUME FileAssumption ==
  IoFiles \subseteq Range(win_files) /\ Names \cap (IoFiles \cup {NONE}) = {}

VARIABLES
  \* struct acme
  acme,          \* an Acme exists
  closed, mtx,
  wins,          \* windows of the table
  open,          \* File9s that are open
  \* struct win
  wmtx,
  emtx,
  event,         \* windows whose event file is not NULL
  tag,           \* event_read_tag: NoTag, Pending, or what the read returned
  n, buf,
  dst,           \* the value of n when the read was sent
  crashed,       \* a NULL File9 was used
  \* the calling threads: place, window, name or file, files opened
  pc, win, arg, k, ncalls,
  \* the server: windows of each name; the next byte of the events
  named, pos,
  \* history: names looked up in an index that could not be read; the session of
  \* events: its first byte, and the bytes of events that were returned
  unread, first, got

acmeVars == <<acme, closed, mtx, wins>>
eventVars == <<emtx, event, tag, n, buf, dst>>
threadVars == <<pc, win, arg, k>>
sessionVars == <<pos, first, got>>
vars == <<acmeVars, open, wmtx, eventVars, crashed, threadVars, ncalls, named,
          unread, sessionVars>>

NoTag   == -3
Pending == -2

EventOps == {"start", "stop", "poll", "wait", "write"}
Pcs == {"idle", "mount", "index", "get", "find", "new", "name", "id", "open", "undo",
        "release", "lock", "io", "close", "unlock", "unmount", "first read"} \cup EventOps

EventType ==
  /\ emtx \in [EventWins -> Threads \cup {NONE}] /\ event \subseteq EventWins
  /\ tag \in [EventWins -> {NoTag, Pending} \cup -1 .. SizeofBuf]
  /\ n \in [EventWins -> 0 .. SizeofBuf] /\ dst \in [EventWins -> 0 .. SizeofBuf]
  /\ buf \in [EventWins -> [1 .. SizeofBuf -> 0 .. Total]]
  /\ \A i \in EventWins : tag[i] > 0 => dst[i] + tag[i] <= SizeofBuf

ThreadType ==
  /\ pc \in [Threads -> Pcs] /\ win \in [Threads -> 0 .. MAX_WINS]
  /\ arg \in [Threads -> Names \cup IoFiles \cup {NONE}]
  /\ k \in [Threads -> 0 .. 5] /\ ncalls \in 0 .. MaxCalls

TypeOK ==
  /\ acme \in BOOLEAN /\ closed \in BOOLEAN /\ crashed \in BOOLEAN
  /\ mtx \in Threads \cup {NONE} /\ wins \subseteq Slots
  /\ open \subseteq {Index, NewCtl}
       \cup UNION {WinFiles(i) \cup {EventFile(i)} : i \in Slots}
  /\ wmtx \in [Slots -> Threads \cup {NONE}]
  /\ EventType /\ ThreadType
  /\ named \in [Names -> Nat] /\ unread \subseteq Names
  /\ pos \in [EventWins -> 1 .. Total + 1] /\ first \in [EventWins -> 1 .. Total + 1]
  /\ got \in [EventWins -> Seq(0 .. Total)]

Init ==
  /\ acme = FALSE /\ closed = FALSE /\ mtx = NONE /\ wins = {} /\ open = {}
  /\ wmtx = [i \in Slots |-> NONE]
  /\ emtx = [i \in EventWins |-> NONE] /\ event = {}
  /\ tag = [i \in EventWins |-> NoTag]
  /\ n = [i \in EventWins |-> 0] /\ dst = [i \in EventWins |-> 0]
  /\ buf = [i \in EventWins |-> [j \in 1 .. SizeofBuf |-> 0]]
  /\ crashed = FALSE
  /\ pc = [t \in Threads |-> "idle"] /\ win = [t \in Threads |-> 0]
  /\ arg = [t \in Threads |-> NONE] /\ k = [t \in Threads |-> 0]
  /\ ncalls = 0
  /\ named = [m \in Names |-> 0] /\ unread = {}
  /\ pos = [i \in EventWins |-> 1] /\ first = [i \in EventWins |-> 1]
  /\ got = [i \in EventWins |-> <<>>]

Goto(t, l) == pc' = [pc EXCEPT ![t] = l]
Return(t) ==
  /\ Goto(t, "idle")
  /\ win' = [win EXCEPT ![t] = 0]
  /\ arg' = [arg EXCEPT ![t] = NONE] /\ k' = [k EXCEPT ![t] = 0]

\* acme_close has been called.
Closing == \E u \in Threads : pc[u] \in {"close", "unlock", "unmount"}
CanCall(t) == pc[t] = "idle" /\ acme /\ ~Closing /\ ncalls < MaxCalls

\* The thread t calls an operation on window i.
Call(t, op, i, a) ==
  /\ CanCall(t)
  /\ Goto(t, op)
  /\ win' = [win EXCEPT ![t] = i] /\ arg' = [arg EXCEPT ![t] = a]
  /\ ncalls' = ncalls + 1
  /\ UNCHANGED <<acmeVars, open, wmtx, eventVars, crashed, k, named, unread,
                 sessionVars>>

\* Callers use a window that they pass to no win_release.
Releasing(i) == \E u \in Threads : pc[u] = "release" /\ win[u] = i

-----------------------------------------------------------------------------
(* acme_connect, called when there is no Acme.                             *)

UnchangedButOpen == UNCHANGED <<closed, mtx, wins, wmtx, eventVars, crashed,
                                ncalls, named, unread, sessionVars>>

acme_connect(t) ==
  /\ ~acme /\ \A u \in Threads : pc[u] = "idle"
  /\ ncalls < MaxCalls
  /\ Goto(t, "mount")
  /\ ncalls' = ncalls + 1
  /\ UNCHANGED <<acmeVars, open, wmtx, eventVars, crashed, win, arg, k, named,
                 unread, sessionVars>>

Mounts(t) ==
  /\ pc[t] = "mount"
  /\ Goto(t, "index")
  /\ UNCHANGED <<acme, open, win, arg, k>> /\ UnchangedButOpen

MountFails(t) ==
  /\ pc[t] = "mount"
  /\ Return(t)
  /\ UNCHANGED <<acme, open>> /\ UnchangedButOpen

OpensIndex(t) ==
  /\ pc[t] = "index"
  /\ open' = open \cup {Index}
  /\ acme' = TRUE
  /\ Return(t) /\ UnchangedButOpen

\* unmount9 waits until no file is open.
IndexFails(t) ==
  /\ pc[t] = "index" /\ open = {}
  /\ Return(t)
  /\ UNCHANGED <<acme, open>> /\ UnchangedButOpen

-----------------------------------------------------------------------------
(* acme_get_win, find_win_id_or_new and find_win_id.                       *)

GetWin(t, m) == Call(t, "get", 0, m)

UnchangedButFiles == UNCHANGED <<acme, closed, wmtx, eventVars, crashed, ncalls,
                                 sessionVars>>

\* It returns NULL when it finds the Acme closed or the table full.
GetWinAtOnce(t) ==
  /\ pc[t] = "get" /\ mtx = NONE
  /\ closed \/ wins = Slots
  /\ Return(t)
  /\ UNCHANGED <<mtx, wins, open, named, unread>> /\ UnchangedButFiles

\* Mutant: the table is not locked.
Unlocked(t) == UNCHANGED mtx
LockTable(t) == mtx' = t

GetWinLocks(t) ==
  /\ pc[t] = "get" /\ mtx = NONE
  /\ ~closed
  /\ LockTable(t)
  /\ \E i \in Slots \ wins :
       /\ \A j \in Slots \ wins : i <= j
       /\ win' = [win EXCEPT ![t] = i]
  /\ Goto(t, "find")
  /\ UNCHANGED <<wins, open, named, unread, arg, k>> /\ UnchangedButFiles

\* read9_all of the index; one that fails reads as one without the name.
find_win_id(t) ==
  /\ pc[t] = "find"
  /\ Goto(t, IF named[arg[t]] > 0 THEN "open" ELSE "new")
  /\ UNCHANGED <<mtx, wins, open, named, unread, win, arg, k>> /\ UnchangedButFiles

IndexUnread(t) ==
  /\ pc[t] = "find"
  /\ unread' = unread \cup {arg[t]}
  /\ Goto(t, "new")
  /\ UNCHANGED <<mtx, wins, open, named, win, arg, k>> /\ UnchangedButFiles

OpensNew(t) ==
  /\ pc[t] = "new"
  /\ open' = open \cup {NewCtl}
  /\ Goto(t, "name")
  /\ UNCHANGED <<mtx, wins, named, unread, win, arg, k>> /\ UnchangedButFiles

WritesName(t) ==
  /\ pc[t] = "name"
  /\ named' = [named EXCEPT ![arg[t]] = @ + 1]
  /\ Goto(t, "id")
  /\ UNCHANGED <<mtx, wins, open, unread, win, arg, k>> /\ UnchangedButFiles

ReadsId(t) ==
  /\ pc[t] = "id"
  /\ open' = open \ {NewCtl}
  /\ Goto(t, "open")
  /\ UNCHANGED <<mtx, wins, named, unread, win, arg, k>> /\ UnchangedButFiles

\* One of these three fails: no id.
NoId(t) ==
  /\ pc[t] \in {"new", "name", "id"}
  /\ open' = open \ {NewCtl}
  /\ mtx' = NONE
  /\ Return(t)
  /\ UNCHANGED <<wins, named, unread>> /\ UnchangedButFiles

\* The file that is looked at after each open9: after that of the tag it is the
\* body again.
looked_at == <<"ctl", "addr", "data", "body", "body">>

open_win_file(t, ok) ==
  LET j == k[t] + 1 IN
  /\ pc[t] = "open" /\ j <= Len(win_files)
  /\ open' = IF ok THEN open \cup {<<win[t], win_files[j]>>} ELSE open
  /\ k' = [k EXCEPT ![t] = j]
  /\ Goto(t, IF <<win[t], looked_at[j]>> \in open' THEN "open" ELSE "undo")
  /\ UNCHANGED <<mtx, wins, named, unread, win, arg>> /\ UnchangedButFiles

\* Mutant: each label is one too far, so that the last file stays open.
undo_label_next(t) == k[t] - 2
\* body_err, data_err, addr_err, ctl_err: the files before the one that failed.
undo_label(t) == k[t] - 1

UndoOpens(t) ==
  /\ pc[t] = "undo"
  /\ open' = open \ {<<win[t], win_files[j]>> : j \in 1 .. undo_label(t)}
  /\ mtx' = NONE
  /\ Return(t)
  /\ UNCHANGED <<wins, named, unread>> /\ UnchangedButFiles

\* The window is calloced, so that its events are not started.
GetWinEnds(t) ==
  /\ pc[t] = "open" /\ k[t] = Len(win_files)
  /\ wins' = wins \cup {win[t]}
  /\ mtx' = NONE
  /\ Return(t)
  /\ UNCHANGED <<open, named, unread>> /\ UnchangedButFiles

-----------------------------------------------------------------------------
(* win_release and acme_close.  Callers stop the events of a window before *)
(* either, and have no call in progress on a window that is released.      *)

Whole(i) == WinFiles(i) \subseteq open

win_release(t, i) ==
  /\ i \in wins \ event
  /\ \A u \in Threads : win[u] # i
  /\ Call(t, "release", i, NONE)

UnchangedButWins == UNCHANGED <<wmtx, eventVars, crashed, ncalls, named, unread,
                                sessionVars>>

win_release_with_lock(I) == open' = open \ UNION {WinFiles(i) : i \in I}

Released(t) ==
  /\ pc[t] = "release" /\ mtx = NONE /\ Whole(win[t])
  /\ wins' = wins \ {win[t]}
  /\ win_release_with_lock({win[t]})
  /\ Return(t)
  /\ UNCHANGED <<acme, closed, mtx>> /\ UnchangedButWins

\* Beside acme_close only an acme_get_win may be in progress.
acme_close(t) ==
  /\ pc[t] = "idle" /\ acme /\ ~Closing
  /\ event = {}
  /\ \A u \in Threads : pc[u] = "idle" \/ arg[u] \in Names
  /\ Goto(t, "close")
  /\ UNCHANGED <<acmeVars, open, wmtx, eventVars, crashed, win, arg, k, ncalls,
                 named, unread, sessionVars>>

CloseLocks(t) ==
  /\ pc[t] = "close" /\ mtx = NONE
  /\ mtx' = t
  /\ closed' = TRUE
  /\ Goto(t, "unlock")
  /\ UNCHANGED <<acme, wins, open, win, arg, k>> /\ UnchangedButWins

ClosesWins(t) ==
  /\ pc[t] = "unlock" /\ \A i \in wins : Whole(i)
  /\ wins' = {}
  /\ win_release_with_lock(wins)
  /\ mtx' = NONE
  /\ Goto(t, "unmount")
  /\ UNCHANGED <<acme, closed, win, arg, k>> /\ UnchangedButWins

ClosesIndex(t) ==
  /\ pc[t] = "unmount" /\ Index \in open
  /\ open' = open \ {Index}
  /\ UNCHANGED <<acmeVars, threadVars>> /\ UnchangedButWins

\* unmount9 waits until no file is open; the Acme is freed.  An acme_get_win that
\* waits for the mutex until then would find it gone: the callers see to it that
\* there is none.
Unmounts(t) ==
  /\ pc[t] = "unmount" /\ open = {}
  /\ \A u \in Threads : pc[u] # "get"
  /\ acme' = FALSE /\ closed' = FALSE
  /\ Return(t)
  /\ UNCHANGED <<mtx, wins, open>> /\ UnchangedButWins

\* win_release, acme_close and a read or write of a window without a tag file.
NullFile(t) ==
  /\ \/ pc[t] = "release" /\ mtx = NONE /\ ~Whole(win[t])
     \/ pc[t] = "unlock" /\ \E i \in wins : ~Whole(i)
     \/ pc[t] = "lock" /\ wmtx[win[t]] = NONE /\ <<win[t], arg[t]>> \notin open
  /\ crashed' = TRUE
  /\ UNCHANGED <<acmeVars, open, wmtx, eventVars, threadVars, ncalls, named,
                 unread, sessionVars>>

-----------------------------------------------------------------------------
(* win_fmt_ctl and the other reads and writes of a window's files, under   *)
(* the mutex of the window.                                                *)

Io(t, i, f) == i \in wins /\ ~Releasing(i) /\ Call(t, "lock", i, f)

UnchangedButIo == UNCHANGED <<acmeVars, open, eventVars, crashed, ncalls, named, unread,
                              sessionVars>>

IoLocks(t) ==
  /\ pc[t] = "lock" /\ wmtx[win[t]] = NONE /\ <<win[t], arg[t]>> \in open
  /\ wmtx' = [wmtx EXCEPT ![win[t]] = t]
  /\ Goto(t, "io")
  /\ UNCHANGED <<win, arg, k>> /\ UnchangedButIo

\* All is written or read, or the server has refused: both unlock.
IoEnds(t) ==
  /\ pc[t] = "io"
  /\ wmtx' = [wmtx EXCEPT ![win[t]] = NONE]
  /\ Return(t) /\ UnchangedButIo

-----------------------------------------------------------------------------
(* The calls of events.  All hold event_mtx until they return.             *)

EventCall(t, i, op) == i \in wins /\ ~Releasing(i) /\ Call(t, op, i, NONE)

UnchangedButEvents == UNCHANGED <<acmeVars, wmtx, crashed, ncalls, named, unread>>

EventLocks(t) ==
  /\ pc[t] \in EventOps /\ emtx[win[t]] = NONE
  /\ emtx' = [emtx EXCEPT ![win[t]] = t]
  /\ UNCHANGED <<open, event, tag, n, buf, dst, threadVars, sessionVars>>
  /\ UnchangedButEvents

Holds(t, ops) == pc[t] \in ops /\ emtx[win[t]] = t
EventReturn(t) == emtx' = [emtx EXCEPT ![win[t]] = NONE] /\ Return(t)

\* close9(win->event); win->event = NULL, and the tag is NULL too.
close_event(i) ==
  /\ open' = open \ {EventFile(i)}
  /\ event' = event \ {i}
  /\ tag' = [tag EXCEPT ![i] = NoTag]

\* Started already; stopped or not started; win_write_event, which writes what
\* the model leaves out.
NothingToDo(t) ==
  /\ \/ Holds(t, {"start", "write"}) /\ win[t] \in event
     \/ Holds(t, EventOps \ {"start"}) /\ win[t] \notin event
  /\ EventReturn(t)
  /\ UNCHANGED <<open, event, tag, n, buf, dst, sessionVars>> /\ UnchangedButEvents

\* win_start_events.  The server sends events from a whole one on.
StartOpens(t) ==
  LET i == win[t] IN
  /\ Holds(t, {"start"}) /\ i \notin event
  /\ open' = open \cup {EventFile(i)}
  /\ event' = event \cup {i}
  /\ n' = [n EXCEPT ![i] = 0]
  /\ \E p \in Range(Begins) :
       /\ p >= pos[i] /\ \A q \in Range(Begins) : q >= pos[i] => p <= q
       /\ pos' = [pos EXCEPT ![i] = p]
  /\ first' = [first EXCEPT ![i] = pos'[i]] /\ got' = [got EXCEPT ![i] = <<>>]
  /\ Goto(t, "first read")
  /\ UNCHANGED <<emtx, tag, buf, dst, win, arg, k>> /\ UnchangedButEvents

StartFails(t) ==
  /\ Holds(t, {"start"}) /\ win[t] \notin event
  /\ EventReturn(t)
  /\ UNCHANGED <<open, event, tag, n, buf, dst, sessionVars>> /\ UnchangedButEvents

\* deserialize_event: the event that the buffer starts with, its size from its
\* own numbers; there may be none, or not all of it.
Event(i) == {e \in Sent : n[i] >= Size(e) /\ buf[i][1] = Begins[e]}

Takes(i) == n[i] > 0 /\ tag[i] = NoTag

\* Mutant: the size without the newline.
event_size_short(e) == Size(e) - 1
event_size(e) == Size(e)

Deserializes(t) ==
  LET i == win[t] IN
  /\ Holds(t, {"wait", "poll"}) /\ i \in event /\ Takes(i)
  /\ \E e \in Event(i) \ Malformed :
       /\ got' = [got EXCEPT ![i] = @ \o SubSeq(buf[i], 1, Size(e))]
       /\ buf' = [buf EXCEPT ![i] =
                    [j \in 1 .. SizeofBuf |->
                       IF j + event_size(e) <= n[i] THEN @[j + event_size(e)] ELSE @[j]]]
       /\ n' = [n EXCEPT ![i] = @ - event_size(e)]
  /\ EventReturn(t)
  /\ UNCHANGED <<open, event, tag, dst, pos, first>> /\ UnchangedButEvents

\* Nothing is taken from the buffer.
IsMalformed(t) ==
  /\ Holds(t, {"wait", "poll"}) /\ win[t] \in event /\ Takes(win[t])
  /\ Event(win[t]) \cap Malformed # {}
  /\ EventReturn(t)
  /\ UNCHANGED <<open, event, tag, n, buf, dst, sessionVars>> /\ UnchangedButEvents

\* No event is there and no read is pending.
FetchMore(t) ==
  LET i == win[t] IN
  \/ pc[t] = "first read"
  \/ Holds(t, {"wait", "poll"}) /\ i \in event /\ tag[i] = NoTag /\ Event(i) = {}

\* Mutant: the read has room for the whole buffer.
read_count_all(i) == SizeofBuf
read_count(i) == SizeofBuf - dst[i]

start_event_read(t) ==
  /\ FetchMore(t)
  /\ tag' = [tag EXCEPT ![win[t]] = Pending]
  /\ dst' = [dst EXCEPT ![win[t]] = n[win[t]]]
  /\ IF pc[t] = "wait" THEN UNCHANGED <<emtx, threadVars>> ELSE EventReturn(t)
  /\ UNCHANGED <<open, event, n, buf, sessionVars>> /\ UnchangedButEvents

ReadNotStarted(t) ==
  /\ FetchMore(t)
  /\ close_event(win[t])
  /\ EventReturn(t)
  /\ UNCHANGED <<n, buf, dst, sessionVars>> /\ UnchangedButEvents

\* win_poll_event: read9_poll says that the read is not done.
PollsNothing(t) ==
  /\ Holds(t, {"poll"}) /\ win[t] \in event /\ tag[win[t]] = Pending
  /\ EventReturn(t)
  /\ UNCHANGED <<open, event, tag, n, buf, dst, sessionVars>> /\ UnchangedButEvents

ReadDone(t) ==
  LET i == win[t] IN
  /\ Holds(t, {"wait", "poll"}) /\ i \in event /\ tag[i] > 0
  /\ n' = [n EXCEPT ![i] = @ + tag[i]]
  /\ tag' = [tag EXCEPT ![i] = NoTag]
  /\ UNCHANGED <<emtx, open, event, buf, dst, threadVars, sessionVars>>
  /\ UnchangedButEvents

\* End-of-file or an error.
ReadEnds(t) ==
  /\ Holds(t, {"wait", "poll"}) /\ win[t] \in event /\ tag[win[t]] \in {0, -1}
  /\ close_event(win[t])
  /\ EventReturn(t)
  /\ UNCHANGED <<n, buf, dst, sessionVars>> /\ UnchangedButEvents

\* win_stop_events, after read9_wait; what the read returned is lost.
StopEnds(t) ==
  LET i == win[t] IN
  /\ Holds(t, {"stop"}) /\ i \in event /\ tag[i] # Pending
  /\ close_event(i)
  /\ n' = [n EXCEPT ![i] = 0]
  /\ EventReturn(t)
  /\ UNCHANGED <<buf, dst, sessionVars>> /\ UnchangedButEvents

-----------------------------------------------------------------------------
(* The server answers a read of events: with what fits of the bytes it has *)
(* or, at any time, with end-of-file (the window was deleted) or an error. *)

Answer(i, r) ==
  /\ tag[i] = Pending
  /\ tag' = [tag EXCEPT ![i] = r]
  /\ UNCHANGED <<acmeVars, open, wmtx, emtx, event, n, dst, crashed, threadVars,
                 ncalls, named, unread, first, got>>

Events(i) ==
  \E r \in 1 .. read_count(i) :
    /\ pos[i] + r - 1 <= Total
    /\ Answer(i, r)
    /\ buf' = [buf EXCEPT ![i] =
                 [j \in 1 .. SizeofBuf |->
                    IF j - dst[i] \in 1 .. r THEN pos[i] + j - dst[i] - 1 ELSE @[j]]]
    /\ pos' = [pos EXCEPT ![i] = @ + r]

NoEvents(i) ==
  /\ \E r \in {0, -1} : Answer(i, r)
  /\ UNCHANGED <<buf, pos>>

Serve(i) == Events(i) \/ NoEvents(i)

-----------------------------------------------------------------------------

Connects(t) == Mounts(t) \/ MountFails(t) \/ OpensIndex(t) \/ IndexFails(t)
Gets(t) ==
  \/ GetWinAtOnce(t) \/ GetWinLocks(t) \/ find_win_id(t) \/ IndexUnread(t)
  \/ OpensNew(t) \/ WritesName(t) \/ ReadsId(t) \/ NoId(t)
  \/ \E ok \in BOOLEAN : open_win_file(t, ok)
  \/ UndoOpens(t) \/ GetWinEnds(t)
Closes(t) ==
  Released(t) \/ CloseLocks(t) \/ ClosesWins(t) \/ ClosesIndex(t) \/ Unmounts(t)
  \/ NullFile(t)
Uses(t) == IoLocks(t) \/ IoEnds(t)
Reads(t) ==
  \/ EventLocks(t) \/ NothingToDo(t) \/ StartOpens(t) \/ StartFails(t)
  \/ Deserializes(t) \/ IsMalformed(t) \/ start_event_read(t) \/ ReadNotStarted(t)
  \/ PollsNothing(t) \/ ReadDone(t) \/ ReadEnds(t) \/ StopEnds(t)

Step(t) == ~crashed /\ (Connects(t) \/ Gets(t) \/ Closes(t) \/ Uses(t) \/ Reads(t))

Calls(t) ==
  \/ acme_connect(t) \/ acme_close(t)
  \/ \E m \in Names : GetWin(t, m)
  \/ \E i \in Slots : win_release(t, i) \/ \E f \in IoFiles : Io(t, i, f)
  \/ \E i \in EventWins, op \in EventOps : EventCall(t, i, op)

Next ==
  \/ \E t \in Threads : Step(t) \/ (~crashed /\ Calls(t))
  \/ \E i \in EventWins : ~crashed /\ Serve(i)

\* Threads are scheduled, and the server answers each read in the end.
Fairness ==
  /\ \A t \in Threads : WF_vars(Step(t))
  /\ \A i \in EventWins : WF_vars(~crashed /\ Serve(i))

Spec == Init /\ [][Next]_vars /\ Fairness

-----------------------------------------------------------------------------
(* Properties.                                                             *)

Between(t) == pc[t] \in {"find", "new", "name", "id", "open", "undo"}

\* No error path of acme_get_win, acme_connect or the events leaves a file open,
\* nor closes one of another window: while no acme_get_win is opening files, the
\* open files are those of the Acme, of its windows, which lack at most the tag,
\* and of the events that are started (acme.c:75-119, 225-299, 408-660).
FilesAccounted ==
  (\A t \in Threads : ~Between(t)) =>
    /\ open \subseteq {Index} \cup {EventFile(i) : i \in event}
                       \cup UNION {WinFiles(i) : i \in wins}
    /\ \A i \in wins : WinFiles(i) \ {<<i, "tag">>} \subseteq open
    /\ event \subseteq wins /\ \A i \in event : EventFile(i) \in open
    /\ Index \in open => acme
    /\ acme => Index \in open \/ \E t \in Threads : pc[t] = "unmount"

\* Two calls of acme_get_win never both create the window of a name, unless the
\* index could not be read (acme.c:142-146, 188-216: "creating it if there is not
\* yet one with the given name", acme.h:16).
OneWindowPerName == \A m \in Names \ unread : named[m] <= 1

\* Events arrive whole, in order and once, however the reads cut them: what has
\* been returned since win_start_events and what is in the buffer are together
\* the stream that the server has sent, but for a read that is not counted yet,
\* and no read is sent without room for it (acme.c:400-406, 483-660).
EventsWhole ==
  \A i \in event :
    LET seen == got[i] \o SubSeq(buf[i], 1, n[i])
        uncounted == IF tag[i] > 0 THEN tag[i] ELSE 0
    IN  /\ \A j \in DOMAIN seen : seen[j] = first[i] + j - 1
        /\ first[i] + Len(seen) + uncounted = pos[i]
        /\ first[i] + Len(got[i]) \in Range(Begins)
        /\ tag[i] = Pending => dst[i] = n[i] /\ dst[i] < SizeofBuf

\* Every call returns, acme_close too, which waits until all files are closed,
\* and win_wait_event, which waits for the server; one thread's error or wait
\* never leaves the other one behind a mutex (acme.c, all of it).
CallsReturn ==
  \A t \in Threads : pc[t] # "idle" ~> (pc[t] = "idle" \/ crashed)
===============================================================================
