------------------------------- MODULE Calls9p -------------------------------
(***************************************************************************)
(* What a 9P client promises to the threads that call it, without slots,   *)
(* tags, mutex, receiver or stream.  A call asks for one request; at most  *)
(* Limit requests are admitted at a time; a request goes out once and      *)
(* whole, gets at most one reply, and the reply goes to the thread that    *)
(* made it.  Only a connection that is lost or a client that is closed can *)
(* lose a request, and only then may a call end without a reply.           *)
(***************************************************************************)
EXTENDS Naturals, FiniteSets

CONSTANTS
  Callers,  \* the threads
  NONE,     \* no request, no reply
  Limit,    \* requests that may be admitted at a time
  Kinds, Sizes  \* what a request may be

VARIABLES
  stage,    \* where each thread's call is
  req,      \* the request of its last call
  calls,    \* how many it has made
  reply,    \* the reply that has come to it
  got,      \* what its last call returned
  flight,   \* requests that are out, and not answered yet
  open,     \* nobody has closed the client
  lost,     \* the server is gone
  freed     \* the client is no more

vars == <<stage, req, calls, reply, got, flight, open, lost, freed>>

Stages   == {"out", "calling", "sending", "waiting", "refused"}
Admitted == {t \in Callers : stage[t] \in {"sending", "waiting"}}
Reply(what, r) == [what |-> what, req |-> r]

Init ==
  /\ stage = [t \in Callers |-> "out"]
  /\ req = [t \in Callers |-> NONE] /\ calls = [t \in Callers |-> 0]
  /\ reply = [t \in Callers |-> NONE] /\ got = [t \in Callers |-> NONE]
  /\ flight = {} /\ open = TRUE /\ lost = FALSE /\ freed = FALSE

-----------------------------------------------------------------------------
(* The threads.                                                            *)

Begin(t) ==
  /\ stage[t] = "out" /\ ~freed
  /\ \E kind \in Kinds, size \in Sizes :
       req' = [req EXCEPT ![t] = [by |-> t, seq |-> calls[t] + 1,
                                  kind |-> kind, size |-> size]]
  /\ calls' = [calls EXCEPT ![t] = @ + 1]
  /\ stage' = [stage EXCEPT ![t] = "calling"]
  /\ UNCHANGED <<reply, got, flight, open, lost, freed>>

HasRoom == Cardinality(Admitted) < Limit

Admit(t) ==
  /\ stage[t] = "calling" /\ open /\ HasRoom
  /\ stage' = [stage EXCEPT ![t] = "sending"]
  /\ UNCHANGED <<req, calls, reply, got, flight, open, lost, freed>>

\* A request that is too big is answered by the client, and never goes out.
TooBig(t) ==
  /\ stage[t] = "calling" /\ open /\ HasRoom
  /\ stage' = [stage EXCEPT ![t] = "waiting"]
  /\ reply' = [reply EXCEPT ![t] = Reply("too big", req[t])]
  /\ UNCHANGED <<req, calls, got, flight, open, lost, freed>>

Send(t) ==
  /\ stage[t] = "sending" /\ open
  /\ req[t] \notin flight
  /\ stage' = [stage EXCEPT ![t] = "waiting"]
  /\ flight' = flight \cup {req[t]}
  /\ UNCHANGED <<req, calls, reply, got, open, lost, freed>>

Refuse(t) ==
  /\ \/ stage[t] = "calling" /\ ~open
     \/ stage[t] = "sending" /\ lost
  /\ stage' = [stage EXCEPT ![t] = "refused"]
  /\ UNCHANGED <<req, calls, reply, got, flight, open, lost, freed>>

Return(t, r) ==
  /\ ~freed
  /\ stage' = [stage EXCEPT ![t] = "out"]
  /\ reply' = [reply EXCEPT ![t] = NONE]
  /\ got' = [got EXCEPT ![t] = r]
  /\ UNCHANGED <<req, calls, flight, open, lost, freed>>

Finish(t)  == stage[t] = "waiting" /\ reply[t] # NONE /\ Return(t, reply[t])
GiveUp(t)  == stage[t] = "waiting" /\ ~open /\ Return(t, Reply("closed", req[t]))
Refused(t) == stage[t] = "refused" /\ Return(t, Reply("bad tag", req[t]))

-----------------------------------------------------------------------------
(* The server's answers, the ways in which they get lost, and the end.     *)

Answer(t, what) ==
  /\ stage[t] = "waiting" /\ reply[t] = NONE
  /\ req[t] \in flight
  /\ flight' = flight \ {req[t]}
  /\ reply' = [reply EXCEPT ![t] = Reply(what, req[t])]
  /\ UNCHANGED <<stage, req, calls, got, open, lost, freed>>

\* Requests get lost only on a client that is closed, or has lost its server.
Lose ==
  /\ ~open' \/ lost'
  /\ open' \in {open, FALSE} /\ lost' \in {lost, TRUE}
  /\ flight' \in SUBSET flight
  /\ UNCHANGED <<stage, req, calls, reply, got, freed>>

Free ==
  /\ ~open /\ Admitted = {}
  /\ freed' = TRUE
  /\ UNCHANGED <<stage, req, calls, reply, got, flight, open, lost>>

Next ==
  \/ \E t \in Callers :
       \/ Begin(t) \/ Admit(t) \/ TooBig(t) \/ Send(t) \/ Refuse(t)
       \/ Finish(t) \/ GiveUp(t) \/ Refused(t)
       \/ \E what \in {"answer", "error"} : Answer(t, what)
  \/ Lose \/ Free

Spec == Init /\ [][Next]_vars
=============================================================================
