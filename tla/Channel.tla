------------------------------ MODULE Channel -------------------------------
(***************************************************************************)
(* One channel of cryptoTools (Channel.cpp, ChannelBase): the queues of    *)
(* sends and receives, the two strands that serve them, opening, network   *)
(* failure, close and cancel.                                              *)
(*                                                                         *)
(* Three kinds of threads take part.  The user's thread checks the status, *)
(* pushes an operation and posts a handler; a closing thread (the user's   *)
(* own for close, another one for cancel) waits for both queues.  The      *)
(* workers of the io_service run the handlers of each strand one at a time *)
(* and in order, and the completions of the socket, which are outside the  *)
(* strands.                                                                *)
(*                                                                         *)
(* Sends and receives are served by the same code twice: variables are     *)
(* functions of the side.  Bytes are left out.  An operation is its number *)
(* on its side and its kind: "promise" operations answer a future, which a *)
(* plain asynchronous send does not have.                                  *)
(***************************************************************************)
EXTENDS Integers, Sequences, FiniteSets

CONSTANTS
  Cases,        \* how the socket comes, and how many operations the user starts (bound)
  QueueCap      \* the first ring of a queue (64 in the code)

Side == {"send", "recv"}
Kind(s) == IF s = "send" THEN {"plain", "promise"} ELSE {"promise"}
Op == Nat \X {"plain", "promise"}

(* The operations that the cases let the user start.                        *)
Started == UNION {UNION {(1..c[2][s]) \X Kind(s) : s \in Side} : c \in Cases}

(* The connection string goes out before any queued send, outside the queue. *)
ConnString == <<0, "plain">>

ASSUME ConstantsOK ==
  /\ Cases \subseteq {"given", "client", "server"} \X [Side -> Nat] /\ Cases # {}
  /\ QueueCap \in Nat \ {0}

INSTANCE SpscQueue WITH Item <- Op

VARIABLES
  role, load,
  conn,         \* the connection: none, connecting, retrying, pending, open, failed
  handle,       \* mHandle: none, open, closed, reset
  openCount,    \* mOpenCount
  openProm,     \* mOpenProm: none, value, exception
  status,       \* mSendStatus, mRecvStatus
  available,    \* mSendSocketAvailable, mRecvSocketAvailable
  queue,        \* mSendQueue, mRecvQueue
  queueEmpty,   \* mSendQueueEmpty, mRecvQueueEmpty; their promises are set with them
  strand,       \* the handlers waiting on mSendStrand, mRecvStrand
  io,           \* the operation the socket works on
  answers,      \* how each operation's promise was answered
  user,         \* where the user's thread is
  closer,       \* where the closing thread is
  acceptor,     \* whether Acceptor::cancelPendingChannel waits to run
  crash,        \* why the process ended
  late,         \* history: operations pushed when their queue was already given up
  moved         \* history: operations the socket carried, in order

openVars == <<role, load, conn, handle, openCount, openProm, acceptor>>
sideVars == <<status, available, queue, queueEmpty, strand, io, answers, late, moved>>
vars == <<openVars, sideVars, user, closer, crash>>

NoIo == [op |-> <<>>, phase |-> "idle"]
Running == crash = "none"
Stopped == \A s \in Side : status[s] = "Stopped"      \* stopped()

Init ==
  /\ \E c \in Cases : role = c[1] /\ load = c[2]
  /\ conn = CASE role = "given" -> "open" [] role = "client" -> "connecting" [] OTHER -> "pending"
  /\ handle = IF role = "server" THEN "none" ELSE "open"
  /\ openCount = 0
  /\ openProm = IF role = "given" THEN "value" ELSE "none"
  /\ status = [s \in Side |-> "Normal"]
  /\ available = [s \in Side |-> role = "given"]
  /\ queue = [s \in Side |-> NewQueue(QueueCap)]
  /\ queueEmpty = [s \in Side |-> FALSE]
  /\ strand = [s \in Side |-> <<>>]
  /\ io = [s \in Side |-> NoIo]
  /\ answers = [s \in Side |-> <<>>]
  /\ user = <<"idle">>
  /\ closer = <<"none">>
  /\ acceptor = "idle"
  /\ crash = "none"
  /\ late = [s \in Side |-> {}]
  /\ moved = [s \in Side |-> <<>>]

-----------------------------------------------------------------------------
(* Pieces of handlers.                                                      *)

Post(s, handler) == strand' = [strand EXCEPT ![s] = Append(@, handler)]

(* Setting a promise a second time throws out of io_service.run.            *)
Answered(s, op) == op[2] = "promise" /\ answers[s][op[1]] # "none"

Answer(s, op, how) ==
  IF op[2] = "plain" THEN UNCHANGED <<answers, crash>>
  ELSE IF Answered(s, op) THEN crash' = "promise set twice" /\ UNCHANGED answers
  ELSE answers' = [answers EXCEPT ![s][op[1]] = how] /\ UNCHANGED crash

(* asyncPerformSend, asyncPerformRecv: q is the queue the handler leaves.   *)
Perform(s, isAvailable, q) ==
  IF ~isAvailable THEN crash' = "not available" /\ UNCHANGED <<available, io>>
  ELSE IF handle = "reset" THEN crash' = "no socket" /\ UNCHANGED <<available, io>>
  ELSE /\ available' = [available EXCEPT ![s] = FALSE]
       /\ io' = [io EXCEPT ![s] = [op |-> Front(q), phase |-> IF s = "recv" THEN "header" ELSE "data"]]
       /\ UNCHANGED crash

Finish(s) == strand' = [strand EXCEPT ![s] = Tail(@)]

(* Start the first operation of the queue if the socket is free for it.     *)
PerformIfAny(s) ==
  IF IsEmpty(queue[s])
  THEN available' = [available EXCEPT ![s] = TRUE] /\ UNCHANGED <<io, crash>>
  ELSE Perform(s, TRUE, queue[s])

SetQueueEmpty(s) == queueEmpty' = [queueEmpty EXCEPT ![s] = TRUE]

GiveUpIf(s, condition) ==
  IF condition /\ ~queueEmpty[s] THEN SetQueueEmpty(s) ELSE UNCHANGED queueEmpty

-----------------------------------------------------------------------------
(* The handlers of a strand.  Each runs when it is the first one waiting.   *)

Runs(s, handler) == Running /\ strand[s] # <<>> /\ Head(strand[s]) = handler

KickUnasked(s) ==
  /\ Runs(s, "kick")
  /\ IF ~IsEmpty(queue[s]) THEN Perform(s, available[s], queue[s]) ELSE UNCHANGED <<available, io, crash>>
  /\ Finish(s)
  /\ UNCHANGED <<openVars, status, queue, queueEmpty, answers, late, moved, user, closer>>

(* sendEnque, recvEnque: an operation was pushed.                           *)
Kick(s) ==
  /\ Runs(s, "kick")
  /\ IF ~IsEmpty(queue[s]) /\ available[s]
     THEN Perform(s, available[s], queue[s])
     ELSE UNCHANGED <<available, io, crash>>
  /\ Finish(s)
  /\ UNCHANGED <<openVars, status, queue, queueEmpty, answers, late, moved, user, closer>>

CompleteWithoutTelling(s) ==
  /\ Runs(s, "complete")
  /\ LET q == PopFront(queue[s])
     IN  /\ queue' = [queue EXCEPT ![s] = q]
         /\ IF IsEmpty(q)
            THEN available' = [available EXCEPT ![s] = TRUE] /\ UNCHANGED <<io, crash>>
            ELSE Perform(s, TRUE, q)
  /\ Finish(s)
  /\ UNCHANGED <<openVars, status, queueEmpty, answers, late, moved, user, closer>>

(* asyncPerformSend, asyncPerformRecv: the operation under way ended well.  *)
Complete(s) ==
  /\ Runs(s, "complete")
  /\ LET q == PopFront(queue[s])
     IN  /\ queue' = [queue EXCEPT ![s] = q]
         /\ IF IsEmpty(q)
            THEN available' = [available EXCEPT ![s] = TRUE] /\ UNCHANGED <<io, crash>>
            ELSE Perform(s, TRUE, q)
         /\ GiveUpIf(s, IsEmpty(q) /\ status[s] = "Stopped")
  /\ Finish(s)
  /\ UNCHANGED <<openVars, status, answers, late, moved, user, closer>>

(* setSendFatalError, setRecvFatalError, and inside them, without leaving   *)
(* the strand, cancelSendQueuedOperations, cancelRecvQueuedOperations.      *)
Fatal(s) ==
  /\ Runs(s, "fatal")
  /\ status' = [status EXCEPT ![s] = "Stopped"]
  /\ strand' = [strand EXCEPT ![s] = <<"drain">> \o Tail(@)]
  /\ UNCHANGED <<openVars, available, queue, queueEmpty, io, answers, late, moved, user, closer, crash>>

(* One round of the loop that cancels what is queued ...                    *)
DrainOne(s) ==
  /\ Runs(s, "drain") /\ ~queueEmpty[s] /\ ~IsEmpty(queue[s])
  /\ Answer(s, Front(queue[s]), "exception")
  /\ queue' = IF Answered(s, Front(queue[s])) THEN queue ELSE [queue EXCEPT ![s] = PopFront(@)]
  /\ UNCHANGED <<openVars, status, available, queueEmpty, strand, io, late, moved, user, closer>>

(* ... and its end.                                                         *)
DrainEnd(s) ==
  /\ Runs(s, "drain") /\ (queueEmpty[s] \/ IsEmpty(queue[s]))
  /\ GiveUpIf(s, TRUE)
  /\ Finish(s)
  /\ UNCHANGED <<openVars, status, available, queue, io, answers, late, moved, user, closer, crash>>

CloseSideAtOnce(s) ==
  /\ Runs(s, "close")
  /\ status' = [status EXCEPT ![s] = "Stopped"]
  /\ GiveUpIf(s, TRUE)
  /\ Finish(s)
  /\ UNCHANGED <<openVars, available, queue, io, answers, late, moved, user, closer, crash>>

CancelSideWithoutTelling(s) ==
  /\ Runs(s, "cancel")
  /\ Finish(s)
  /\ UNCHANGED <<openVars, status, available, queue, queueEmpty, io, answers, late, moved, user, closer, crash>>

(* The handler of close stops the side, that of cancel finds it stopped.    *)
(* A receive that met a buffer of the wrong size is not looked for:         *)
(* mActiveRecvSizeError is never set.                                       *)
CloseSide(s) ==
  /\ Runs(s, "close")
  /\ status' = [status EXCEPT ![s] = "Stopped"]
  /\ GiveUpIf(s, IsEmpty(queue[s]))
  /\ Finish(s)
  /\ UNCHANGED <<openVars, available, queue, io, answers, late, moved, user, closer, crash>>

CancelSide(s) ==
  /\ Runs(s, "cancel")
  /\ GiveUpIf(s, IsEmpty(queue[s]))
  /\ Finish(s)
  /\ UNCHANGED <<openVars, status, available, queue, io, answers, late, moved, user, closer, crash>>

OpenSideBeforeConnString(s) ==
  /\ Runs(s, "open")
  /\ openCount' = openCount + 1
  /\ openProm' = IF openCount = 1 THEN "value" ELSE openProm
  /\ IF role = "client" /\ s = "send"
     THEN /\ io' = [io EXCEPT ![s] = [op |-> ConnString, phase |-> "data"]]
          /\ available' = [available EXCEPT ![s] = TRUE]
          /\ UNCHANGED crash
     ELSE PerformIfAny(s)
  /\ Finish(s)
  /\ UNCHANGED <<role, load, conn, handle, acceptor, status, queue, queueEmpty, answers, late, moved, user, closer>>

(* startSocket and the connect callback: the side is open.  A client sends  *)
(* the connection string first, without asking whether the socket is free.  *)
OpenSide(s) ==
  /\ Runs(s, "open")
  /\ openCount' = openCount + 1
  /\ openProm' = IF openCount = 1 THEN "value" ELSE openProm
  /\ IF role = "client" /\ s = "send"
     THEN /\ io' = [io EXCEPT ![s] = [op |-> ConnString, phase |-> "data"]]
          /\ UNCHANGED <<available, crash>>
     ELSE PerformIfAny(s)
  /\ Finish(s)
  /\ UNCHANGED <<role, load, conn, handle, acceptor, status, queue, queueEmpty, answers, late, moved, user, closer>>

ConnStringSent ==
  /\ Runs("send", "sent")
  /\ PerformIfAny("send")
  /\ GiveUpIf("send", IsEmpty(queue["send"]) /\ status["send"] = "Stopped")
  /\ Finish("send")
  /\ UNCHANGED <<openVars, status, queue, answers, late, moved, user, closer>>

StrandStep(s) ==
  \/ Kick(s) \/ Complete(s) \/ Fatal(s) \/ DrainOne(s) \/ DrainEnd(s)
  \/ CloseSide(s) \/ CancelSide(s) \/ OpenSide(s)
  \/ (s = "send" /\ ConnStringSent)

-----------------------------------------------------------------------------
(* Completions of the socket, on any worker and outside the strands.        *)

Moved(s) == moved' = [moved EXCEPT ![s] = Append(@, io[s].op)]

UnderWay(s) == io[s].phase \in {"header", "body", "data"}

(* The header of a receive is in; its buffer has or gets the right size ... *)
HeaderFits ==
  /\ Running /\ handle = "open" /\ io["recv"].phase = "header"
  /\ io' = [io EXCEPT !["recv"].phase = "body"]
  /\ UNCHANGED <<openVars, status, available, queue, queueEmpty, strand, answers, late, moved, user, closer, crash>>

(* ... or it does not, and the user is given the means to finish.           *)
HeaderMisfits ==
  /\ Running /\ handle = "open" /\ io["recv"].phase = "header"
  /\ Answer("recv", io["recv"].op, "exception")
  /\ io' = [io EXCEPT !["recv"].phase = "parked"]
  /\ UNCHANGED <<openVars, status, available, queue, queueEmpty, strand, late, moved, user, closer>>

TransferSucceeds(s) ==
  /\ Running /\ handle = "open" /\ io[s].phase \in {"data", "body"}
  /\ Answer(s, io[s].op, "value")
  /\ io' = [io EXCEPT ![s] = NoIo]
  /\ IF io[s].op = ConnString
     THEN Post(s, "sent") /\ UNCHANGED moved
     ELSE Post(s, "complete") /\ Moved(s)
  /\ UNCHANGED <<openVars, status, available, queue, queueEmpty, late, user, closer>>

(* A send with a promise sets it and then reports the failure; a receive    *)
(* and a plain send only report it.                                         *)
TransferFails(s) ==
  /\ Running /\ UnderWay(s)
  /\ IF s = "send" THEN Answer(s, io[s].op, "exception") ELSE UNCHANGED <<answers, crash>>
  /\ io' = [io EXCEPT ![s] = NoIo]
  /\ Post(s, "fatal")
  /\ UNCHANGED <<openVars, status, available, queue, queueEmpty, late, moved, user, closer>>

(* BadReceiveBufferSize::mRescheduler, called by the user with a buffer     *)
(* that fits: it receives and then calls the completion.                    *)
Reschedule ==
  /\ Running /\ io["recv"].phase = "parked" /\ user = <<"idle">>
  /\ closer[1] \notin {"close", "done"}
  /\ io' = [io EXCEPT !["recv"] = NoIo]
  /\ \/ handle = "open" /\ Post("recv", "complete") /\ Moved("recv")
     \/ Post("recv", "fatal") /\ UNCHANGED moved
  /\ UNCHANGED <<openVars, status, available, queue, queueEmpty, answers, late, user, closer, crash>>

-----------------------------------------------------------------------------
(* The connection.                                                          *)

ConnectSucceeds ==
  /\ Running /\ conn = "connecting" /\ handle = "open"
  /\ conn' = "open"
  /\ strand' = [s \in Side |-> Append(strand[s], "open")]
  /\ UNCHANGED <<role, load, handle, openCount, openProm, acceptor, status, available, queue,
                 queueEmpty, io, answers, late, moved, user, closer, crash>>

(* Try again in 10 ms, unless the channel has been stopped.                 *)
ConnectFails ==
  /\ Running /\ conn = "connecting"
  /\ IF Stopped THEN conn' = "failed" /\ openProm' = "exception"
     ELSE conn' = "retrying" /\ UNCHANGED openProm
  /\ UNCHANGED <<role, load, handle, openCount, acceptor, sideVars, user, closer, crash>>

(* The timer does not look at the status: it opens the socket anew.         *)
RetryTimer ==
  /\ Running /\ conn = "retrying"
  /\ conn' = "connecting" /\ handle' = "open"
  /\ UNCHANGED <<role, load, openCount, openProm, acceptor, sideVars, user, closer, crash>>

(* The acceptor hands over a socket: startSocket.                           *)
StartSocket ==
  /\ Running /\ conn = "pending"
  /\ conn' = "open" /\ handle' = "open"
  /\ strand' = [s \in Side |-> Append(strand[s], "open")]
  /\ UNCHANGED <<role, load, openCount, openProm, acceptor, status, available, queue,
                 queueEmpty, io, answers, late, moved, user, closer, crash>>

(* Acceptor::cancelPendingChannel, on the acceptor's strand.                *)
CancelPending ==
  /\ Running /\ acceptor = "asked"
  /\ acceptor' = "idle"
  /\ IF conn = "pending" THEN conn' = "failed" /\ openProm' = "exception"
     ELSE UNCHANGED <<conn, openProm>>
  /\ UNCHANGED <<role, load, handle, openCount, sideVars, user, closer, crash>>

-----------------------------------------------------------------------------
(* The user's calls.                                                        *)

(* send, asyncSend, recv, asyncRecv first expect the status to be Normal.   *)
CheckStatus(s, kind) ==
  /\ Running /\ user = <<"idle">> /\ closer[1] \notin {"close", "done"}
  /\ status[s] = "Normal"
  /\ Len(answers[s]) < load[s]
  /\ user' = <<"checked", s, <<Len(answers[s]) + 1, kind>>>>
  /\ UNCHANGED <<openVars, sideVars, closer, crash>>

(* Then they push the operation and post to the strand.  send waits for its *)
(* future; so does recv, and a receive may as well be waited for later.     *)
Push ==
  /\ Running /\ user[1] = "checked"
  /\ LET s == user[2]
         op == user[3]
     IN  /\ queue' = [queue EXCEPT ![s] = PushBack(@, op)]
         /\ answers' = [answers EXCEPT ![s] = Append(@, "none")]
         /\ late' = [late EXCEPT ![s] = IF queueEmpty[s] THEN @ \cup {op} ELSE @]
         /\ Post(s, "kick")
         /\ \/ op[2] = "promise" /\ user' = <<"waiting", s, op>>
            \/ (s = "recv" \/ op[2] = "plain") /\ user' = <<"idle">>
  /\ UNCHANGED <<openVars, status, available, queueEmpty, io, moved, closer, crash>>

Wake ==
  /\ Running /\ user[1] = "waiting" /\ answers[user[2]][user[3][1]] # "none"
  /\ user' = <<"idle">>
  /\ UNCHANGED <<openVars, sideVars, closer, crash>>

-----------------------------------------------------------------------------
CloseWhenOneSideStopped ==
  /\ Running /\ closer = <<"none">> /\ user = <<"idle">>
  /\ closer' = IF \E s \in Side : status[s] = "Stopped" THEN <<"done", "close">> ELSE <<"close", "opening">>
  /\ UNCHANGED <<openVars, sideVars, user, crash>>

(* close: the user's thread, so no call of it is under way.                 *)
Close ==
  /\ Running /\ closer = <<"none">> /\ user = <<"idle">>
  /\ closer' = IF Stopped THEN <<"done", "close">> ELSE <<"close", "opening">>
  /\ UNCHANGED <<openVars, sideVars, user, crash>>

(* cancel, from any thread: both sides are stopped outside their strands.   *)
Cancel ==
  /\ Running /\ closer = <<"none">>
  /\ IF Stopped
     THEN closer' = <<"done", "cancel">> /\ UNCHANGED <<status, handle, acceptor>>
     ELSE /\ closer' = <<"cancel", "opening">>
          /\ status' = [s \in Side |-> "Stopped"]
          /\ handle' = IF handle = "none" THEN "none" ELSE "closed"
          /\ acceptor' = IF role = "server" THEN "asked" ELSE "idle"
  /\ UNCHANGED <<role, load, conn, openCount, openProm, available, queue, queueEmpty, strand, io,
                 answers, late, moved, user, crash>>

(* mOpenFut.get() returns or throws; then each strand is asked.             *)
CloserOpen ==
  /\ Running /\ closer[1] \in {"close", "cancel"} /\ closer[2] = "opening" /\ openProm # "none"
  /\ closer' = <<closer[1], "send">>
  /\ strand' = [s \in Side |-> strand[s] \o
                  IF openProm = "exception" THEN <<"drain", closer[1]>> ELSE <<closer[1]>>]
  /\ UNCHANGED <<openVars, status, available, queue, queueEmpty, io, answers, late, moved, user, crash>>

(* mSendQueueEmptyFuture.get()                                              *)
CloserSend ==
  /\ Running /\ closer[1] \in {"close", "cancel"} /\ closer[2] = "send" /\ queueEmpty["send"]
  /\ closer' = <<closer[1], "recv">>
  /\ UNCHANGED <<openVars, sideVars, user, crash>>

(* mRecvQueueEmptyFuture.get(), and the socket goes.                        *)
CloserRecv ==
  /\ Running /\ closer[1] \in {"close", "cancel"} /\ closer[2] = "recv" /\ queueEmpty["recv"]
  /\ closer' = <<"done", closer[1]>>
  /\ handle' = "reset"
  /\ UNCHANGED <<role, load, conn, openCount, openProm, acceptor, sideVars, user, crash>>

CloserStep == CloserOpen \/ CloserSend \/ CloserRecv

-----------------------------------------------------------------------------
Next ==
  \/ \E s \in Side : StrandStep(s) \/ TransferSucceeds(s) \/ TransferFails(s)
  \/ HeaderFits \/ HeaderMisfits \/ Reschedule
  \/ ConnectSucceeds \/ ConnectFails \/ RetryTimer \/ StartSocket \/ CancelPending
  \/ \E s \in Side : \E kind \in Kind(s) : CheckStatus(s, kind)
  \/ Push \/ Wake \/ Close \/ Cancel \/ CloserStep

(* The workers run what is posted, a closed socket reports to whoever uses  *)
(* it, an attempt to connect ends, threads of the user go on when they can. *)
Fairness ==
  /\ \A s \in Side : WF_vars(StrandStep(s))
  /\ \A s \in Side : WF_vars(handle # "open" /\ TransferFails(s))
  /\ WF_vars(ConnectSucceeds \/ ConnectFails)
  /\ WF_vars(RetryTimer) /\ WF_vars(CancelPending)
  /\ WF_vars(Push) /\ WF_vars(Wake) /\ WF_vars(CloserStep)

Spec == Init /\ [][Next]_vars /\ Fairness

-----------------------------------------------------------------------------
(* Properties.                                                              *)

Phases == {"idle", "header", "body", "data", "parked"}

TypeOK ==
  /\ <<role, load>> \in Cases
  /\ conn \in {"connecting", "retrying", "pending", "open", "failed"}
  /\ handle \in {"none", "open", "closed", "reset"}
  /\ openCount \in 0..2
  /\ openProm \in {"none", "value", "exception"}
  /\ acceptor \in {"idle", "asked"}
  /\ status \in [Side -> {"Normal", "Stopped"}]
  /\ available \in [Side -> BOOLEAN]
  /\ queueEmpty \in [Side -> BOOLEAN]
  /\ \A s \in Side :
       /\ QueueOK(queue[s])
       /\ strand[s] \in Seq({"kick", "complete", "fatal", "drain", "close", "cancel", "open", "sent"})
       /\ io[s].phase \in Phases /\ io[s].op \in Op \cup {Nil}
       /\ answers[s] \in Seq({"none", "value", "exception"})
       /\ moved[s] \in Seq(Op) /\ late[s] \subseteq Op
  /\ user[1] \in {"idle", "checked", "waiting"}
  /\ closer[1] \in {"none", "close", "cancel", "done"}
  /\ crash \in {"none", "promise set twice", "not available", "no socket"}

(* Each queue of rings is a first-in first-out queue to the two threads     *)
(* that use it (IoBuffer.h, SpscQueue), migration between rings included.   *)
Pending == INSTANCE Fifo WITH
             Queue <- Side,
             Item <- Started,
             waiting <- [s \in Side |-> Items(queue[s])]
QueuesAreFifo == Pending!Spec

Completions(s) == {k \in DOMAIN strand[s] : strand[s][k] \in {"complete", "sent", "fatal"}}

(* Operations cross the socket one after the other, in the order they were  *)
(* queued, and each at most once, although kicks, completions and opening   *)
(* may each start the next one: the right to start one is in one place, it  *)
(* is free, or one operation has it, which is the first one of the queue,   *)
(* or a completion on its way to the strand (asyncPerformSend,              *)
(* asyncPerformRecv).                                                       *)
OneAtATime ==
  \A s \in Side :
    /\ Cardinality(Completions(s)) + (IF available[s] THEN 1 ELSE 0)
         + (IF io[s].phase # "idle" THEN 1 ELSE 0) <= 1
    /\ io[s].phase # "idle" /\ io[s].op # ConnString =>
         ~IsEmpty(queue[s]) /\ io[s].op = Front(queue[s])
    /\ \A k \in DOMAIN moved[s] : moved[s][k][1] = k

(* The connection string is under way, before any send.                     *)
ConnStringFirst(s) ==
  s = "send" /\ role = "client" /\ io[s].op = ConnString /\ moved[s] = <<>>

(* Once the promise that close and cancel wait for is set, no operation     *)
(* that was pushed in time is queued or under way.  Two things may be: an   *)
(* operation that was pushed too late, and on a client the connection       *)
(* string.  That is sent outside the queue, close and cancel look at the    *)
(* queue only (Channel.cpp:125, 473), and then the socket goes, although    *)
(* Channel.h:266 has close wait for all pending operations.  And operations *)
(* are cancelled, which destroys their buffers, only when the socket uses   *)
(* none of them (cancelSendQueuedOperations, cancelRecvQueuedOperations).   *)
GivenUpIsFinished ==
  \A s \in Side :
    /\ Running /\ queueEmpty[s] =>
         /\ \A k \in DOMAIN Items(queue[s]) : Items(queue[s])[k] \in late[s]
         /\ io[s].phase # "idle" => io[s].op \in late[s] \/ ConnStringFirst(s)
    /\ Runs(s, "drain") /\ ~queueEmpty[s] => io[s].phase = "idle"

(* What can end the process: an operation whose promise a failure answers   *)
(* again, or an operation pushed after the channel gave its queue up.  The  *)
(* throws of asyncPerformSend and asyncPerformRecv are never reached.       *)
CrashesAreKnown ==
  /\ crash # "not available"
  /\ crash = "promise set twice" =>
       \E s \in Side : ~IsEmpty(queue[s]) /\ status[s] = "Stopped" /\ answers[s][Front(queue[s])[1]] = "exception"
  /\ crash = "no socket" => \E s \in Side : late[s] # {}

(* cancel returns, whatever the peer does, unless a receive met a buffer of *)
(* the wrong size, a socket was opened after cancel looked for one, or the  *)
(* process ended.                                                           *)
Parked == io["recv"].phase = "parked"

CancelReturns ==
  closer[1] = "cancel" ~> closer[1] = "done" \/ Parked \/ handle = "open" \/ ~Running

(* close returns if the peer connects and takes and sends what it should.   *)
PeerActive ==
  /\ SF_vars(ConnectSucceeds) /\ WF_vars(StartSocket)
  /\ WF_vars(HeaderFits \/ HeaderMisfits)
  /\ \A s \in Side : WF_vars(TransferSucceeds(s))

CloseReturns == PeerActive => (closer[1] = "close" ~> closer[1] = "done" \/ Parked \/ ~Running)

(* What close leaves behind when it returns: operations that a failure has  *)
(* doomed and whose cancelling is still to run, because close does not wait *)
(* when both sides are stopped, and operations pushed too late.  Channel.h  *)
(* promises more: that it "blocks until all pending operations have         *)
(* completed".                                                              *)
CloseLeavesOnlyTheDoomed ==
  Running /\ closer = <<"done", "close">> =>
    \A s \in Side :
      \/ \A k \in DOMAIN Items(queue[s]) : Items(queue[s])[k] \in late[s]
      \/ strand[s] # <<>> /\ Head(strand[s]) = "drain"
=============================================================================
