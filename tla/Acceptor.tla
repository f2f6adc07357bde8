------------------------------ MODULE Acceptor ------------------------------
(***************************************************************************)
(* The acceptor of cryptoTools (IOService.cpp, Session.cpp): it listens on *)
(* a port while somebody wants sockets, takes connections, learns their    *)
(* names in a handshake, and pairs them with the channels of the sessions  *)
(* of this process.  Sessions need not have different names: a session is  *)
(* paired with the first remote session that offers a socket one of its    *)
(* channels waits for, and with no other afterwards.                       *)
(*                                                                         *)
(* All tables are changed by handlers of one strand, which run one at a    *)
(* time in the order they were posted.  They are posted by the threads     *)
(* that use the sessions, by the thread that stops the acceptor, and by    *)
(* the completions of sockets, which run outside the strand.               *)
(***************************************************************************)
EXTENDS Integers, Sequences, FiniteSets, SequencesExt

CONSTANTS
  Session,      \* the sessions of this process, each used by a thread of its own
  Cases         \* who calls what (bound); see below

(* name: mName of each session that is started.  plan: the names of the     *)
(* channels it adds.  remote: the connections clients make, as session      *)
(* name, session ID and name of the channel.  mute: the connections whose   *)
(* client may go before it says its name.  cancels: the channels that may   *)
(* be cancelled.  stops: the sessions that may be stopped.  stop: whether   *)
(* the acceptor may be stopped.                                             *)
ASSUME ConstantsOK ==
  /\ Cases # {}
  /\ \A w \in Cases :
       LET used == DOMAIN w.name
       IN  /\ used \subseteq Session /\ used # {}
           /\ w.name \in [used -> STRING] /\ w.plan \in [used -> Seq(STRING)]
           /\ w.remote \in Seq(STRING \X (Nat \ {0}) \X STRING) /\ w.mute \subseteq Nat
           /\ w.cancels \subseteq used \X Nat /\ w.stops \subseteq used /\ w.stop \in BOOLEAN

None == <<>>
Refused == <<"exception", None>>

VARIABLES
  work,
  mStopped, mListening,
  accepting,    \* asynchronous accepts under way
  aborted,      \* accepts that closing mHandle ended, with their callback still to run
  phase,        \* how far each connection is
  closed,       \* connections whose socket stop() closed
  groups,       \* mGroups: the group of each session that has one
  unclaimed,    \* mUnclaimedGroups, the lists of all names in one
  socketGroups, \* mSockets, which are the groups of mUnclaimedSockets
  mSessionID,   \* of each session, 0 until it is paired
  strand,       \* the handlers waiting on mStrand
  user,         \* what the thread of each session is doing
  added,        \* how many channels each session has added
  cancelled,    \* the channels somebody cancelled
  outcome,      \* what each channel got: a connection or an exception
  stopper,      \* where the thread that calls stop() is
  pendingSocketsEmpty, stoppedProm,   \* whether the two promises are set
  keptBusy,     \* history: stop() found sessions or channels still subscribed
  crash         \* why the process ended

netVars == <<mListening, accepting, aborted>>
bookVars == <<groups, unclaimed, socketGroups, mSessionID, outcome>>
stopVars == <<mStopped, pendingSocketsEmpty, stoppedProm, keptBusy, closed>>
userVars == <<user, added, cancelled, stopper>>
vars == <<work, netVars, phase, bookVars, strand, stopVars, userVars, crash>>

Connection == DOMAIN work.remote
Remote(c) == <<work.remote[c][1], work.remote[c][2]>>    \* session name and ID
Used == DOMAIN work.name                                 \* the sessions of this case
Channel == UNION {{<<s, i>> : i \in DOMAIN work.plan[s]} : s \in Used}

Running == crash = "none"

(* A channel and a connection whose channel names agree.                    *)
Match(ch, c) == work.plan[ch[1]][ch[2]] = work.remote[c][3]

Init ==
  /\ work \in Cases
  /\ mStopped = FALSE /\ mListening = FALSE
  /\ accepting = 0 /\ aborted = 0
  /\ phase = [c \in Connection |-> "unknown"]
  /\ closed = {}
  /\ groups = <<>> /\ unclaimed = <<>> /\ socketGroups = <<>>
  /\ mSessionID = [s \in Used |-> 0]
  /\ strand = <<>>
  /\ user = [s \in Used |-> "new"]
  /\ added = [s \in Used |-> 0]
  /\ cancelled = {}
  /\ outcome = [ch \in Channel |-> None]
  /\ stopper = "idle"
  /\ pendingSocketsEmpty = FALSE /\ stoppedProm = FALSE
  /\ keptBusy = FALSE
  /\ crash = "none"

-----------------------------------------------------------------------------
(* Groups.                                                                  *)

NewGroup == [channels |-> <<>>, sockets |-> <<>>, live |-> TRUE, key |-> None]

HasSubscriptions(g) == g.channels # <<>> \/ g.live

Subscribed(gs) == \E s \in DOMAIN gs : HasSubscriptions(gs[s])

(* SessionGroup::add of a socket: to a waiting channel or to the sockets.   *)
(* A book is a group with the outcomes of the channels.                     *)
AddSocket(book, c) ==
  LET g == book[1]
      i == SelectInSeq(g.channels, LAMBDA ch : Match(ch, c))
  IN  IF i = 0 THEN <<[g EXCEPT !.sockets = Append(@, c)], book[2]>>
      ELSE <<[g EXCEPT !.channels = RemoveAt(@, i)], [book[2] EXCEPT ![g.channels[i]] = <<"socket", c>>]>>

(* The loop of SessionGroup::merge.                                         *)
AddSockets(book, sockets) ==
  LET f[k \in 0 .. Len(sockets)] == IF k = 0 THEN book ELSE AddSocket(f[k - 1], sockets[k])
  IN  f[Len(sockets)]

(* SessionGroup::add of a channel.                                          *)
AddChannel(book, ch) ==
  LET g == book[1]
      i == SelectInSeq(g.sockets, LAMBDA c : Match(ch, c))
  IN  IF i = 0 THEN <<[g EXCEPT !.channels = Append(@, ch)], book[2]>>
      ELSE <<[g EXCEPT !.sockets = RemoveAt(@, i)], [book[2] EXCEPT ![ch] = <<"socket", g.sockets[i]>>]>>

-----------------------------------------------------------------------------
(* Pieces of handlers.                                                      *)

Runs(handler) == Running /\ strand # <<>> /\ Head(strand) = handler

Post(handlers) == strand' = strand \o handlers

(* mPendingSockets.size()                                                   *)
PendingSockets ==
  accepting + aborted
  + Cardinality({c \in Connection : phase[c] \in {"taken", "accepted", "header", "named", "failed"}})
  + Cardinality({k \in DOMAIN strand : strand[k] = <<"erase", None>>})

EraseSilently == UNCHANGED pendingSocketsEmpty

(* A pending socket is erased; the last one after stop() sets the promise.  *)
LastErased == mStopped /\ PendingSockets = 1

Erase == pendingSocketsEmpty' = (pendingSocketsEmpty \/ LastErased)

(* What a handler that erases throws, if anything.                          *)
ErasedTwice == LastErased /\ pendingSocketsEmpty

(* mHandle.close() ends the accepts under way.                              *)
CloseHandle == accepting' = 0 /\ aborted' = aborted + accepting

(* stopListening, with the groups a handler leaves.                         *)
StopListeningUnless(subscribed) ==
  IF mListening /\ ~subscribed
  THEN mListening' = FALSE /\ CloseHandle /\ stoppedProm' = (stoppedProm \/ mStopped)
  ELSE UNCHANGED <<netVars, stoppedProm>>

SettleStillUnclaimed(s, g) ==
  LET left == IF HasSubscriptions(g) THEN [groups EXCEPT ![s] = g]
              ELSE [t \in DOMAIN groups \ {s} |-> groups[t]]
  IN  /\ groups' = left
      /\ unclaimed' = IF HasSubscriptions(g) THEN unclaimed
                      ELSE RemoveFirst(unclaimed, s)
      /\ StopListeningUnless(Subscribed(left))

(* A group that has become g: it is removed when nobody wants it any more,  *)
(* and the acceptor listens no longer when nobody wants any.                *)
Settle(s, g) ==
  LET left == IF HasSubscriptions(g) THEN [groups EXCEPT ![s] = g]
              ELSE [t \in DOMAIN groups \ {s} |-> groups[t]]
  IN  /\ groups' = left
      /\ unclaimed' = IF HasSubscriptions(g) /\ g.key = None THEN unclaimed
                      ELSE RemoveFirst(unclaimed, s)
      /\ StopListeningUnless(Subscribed(left))

(* SessionGroup::merge and the claim that follows it: the sockets of a      *)
(* remote session go to the group of session s, which book holds.  It       *)
(* throws, from a handler, if the group is one that has been paired.        *)
MergeThrows(s, g, sg) ==
  \/ g.sockets # <<>>
  \/ g.live /\ mSessionID[s] # 0
  \/ \E t \in DOMAIN groups \ {s} : groups[t].key = <<sg.name, sg.id>>

Merge(s, book, sg) ==
  LET key == <<sg.name, sg.id>>
      merged == AddSockets(<<[book[1] EXCEPT !.key = key], book[2]>>, sg.sockets)
  IN  /\ Settle(s, merged[1])
      /\ outcome' = merged[2]
      /\ mSessionID' = IF book[1].live THEN [mSessionID EXCEPT ![s] = sg.id] ELSE mSessionID
      /\ socketGroups' = RemoveFirstMatch(socketGroups, LAMBDA other : <<other.name, other.id>> = key)

-----------------------------------------------------------------------------
(* The handlers of the strand.                                              *)

Finish == strand' = Tail(strand)

(* start: accept once more while the acceptor listens.                      *)
HandleStart ==
  /\ Runs(<<"start", None>>)
  /\ accepting' = IF mListening THEN accepting + 1 ELSE accepting
  /\ Finish
  /\ UNCHANGED <<work, mListening, aborted, phase, bookVars, stopVars, userVars, crash>>

(* The entry of an aborted accept or of a failed handshake goes.            *)
HandleErase(c) ==
  /\ Runs(<<"erase", c>>)
  /\ phase' = IF c = None THEN phase ELSE [phase EXCEPT ![c[1]] = "gone"]
  /\ crash' = IF ErasedTwice THEN "promise set twice" ELSE "none"
  /\ Erase /\ Finish
  /\ UNCHANGED <<work, netVars, bookVars, mStopped, stoppedProm, keptBusy, closed, userVars>>

(* asyncSetSocket: the connection goes to the group that claimed its remote *)
(* session; or else to the sockets of its remote session, and with them to  *)
(* the first session of that name that waits for a channel of its name.     *)
ClaimedByName(c) == {s \in DOMAIN groups : groups[s].key # None /\ groups[s].key[1] = Remote(c)[1]}

ClaimedBy(c) == {s \in DOMAIN groups : groups[s].key = Remote(c)}

SocketGroupOf(c) ==
  LET i == SelectInSeq(socketGroups, LAMBDA sg : <<sg.name, sg.id>> = Remote(c))
  IN  IF i # 0 THEN [socketGroups[i] EXCEPT !.sockets = Append(@, c)]
      ELSE [name |-> Remote(c)[1], id |-> Remote(c)[2], sockets |-> <<c>>]

(* getSocketGroup and the addition of the socket.                           *)
WithSocket(c) ==
  LET i == SelectInSeq(socketGroups, LAMBDA sg : <<sg.name, sg.id>> = Remote(c))
  IN  IF i # 0 THEN [socketGroups EXCEPT ![i] = SocketGroupOf(c)]
      ELSE Append(socketGroups, SocketGroupOf(c))

WaitsFor(s, c) ==
  /\ work.name[s] = Remote(c)[1]
  /\ \E i \in DOMAIN groups[s].channels : Match(groups[s].channels[i], c)

SetSocketThrows(c) ==
  /\ ClaimedBy(c) = {}
  /\ LET i == SelectInSeq(unclaimed, LAMBDA s : WaitsFor(s, c))
     IN  i # 0 /\ MergeThrows(unclaimed[i], groups[unclaimed[i]], SocketGroupOf(c))

SetSocket(c) ==
  \/ \E s \in ClaimedBy(c) : \E book \in {AddSocket(<<groups[s], outcome>>, c)} :
       /\ Settle(s, book[1])
       /\ outcome' = book[2]
       /\ UNCHANGED <<socketGroups, mSessionID>>
  \/ /\ ClaimedBy(c) = {}
     /\ LET i == SelectInSeq(unclaimed, LAMBDA s : WaitsFor(s, c))
        IN  IF i # 0 THEN Merge(unclaimed[i], <<groups[unclaimed[i]], outcome>>, SocketGroupOf(c))
            ELSE /\ socketGroups' = WithSocket(c)
                 /\ UNCHANGED <<groups, unclaimed, mSessionID, outcome, netVars, stoppedProm>>

(* The end of the handshake.                                                *)
HandleNamed(c) ==
  /\ Runs(<<"named", <<c>>>>)
  /\ SetSocket(c)
  /\ crash' = IF SetSocketThrows(c) THEN "merge threw"
              ELSE IF ErasedTwice THEN "promise set twice" ELSE "none"
  /\ phase' = [phase EXCEPT ![c] = "gone"]
  /\ Erase /\ Finish
  /\ UNCHANGED <<work, mStopped, keptBusy, closed, userVars>>

(* asyncGetSocket: a channel looks among the sockets of its session or, if  *)
(* that is not paired yet, among those of all remote sessions of its name.  *)
Offers(sg, ch) ==
  /\ sg.name = work.name[ch[1]]
  /\ \E i \in DOMAIN sg.sockets : Match(ch, sg.sockets[i])

GetSocketThrows(ch) ==
  LET s == ch[1]
      i == SelectInSeq(socketGroups, LAMBDA sg : Offers(sg, ch))
  IN  /\ mSessionID[s] = 0 /\ i # 0
      /\ MergeThrows(s, AddChannel(<<groups[s], outcome>>, ch)[1], socketGroups[i])

HandleGetWithoutLooking(ch) ==
  /\ Runs(<<"get", ch>>) /\ ch[1] \in DOMAIN groups
  /\ LET book == AddChannel(<<groups[ch[1]], outcome>>, ch)
     IN  Settle(ch[1], book[1]) /\ outcome' = book[2] /\ UNCHANGED <<socketGroups, mSessionID>>
  /\ Finish
  /\ UNCHANGED <<work, phase, mStopped, pendingSocketsEmpty, keptBusy, closed, userVars, crash>>

HandleGet(ch) ==
  /\ Runs(<<"get", ch>>) /\ ch[1] \in DOMAIN groups
  /\ LET s == ch[1]
         book == AddChannel(<<groups[s], outcome>>, ch)
         i == SelectInSeq(socketGroups, LAMBDA sg : Offers(sg, ch))
     IN  IF mSessionID[s] = 0 /\ i # 0 THEN Merge(s, book, socketGroups[i])
         ELSE Settle(s, book[1]) /\ outcome' = book[2] /\ UNCHANGED <<socketGroups, mSessionID>>
  /\ crash' = IF GetSocketThrows(ch) THEN "merge threw" ELSE "none"
  /\ Finish
  /\ UNCHANGED <<work, phase, mStopped, pendingSocketsEmpty, keptBusy, closed, userVars>>

(* cancelPendingChannel: a channel that waits gets an exception instead.    *)
HandleCancel(ch) ==
  /\ Runs(<<"cancel", ch>>) /\ ch[1] \in DOMAIN groups
  /\ LET g == groups[ch[1]]
         i == SelectInSeq(g.channels, LAMBDA other : other = ch)
     IN  IF i = 0 THEN UNCHANGED <<groups, unclaimed, outcome, netVars, stoppedProm>>
         ELSE /\ Settle(ch[1], [g EXCEPT !.channels = RemoveAt(@, i)])
              /\ outcome' = [outcome EXCEPT ![ch] = Refused]
  /\ Finish
  /\ UNCHANGED <<work, phase, socketGroups, mSessionID, mStopped, pendingSocketsEmpty, keptBusy,
                 closed, userVars, crash>>

(* subscribe: a session gets a group, and the acceptor listens.  When the   *)
(* port cannot be bound, the promise of the caller gets an exception and    *)
(* then, all the same, a value.                                             *)
HandleSubscribe(s) ==
  /\ Runs(<<"subscribe", s>>)
  /\ Finish
  /\ IF mStopped
     THEN user' = [user EXCEPT ![s] = "failed"] /\ UNCHANGED <<groups, unclaimed, netVars, crash>>
     ELSE /\ groups' = [t \in DOMAIN groups \cup {s} |-> IF t = s THEN NewGroup ELSE groups[t]]
          /\ unclaimed' = Append(unclaimed, s)
          /\ user' = [user EXCEPT ![s] = "open"]
          /\ mListening' = TRUE
          /\ accepting' = IF mListening THEN accepting ELSE accepting + 1
          /\ UNCHANGED aborted
          /\ crash' \in {"none"} \cup IF mListening THEN {} ELSE {"cannot bind"}
  /\ UNCHANGED <<work, phase, socketGroups, mSessionID, outcome, stopVars, added, cancelled, stopper>>

(* unsubscribe: the group stays for the channels that wait in it.           *)
HandleUnsubscribeWithChannels(s) ==
  /\ Runs(<<"unsubscribe", s>>) /\ s \in DOMAIN groups
  /\ Settle(s, [groups[s] EXCEPT !.live = FALSE, !.channels = <<>>])
  /\ user' = [user EXCEPT ![s] = "stopped"]
  /\ Finish
  /\ UNCHANGED <<work, phase, socketGroups, mSessionID, outcome, mStopped, pendingSocketsEmpty,
                 keptBusy, closed, added, cancelled, stopper, crash>>

HandleUnsubscribe(s) ==
  /\ Runs(<<"unsubscribe", s>>) /\ s \in DOMAIN groups
  /\ Settle(s, [groups[s] EXCEPT !.live = FALSE])
  /\ user' = [user EXCEPT ![s] = "stopped"]
  /\ Finish
  /\ UNCHANGED <<work, phase, socketGroups, mSessionID, outcome, mStopped, pendingSocketsEmpty,
                 keptBusy, closed, added, cancelled, stopper, crash>>

(* What stop() posts: listening ends and sockets that are not named yet are *)
(* closed.  Its promise for the subscriptions is set if there are none; the *)
(* handlers that see the last one go set it only if the acceptor listens,   *)
(* which it then no longer does.                                            *)
HandleStop ==
  /\ Runs(<<"stop", None>>)
  /\ mStopped' = TRUE /\ mListening' = FALSE
  /\ CloseHandle
  /\ closed' = closed \cup {c \in Connection : phase[c] \in {"accepted", "header", "named", "failed"}}
  /\ pendingSocketsEmpty' = (PendingSockets = 0)
  /\ stoppedProm' = ~Subscribed(groups)
  /\ keptBusy' = Subscribed(groups)
  /\ Finish
  /\ UNCHANGED <<work, phase, bookVars, userVars, crash>>

(* session->mGroup points at a group that was removed, or at none because   *)
(* the session was refused: what follows is undefined, and the model ends.  *)
GroupIsGone ==
  /\ \/ \E s \in Used \ DOMAIN groups : Runs(<<"unsubscribe", s>>)
     \/ \E ch \in Channel : ch[1] \notin DOMAIN groups /\ (Runs(<<"get", ch>>) \/ Runs(<<"cancel", ch>>))
  /\ crash' = "group is gone"
  /\ UNCHANGED <<work, netVars, phase, bookVars, strand, stopVars, userVars>>

StrandStep ==
  \/ HandleStart \/ HandleStop \/ GroupIsGone
  \/ HandleErase(None) \/ \E c \in Connection : HandleErase(<<c>>) \/ HandleNamed(c)
  \/ \E ch \in Channel : HandleGet(ch) \/ HandleCancel(ch)
  \/ \E s \in Used : HandleSubscribe(s) \/ HandleUnsubscribe(s)

-----------------------------------------------------------------------------
(* Connections.  Their completions run on any worker, outside the strand.   *)

netUnchanged == <<work, mListening, bookVars, stopVars, userVars>>

(* A client connects; the accept is done, its callback still to run.        *)
Connect(c) ==
  /\ Running /\ phase[c] = "unknown" /\ accepting > 0
  /\ phase' = [phase EXCEPT ![c] = "taken"]
  /\ accepting' = accepting - 1
  /\ UNCHANGED <<netUnchanged, aborted, strand, crash>>

(* The callback has the socket, and first has the next accept started.      *)
AcceptedLast(c) ==
  /\ Running /\ phase[c] = "taken"
  /\ phase' = [phase EXCEPT ![c] = "accepted"]
  /\ UNCHANGED <<netUnchanged, accepting, aborted, strand, crash>>

Accepted(c) ==
  /\ Running /\ phase[c] = "taken"
  /\ phase' = [phase EXCEPT ![c] = "accepted"]
  /\ Post(<< <<"start", None>> >>)
  /\ UNCHANGED <<netUnchanged, accepting, aborted, crash>>

(* Then it sets an option, which throws on a closed socket, and waits for   *)
(* the name.                                                                *)
AskName(c) ==
  /\ Running /\ phase[c] = "accepted"
  /\ phase' = [phase EXCEPT ![c] = "header"]
  /\ crash' = IF c \in closed THEN "socket is closed" ELSE "none"
  /\ UNCHANGED <<netUnchanged, accepting, aborted, strand>>

(* An accept that closing the port ended calls the same callback.           *)
AcceptAborted ==
  /\ Running /\ aborted > 0
  /\ aborted' = aborted - 1
  /\ Post(<< <<"start", None>>, <<"erase", None>> >>)
  /\ UNCHANGED <<netUnchanged, accepting, phase, crash>>

NameArrives(c) ==
  /\ Running /\ phase[c] = "header" /\ c \notin closed
  /\ phase' = [phase EXCEPT ![c] = "named"]
  /\ Post(<< <<"named", <<c>>>> >>)
  /\ UNCHANGED <<netUnchanged, accepting, aborted, crash>>

(* The client has gone, or stop() closed the socket.                        *)
NameFails(c) ==
  /\ Running /\ phase[c] = "header" /\ c \in work.mute \cup closed
  /\ phase' = [phase EXCEPT ![c] = "failed"]
  /\ Post(<< <<"erase", <<c>>>> >>)
  /\ UNCHANGED <<netUnchanged, accepting, aborted, crash>>

-----------------------------------------------------------------------------
(* The threads.                                                             *)

userUnchanged == <<work, netVars, phase, bookVars, stopVars, crash>>

(* Session::start as a server; its thread waits for the answer.             *)
StartSession(s) ==
  /\ Running /\ user[s] = "new"
  /\ user' = [user EXCEPT ![s] = "subscribing"]
  /\ Post(<< <<"subscribe", s>> >>)
  /\ UNCHANGED <<userUnchanged, added, cancelled, stopper>>

(* Session::addChannel, which throws once the acceptor is stopped.          *)
AddChannelTo(s) ==
  /\ Running /\ user[s] = "open" /\ ~mStopped
  /\ added[s] < Len(work.plan[s])
  /\ added' = [added EXCEPT ![s] = @ + 1]
  /\ Post(<< <<"get", <<s, added'[s]>>>> >>)
  /\ UNCHANGED <<userUnchanged, user, cancelled, stopper>>

(* SessionBase::stop; its thread waits for the answer.  A session whose     *)
(* start threw does it when it is destroyed.                                *)
StopSession(s) ==
  /\ Running
  /\ user[s] = "failed" \/ (user[s] = "open" /\ s \in work.stops)
  /\ user' = [user EXCEPT ![s] = "stopping"]
  /\ Post(<< <<"unsubscribe", s>> >>)
  /\ UNCHANGED <<userUnchanged, added, cancelled, stopper>>

(* Channel::cancel, by any thread, on a channel waiting or in use.          *)
CancelChannel(ch) ==
  /\ Running /\ ch \in work.cancels \ cancelled /\ ch[2] <= added[ch[1]]
  /\ cancelled' = cancelled \cup {ch}
  /\ Post(<< <<"cancel", ch>> >>)
  /\ UNCHANGED <<userUnchanged, user, added, stopper>>

(* Acceptor::stop, from IOService::stop: post, then wait for both promises. *)
CallStop ==
  /\ Running /\ work.stop /\ stopper = "idle"
  /\ stopper' = "waiting"
  /\ Post(<< <<"stop", None>> >>)
  /\ UNCHANGED <<userUnchanged, user, added, cancelled>>

StopReturn ==
  /\ Running /\ stopper = "waiting" /\ pendingSocketsEmpty /\ stoppedProm
  /\ stopper' = "done"
  /\ UNCHANGED <<userUnchanged, strand, user, added, cancelled>>

-----------------------------------------------------------------------------
Next ==
  \/ StrandStep \/ AcceptAborted \/ CallStop \/ StopReturn
  \/ \E c \in Connection : Connect(c) \/ Accepted(c) \/ AskName(c) \/ NameArrives(c) \/ NameFails(c)
  \/ \E s \in Used : StartSession(s) \/ AddChannelTo(s) \/ StopSession(s)
  \/ \E ch \in Channel : CancelChannel(ch)

(* The workers run something as long as something is posted or completed;   *)
(* the thread that stops goes on when it can.  Clients promise nothing.     *)
WorkerStep ==
  \/ StrandStep \/ AcceptAborted
  \/ \E c \in Connection : Accepted(c) \/ AskName(c) \/ (c \in closed /\ NameFails(c))

Fairness == WF_vars(WorkerStep \/ StopReturn)

Spec == Init /\ [][Next]_vars /\ Fairness

-----------------------------------------------------------------------------
(* Properties.                                                              *)

Phases == {"unknown", "taken", "accepted", "header", "named", "failed", "gone"}

TypeOK ==
  /\ work \in Cases
  /\ accepting \in Nat /\ aborted \in Nat
  /\ phase \in [Connection -> Phases] /\ closed \subseteq Connection
  /\ DOMAIN groups \subseteq Used
  /\ \A s \in DOMAIN groups :
       /\ groups[s].channels \in Seq({s} \X Nat) /\ groups[s].sockets \in Seq(Connection)
       /\ HasSubscriptions(groups[s])
  /\ ToSet(unclaimed) = {s \in DOMAIN groups : groups[s].key = None}
  /\ IsInjective(unclaimed)
  /\ \A s \in Used : mSessionID[s] # 0 /\ s \in DOMAIN groups => groups[s].key = <<work.name[s], mSessionID[s]>>
  /\ \A ch \in Channel : outcome[ch] \in {None, Refused} \cup {<<"socket", c>> : c \in Connection}

(* No channel and no socket that go together are left apart: not in one     *)
(* group, not in a group still to be paired and the sockets of a remote     *)
(* session of its name, and no socket of a paired remote session is kept    *)
(* where the group does not find it (asyncGetSocket, asyncSetSocket).       *)
NoMatchMissed ==
  Running =>
  /\ \A s \in DOMAIN groups : \A ch \in ToSet(groups[s].channels) :
       /\ \A c \in ToSet(groups[s].sockets) : ~Match(ch, c)
       /\ groups[s].key = None => \A sg \in ToSet(socketGroups) : ~Offers(sg, ch)
  /\ \A sg \in ToSet(socketGroups) : \A c \in ToSet(sg.sockets) : ClaimedBy(c) = {}

(* A session is served by one remote session of its name only, each channel *)
(* by a connection of its own and of its name (SessionGroup::merge).        *)
ServedByOneSession ==
  \A ch, other \in {x \in Channel : outcome[x] \notin {None, Refused}} :
    LET c == outcome[ch][2]
        d == outcome[other][2]
    IN  /\ Match(ch, c) /\ Remote(c)[1] = work.name[ch[1]]
        /\ ch # other => c # d
        /\ ch[1] = other[1] => Remote(c) = Remote(d)

(* While anybody is subscribed and the acceptor is not stopped, it listens, *)
(* and an accept is under way or about to be started, even when it stopped  *)
(* listening and a session came back before the callbacks had run (start,   *)
(* stopListening).                                                          *)
KeepsListening ==
  Running /\ ~mStopped /\ Subscribed(groups) =>
    /\ mListening
    /\ \/ accepting + aborted > 0
       \/ \E c \in Connection : phase[c] = "taken"
       \/ \E k \in DOMAIN strand : strand[k] = <<"start", None>>

(* What ends the process: a port that cannot be bound; stop() closing the   *)
(* socket of an accept whose callback runs; a session refused by a stopped  *)
(* acceptor, which unsubscribes all the same; the cancelling of a channel   *)
(* whose session was stopped and that does not wait any more.  No merge     *)
(* throws, no other group is gone when a handler uses it and no promise is  *)
(* set twice.                                                               *)
EndsAreKnown ==
  /\ crash \in {"none", "cannot bind", "socket is closed", "group is gone"}
  /\ crash = "group is gone" =>
       \/ \E s \in Used : Head(strand) = <<"unsubscribe", s>> /\ mStopped /\ added[s] = 0
       \/ \E ch \in Channel : /\ Head(strand) = <<"cancel", ch>>
                              /\ user[ch[1]] = "stopped" /\ outcome[ch] # None

(* stop() returns, unless somebody was subscribed when it ran, an accept    *)
(* was just done whose client does not send its name, or the process ended. *)
StopReturns ==
  stopper = "waiting" ~>
    \/ stopper = "done" \/ keptBusy \/ ~Running
    \/ \E c \in Connection \ closed : phase[c] = "header"

(* IOService.h on stop(): it "blocks until all Channels and Sessions are    *)
(* stopped", and no longer.                                                 *)
StopReturnsOnceAllAreStopped ==
  mStopped /\ ~Subscribed(groups) ~>
    \/ stopper = "done" \/ ~Running
    \/ \E c \in Connection \ closed : phase[c] = "header"
=============================================================================
