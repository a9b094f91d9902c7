--------------------------- MODULE RemoteCreation ---------------------------
(***************************************************************************)
(* Binding a computer to a client (system/RemoteOS.java): a thread started *)
(* by "/tcmp client bind" asks the client of a token to host a computer,   *)
(* spins until the answer removes its request, and gives up after ten      *)
(* seconds; the answer comes in on the connection's netty thread, the      *)
(* timeout on a timer thread of its own, and computers are destroyed by    *)
(* "/tcmp client unbind", by removing the computer and by a disconnect.    *)
(*                                                                         *)
(* "requested" is guarded by synchronized blocks; freeId, name2id and      *)
(* id2os are shared without any, so each access is a step of its own where *)
(* another thread may come between.  A request is one run of               *)
(* requestCreation and stands for its thread, its timer and the RemoteOS   *)
(* object it creates.                                                      *)
(*                                                                         *)
(* Abstractions: connections are numbered, from 1; a client answers a      *)
(* creation request at most once, with the id it was sent (the client is   *)
(* not part of this repository), at any time, or never; a message to a     *)
(* dead connection is lost.                                                *)
(***************************************************************************)
EXTENDS Integers

CONSTANTS Requests,   \* runs of requestCreation: bounds the bind commands
          Tokens,     \* tokens that clients connect with
          Names,      \* names of computers
          IdCount,    \* number of ids: 65536 (an id is a Java short)
          FirstIds,   \* freeId at the start: 0, or more after computers long gone
          MaxConn,    \* bound on the connections
          None        \* Java's null, or no map entry

IdLimit == IdCount - 1          \* 0xFFFF
Half == IdCount \div 2
Shorts == -Half .. Half - 1
ToShort(n) == ((n + Half) % IdCount) - Half
Missing == -1                   \* fromName's default id, (short) -1

ASSUME ConstantsAssumption ==
    /\ IdCount \in Nat \ {0} /\ IdCount % 2 = 0
    /\ FirstIds \subseteq Nat
    /\ MaxConn \in Nat \ {0}
    /\ None \notin Requests \cup Tokens \cup Names \cup Shorts

VARIABLES
    connections, \* number of connections that bound a token so far
    conn,       \* token -> its latest connection
    online,     \* tokens with a bound connection: Server.boundRegisteredTokens
    cleaning,   \* token -> the step of handleDisconnect after unboundToken
    doomed,     \* token -> the set fromToken returned to handleDisconnect
    stray,      \* history: requests whose computer a cleanup came too early for,
                \* or did not get to, and no later one got to
    requested,  \* RemoteOS.requested: token -> request
    freeId,     \* RemoteOS.freeId
    name2id,    \* RemoteOS.name2id
    id2os,      \* RemoteOS.id2os: id -> request
    unanswered, \* requests a client has received and not answered
    pc,         \* request -> where its thread is
    token,      \* request -> the token argument
    name,       \* request -> the name argument
    channel,    \* request -> the connection it was sent on
    sentId,     \* request -> the id in its message
    timer,      \* request -> its timeOutTimer
    isTimedOut, \* request -> isTimedOut[0]
    remoteId,   \* RemoteOS.id
    remoteToken,\* RemoteOS.token
    destroyed   \* RemoteOS.destroyed

client == <<connections, conn, online, cleaning, doomed, stray>>
maps == <<requested, freeId, name2id, id2os>>
thread == <<pc, token, name, channel, sentId>>
remote == <<remoteId, remoteToken, destroyed>>
vars == <<connections, conn, online, cleaning, doomed, stray, requested, freeId,
          name2id, id2os, unanswered, pc, token, name, channel, sentId, timer, isTimedOut,
          remoteId, remoteToken, destroyed>>

Steps == {"idle", "checked", "put", "allowed", "read", "waiting", "left", "in time", "answered",
          "named", "created", "timed out", "refused", "no free id"}
Unsent == {"idle", "checked", "put", "allowed", "read", "refused", "no free id"}
Ended == {"created", "timed out", "refused", "no free id"}
Timers == {"off", "armed", "fired", "done", "cancelled"}

Init ==
    /\ connections = 0
    /\ conn = [t \in Tokens |-> 0]
    /\ online = {}
    /\ cleaning = [t \in Tokens |-> "no"]
    /\ doomed = [t \in Tokens |-> {}]
    /\ stray = {}
    /\ requested = [t \in Tokens |-> None]
    /\ freeId \in FirstIds
    /\ name2id = [n \in Names |-> None]
    /\ id2os = [i \in Shorts |-> None]
    /\ unanswered = {}
    /\ pc = [r \in Requests |-> "idle"]
    /\ token = [r \in Requests |-> None]
    /\ name = [r \in Requests |-> None]
    /\ channel = [r \in Requests |-> 0]
    /\ sentId = [r \in Requests |-> 0]
    /\ timer = [r \in Requests |-> "off"]
    /\ isTimedOut = [r \in Requests |-> FALSE]
    /\ remoteId = [r \in Requests |-> 0]
    /\ remoteToken = [r \in Requests |-> None]
    /\ destroyed = [r \in Requests |-> FALSE]

\* The connection that the request was sent on is lost.
Lost(r) == token[r] \notin online \/ channel[r] # conn[token[r]]

\* The computers hosted for a token.
HostedBy(t) == {r \in {id2os[i] : i \in Shorts} \ {None} : token[r] = t}

Goto(r, step) == pc' = [pc EXCEPT ![r] = step]

-----------------------------------------------------------------------------
(* requestCreation, one thread per request.                                *)

\* The checks of the token and of the name; no lock is held over them.
Check(r, t, n) ==
    /\ pc[r] = "idle"
    /\ \/ /\ t \in online /\ name2id[n] = None
          /\ token' = [token EXCEPT ![r] = t]
          /\ name' = [name EXCEPT ![r] = n]
          /\ channel' = [channel EXCEPT ![r] = conn[t]]
          /\ Goto(r, "checked")
       \/ /\ t \notin online \/ name2id[n] # None
          /\ Goto(r, "refused")
          /\ UNCHANGED <<token, name, channel>>
    /\ UNCHANGED <<client, maps, unanswered, sentId, timer, isTimedOut, remote>>

\* The synchronized block: one request per token.
PutRequest(r) ==
    /\ pc[r] = "checked"
    /\ \/ /\ requested[token[r]] # None
          /\ Goto(r, "refused")
          /\ UNCHANGED requested
       \/ /\ requested[token[r]] = None
          /\ requested' = [requested EXCEPT ![token[r]] = r]
          /\ Goto(r, "put")
    /\ UNCHANGED <<client, freeId, name2id, id2os, unanswered, token, name,
                   channel, sentId, timer, isTimedOut, remote>>

\* The test of freeId.  NoFreeIDException leaves the request in the map.
CheckFreeId(r) ==
    /\ pc[r] = "put"
    /\ Goto(r, IF freeId >= IdLimit THEN "no free id" ELSE "allowed")
    /\ UNCHANGED <<client, maps, unanswered, token, name, channel, sentId, timer,
                   isTimedOut, remote>>

\* freeId++ reads.
ReadFreeId(r) ==
    /\ pc[r] = "allowed"
    /\ sentId' = [sentId EXCEPT ![r] = freeId]
    /\ Goto(r, "read")
    /\ UNCHANGED <<client, maps, unanswered, token, name, channel, timer,
                   isTimedOut, remote>>

\* Slip: the request is sent without a timer.
SendRequestUntimed(r) ==
    /\ pc[r] = "read"
    /\ freeId' = sentId[r] + 1
    /\ sentId' = [sentId EXCEPT ![r] = ToShort(@)]
    /\ unanswered' = IF token[r] \in online /\ conn[token[r]] = channel[r]
                     THEN unanswered \cup {r} ELSE unanswered
    /\ Goto(r, "waiting")
    /\ UNCHANGED <<client, requested, name2id, id2os, token, name, channel, timer,
                   isTimedOut, remote>>

\* freeId++ writes, the request is sent and the timer is set.
SendRequest(r) ==
    /\ pc[r] = "read"
    /\ freeId' = sentId[r] + 1
    /\ sentId' = [sentId EXCEPT ![r] = ToShort(@)]
    /\ unanswered' = IF token[r] \in online /\ conn[token[r]] = channel[r]
                     THEN unanswered \cup {r} ELSE unanswered
    /\ timer' = [timer EXCEPT ![r] = "armed"]
    /\ Goto(r, "waiting")
    /\ UNCHANGED <<client, requested, name2id, id2os, token, name, channel,
                   isTimedOut, remote>>

\* Slip: the loop looks at the timer's flag and not only at the map.
LeaveLoopOnFlag(r) ==
    /\ pc[r] = "waiting"
    /\ requested[token[r]] = None \/ isTimedOut[r]
    /\ Goto(r, "left")
    /\ UNCHANGED <<client, maps, unanswered, token, name, channel, sentId, timer,
                   isTimedOut, remote>>

\* The spin loop ends when the token has no request, whoever removed it.
LeaveLoop(r) ==
    /\ pc[r] = "waiting"
    /\ requested[token[r]] = None
    /\ Goto(r, "left")
    /\ UNCHANGED <<client, maps, unanswered, token, name, channel, sentId, timer,
                   isTimedOut, remote>>

\* TimedOutException, when the timer has run.
Decide(r) ==
    /\ pc[r] = "left"
    /\ Goto(r, IF isTimedOut[r] THEN "timed out" ELSE "in time")
    /\ UNCHANGED <<client, maps, unanswered, token, name, channel, sentId, timer,
                   isTimedOut, remote>>

\* cancel does not stop a task that has begun since; then the fields of the
\* RemoteOS are set.
CancelTimer(r) ==
    /\ pc[r] = "in time"
    /\ timer' = [timer EXCEPT ![r] = IF @ = "armed" THEN "cancelled" ELSE @]
    /\ Goto(r, "answered")
    /\ UNCHANGED <<client, maps, unanswered, token, name, channel, sentId,
                   isTimedOut, remote>>

RegisterName(r) ==
    /\ pc[r] = "answered"
    /\ name2id' = [name2id EXCEPT ![name[r]] = remoteId[r]]
    /\ Goto(r, "named")
    /\ UNCHANGED <<client, requested, freeId, id2os, unanswered, token, name,
                   channel, sentId, timer, isTimedOut, remote>>

RegisterId(r) ==
    /\ pc[r] = "named"
    /\ id2os' = [id2os EXCEPT ![remoteId[r]] = r]
    /\ Goto(r, "created")
    /\ stray' = IF Lost(r) /\ cleaning[token[r]] # "collect"
                THEN stray \cup {r} ELSE stray
    /\ UNCHANGED <<connections, conn, online, cleaning, doomed, requested, freeId,
                   name2id, unanswered, token, name, channel, sentId, timer, isTimedOut, remote>>

-----------------------------------------------------------------------------
(* The timer task: ten seconds after SendRequest, in two steps.            *)

TimerFires(r) ==
    /\ timer[r] = "armed"
    /\ timer' = [timer EXCEPT ![r] = "fired"]
    /\ isTimedOut' = [isTimedOut EXCEPT ![r] = TRUE]
    /\ UNCHANGED <<client, maps, unanswered, thread, remote>>

\* It removes whatever request its token has by then.
TimerRemoves(r) ==
    /\ timer[r] = "fired"
    /\ timer' = [timer EXCEPT ![r] = "done"]
    /\ requested' = [requested EXCEPT ![token[r]] = None]
    /\ UNCHANGED <<client, freeId, name2id, id2os, unanswered, thread, isTimedOut,
                   remote>>

-----------------------------------------------------------------------------
(* The client and its connection.                                          *)

\* Slip: an error ends the wait like any answer, but sets nothing.
AnswerErrorEnds(r, ok) ==
    LET t == token[r]
        q == requested[t]
    IN  /\ r \in unanswered
        /\ unanswered' = unanswered \ {r}
        /\ requested' = [requested EXCEPT ![t] = None]
        /\ IF ok /\ q # None
           THEN /\ remoteId' = [remoteId EXCEPT ![q] = sentId[r]]
                /\ remoteToken' = [remoteToken EXCEPT ![q] = t]
           ELSE UNCHANGED <<remoteId, remoteToken>>
        /\ UNCHANGED <<client, freeId, name2id, id2os, thread, timer, isTimedOut,
                       destroyed>>

\* handleResponse: an error is ignored; any other answer goes to the request
\* its token has now, which need not be the one the client answers.
Answer(r, ok) ==
    LET t == token[r]
        q == requested[t]
    IN  /\ r \in unanswered
        /\ unanswered' = unanswered \ {r}
        /\ IF ok /\ q # None
           THEN /\ remoteId' = [remoteId EXCEPT ![q] = sentId[r]]
                /\ remoteToken' = [remoteToken EXCEPT ![q] = t]
                /\ requested' = [requested EXCEPT ![t] = None]
           ELSE UNCHANGED <<remoteId, remoteToken, requested>>
        /\ UNCHANGED <<client, freeId, name2id, id2os, thread, timer, isTimedOut,
                       destroyed>>

\* A client binds the token, unless the token is still being given back.
Connect(t) ==
    /\ t \notin online
    /\ connections < MaxConn
    /\ connections' = connections + 1
    /\ conn' = [conn EXCEPT ![t] = connections']
    /\ online' = online \cup {t}
    /\ UNCHANGED <<cleaning, doomed, stray, maps, unanswered, thread, timer,
                   isTimedOut, remote>>

\* handleDisconnect up to unboundToken, which registers the token again, so
\* that the client may be back before the rest of the handler runs.  When a reset
\* takes the token away first, the handler finds none, or fails, and goes no
\* further.
Disconnect(t) ==
    /\ t \in online
    /\ cleaning[t] = "no"
    /\ online' = online \ {t}
    /\ \/ /\ cleaning' = [cleaning EXCEPT ![t] = "collect"]
          /\ UNCHANGED stray
       \/ /\ stray' = stray \cup HostedBy(t)
          /\ UNCHANGED cleaning
    /\ unanswered' = {r \in unanswered : token[r] # t}
    /\ UNCHANGED <<connections, conn, doomed, maps, thread, timer, isTimedOut, remote>>

\* fromToken: the RemoteOS objects of id2os with this token; a RemoteOS that
\* never got a token makes it fail.
CollectRemotes(t) ==
    LET hosted == {id2os[i] : i \in Shorts} \ {None}
    IN  /\ cleaning[t] = "collect"
        /\ \/ /\ \E r \in hosted : remoteToken[r] = None
              /\ cleaning' = [cleaning EXCEPT ![t] = "no"]
              /\ stray' = stray \cup HostedBy(t)
              /\ UNCHANGED doomed
           \/ /\ \A r \in hosted : remoteToken[r] # None
              /\ cleaning' = [cleaning EXCEPT ![t] = "destroy"]
              /\ doomed' = [doomed EXCEPT ![t] = {r \in hosted : remoteToken[r] = t}]
              /\ stray' = {r \in stray : token[r] # t}
        /\ UNCHANGED <<connections, conn, online, maps, unanswered, thread, timer,
                       isTimedOut, remote>>

\* destroy(), on an object whose connection is not null yet.
Destroy(r) ==
    /\ name2id' = [name2id EXCEPT ![name[r]] = None]
    /\ id2os' = [id2os EXCEPT ![remoteId[r]] = None]
    /\ remoteId' = [remoteId EXCEPT ![r] = 0]
    /\ destroyed' = [destroyed EXCEPT ![r] = TRUE]
    /\ UNCHANGED <<requested, freeId, remoteToken>>

\* Slip: the failing destroy ends the handler and keeps its set.
DestroyNextKeepsSet(t) ==
    /\ cleaning[t] = "destroy"
    /\ \/ /\ doomed[t] = {}
          /\ cleaning' = [cleaning EXCEPT ![t] = "no"]
          /\ UNCHANGED <<doomed, stray, maps, remote>>
       \/ \E r \in doomed[t] :
             IF destroyed[r]
             THEN /\ cleaning' = [cleaning EXCEPT ![t] = "no"]
                  /\ stray' = stray \cup doomed[t]
                  /\ UNCHANGED <<doomed, maps, remote>>
             ELSE /\ Destroy(r)
                  /\ doomed' = [doomed EXCEPT ![t] = @ \ {r}]
                  /\ UNCHANGED <<cleaning, stray>>
    /\ UNCHANGED <<connections, conn, online, unanswered, thread, timer, isTimedOut>>

\* Slip: the first computer is the only one.
DestroyFirst(t) ==
    /\ cleaning[t] = "destroy"
    /\ cleaning' = [cleaning EXCEPT ![t] = "no"]
    /\ doomed' = [doomed EXCEPT ![t] = {}]
    /\ \/ /\ \A r \in doomed[t] : destroyed[r]
          /\ UNCHANGED <<stray, maps, remote>>
       \/ /\ \E r \in doomed[t] : ~destroyed[r] /\ Destroy(r)
          /\ UNCHANGED stray
    /\ UNCHANGED <<connections, conn, online, unanswered, thread, timer, isTimedOut>>

\* One turn of forEach(RemoteOS::destroy), which ends on a null connection of
\* an object that was destroyed meanwhile.
DestroyNext(t) ==
    /\ cleaning[t] = "destroy"
    /\ \/ /\ doomed[t] = {}
          /\ cleaning' = [cleaning EXCEPT ![t] = "no"]
          /\ UNCHANGED <<doomed, stray, maps, remote>>
       \/ \E r \in doomed[t] :
             IF destroyed[r]
             THEN /\ cleaning' = [cleaning EXCEPT ![t] = "no"]
                  /\ doomed' = [doomed EXCEPT ![t] = {}]
                  /\ stray' = stray \cup doomed[t]
                  /\ UNCHANGED <<maps, remote>>
             ELSE /\ Destroy(r)
                  /\ doomed' = [doomed EXCEPT ![t] = @ \ {r}]
                  /\ UNCHANGED <<cleaning, stray>>
    /\ UNCHANGED <<connections, conn, online, unanswered, thread, timer, isTimedOut>>

\* "/tcmp client unbind" and removeComputer: fromName, then destroy.
FromName(n) == id2os[IF name2id[n] = None THEN Missing ELSE name2id[n]]

Unbind(n) ==
    /\ FromName(n) # None
    /\ Destroy(FromName(n))
    /\ UNCHANGED <<client, unanswered, thread, timer, isTimedOut>>

-----------------------------------------------------------------------------
ThreadStep(r) ==
    \/ PutRequest(r)
    \/ CheckFreeId(r)
    \/ ReadFreeId(r)
    \/ SendRequest(r)
    \/ LeaveLoop(r)
    \/ Decide(r)
    \/ CancelTimer(r)
    \/ RegisterName(r)
    \/ RegisterId(r)

TimerStep(r) == TimerFires(r) \/ TimerRemoves(r)

Next ==
    \/ \E r \in Requests, t \in Tokens, n \in Names : Check(r, t, n)
    \/ \E r \in Requests : ThreadStep(r) \/ TimerStep(r)
    \/ \E r \in Requests, ok \in BOOLEAN : Answer(r, ok)
    \/ \E t \in Tokens :
          Connect(t) \/ Disconnect(t) \/ CollectRemotes(t) \/ DestroyNext(t)
    \/ \E n \in Names : Unbind(n)

Spec == Init /\ [][Next]_vars

\* Threads run and timers fire; clients need not answer.
Fairness == \A r \in Requests : WF_vars(ThreadStep(r)) /\ WF_vars(TimerStep(r))

FairSpec == Spec /\ Fairness

-----------------------------------------------------------------------------
(* Properties.                                                             *)

Hosted(r) == \E i \in Shorts : id2os[i] = r

TypeOK ==
    /\ connections \in 0 .. MaxConn
    /\ conn \in [Tokens -> 0 .. MaxConn]
    /\ online \subseteq Tokens
    /\ cleaning \in [Tokens -> {"no", "collect", "destroy"}]
    /\ doomed \in [Tokens -> SUBSET Requests]
    /\ \A t \in Tokens : cleaning[t] # "destroy" => doomed[t] = {}
    /\ stray \subseteq Requests
    /\ requested \in [Tokens -> Requests \cup {None}]
    /\ freeId \in Nat
    /\ name2id \in [Names -> Shorts \cup {None}]
    /\ id2os \in [Shorts -> Requests \cup {None}]
    /\ unanswered \subseteq {r \in Requests : pc[r] \notin Unsent}
    /\ pc \in [Requests -> Steps]
    /\ token \in [Requests -> Tokens \cup {None}]
    /\ name \in [Requests -> Names \cup {None}]
    /\ channel \in [Requests -> 0 .. MaxConn]
    /\ sentId \in [Requests -> Int]
    /\ \A r \in Requests : sentId[r] \in IF pc[r] = "read" THEN Nat ELSE Shorts
    /\ timer \in [Requests -> Timers]
    /\ isTimedOut \in [Requests -> BOOLEAN]
    /\ remoteId \in [Requests -> Shorts]
    /\ remoteToken \in [Requests -> Tokens \cup {None}]
    /\ destroyed \in [Requests -> BOOLEAN]

\* "Request has already been sent." (Localization.java:249): a token's place in
\* requested is taken only while the thread of that request is at work, so the
\* next bind command is refused for a request that is really pending, and while the
\* thread waits for its answer a timer is there that gives the place back; but a
\* request that found no free id (RemoteOS line 105) keeps its place for ever.
RequestPending ==
    \A t \in Tokens, r \in Requests :
        requested[t] = r =>
            /\ token[r] = t
            /\ pc[r] \in {"put", "allowed", "read", "waiting", "no free id"}
            /\ pc[r] = "waiting" => timer[r] \in {"armed", "fired"}

\* Nothing in an answer tells which request it answers, but as long as no
\* request of the token has timed out the answers fit: a computer is hosted
\* under the id of its own request.
AnswersMatch ==
    \A r \in Requests :
        (Hosted(r) /\ \A q \in Requests : token[q] = token[r] => ~isTimedOut[q])
            => remoteId[r] = sentId[r] /\ remoteToken[r] = token[r]

\* When the cleanup of a lost connection is over, none of its computers stays
\* bound (PacketHandler lines 176 to 187), but for one that its bind command
\* registered too late, and for those that a failing cleanup did not get to; the
\* next cleanup of the token gets to these as well.
CleanedUp ==
    \A r \in Requests :
        Hosted(r) /\ Lost(r) /\ cleaning[token[r]] = "no" => r \in stray

\* A request that found no free id (RemoteOS line 105) has the place of r's token.
Leaked(r) ==
    \E q \in Requests :
        token[q] = token[r] /\ pc[q] = "no free id" /\ requested[token[q]] = q

\* A bind command does not spin for ever: with or without an answer, its thread comes
\* to an end, also when other commands of the token take the place it waits for to be
\* free, and whatever their timers do to it.  The one exception is a command that is
\* waiting, its request gone, when another of the token finds no free id: the thread
\* spins on that one's place, which is never given back.
WaitingEnds ==
    \A r \in Requests : pc[r] = "checked" ~> (pc[r] \in Ended \/ []Leaked(r))

=============================================================================
