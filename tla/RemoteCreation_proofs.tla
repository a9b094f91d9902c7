------------------------ MODULE RemoteCreation_proofs ------------------------
(***************************************************************************)
(* Proofs about RemoteCreation, for any number of bind commands, clients,  *)
(* connections, computers and ids.                                         *)
(***************************************************************************)
EXTENDS RemoteCreation, TLAPS

Pending == {"put", "allowed", "read", "waiting", "no free id"}

\* A timer that has run out has timed its request out.
TimedOutByTimer == \A r \in Requests : timer[r] \in {"fired", "done"} => isTimedOut[r]

\* A bind command that has not begun has no token, one that was not refused has one.
IdleHasNothing ==
    \A r \in Requests :
        /\ pc[r] = "idle" => token[r] = None
        /\ pc[r] \notin {"idle", "refused"} => token[r] \in Tokens

\* A token's place is taken only while the thread of that request is at work.
Placed ==
    \A t \in Tokens, r \in Requests :
        requested[t] = r => token[r] = t /\ pc[r] \in Pending

PendingInv == TypeOK /\ IdleHasNothing /\ Placed

\* No request of r's token has timed out.
Clean(r) == \A q \in Requests : token[q] = token[r] => ~isTimedOut[q]

Asked(r) == requested[token[r]] = r

\* The computers that are hosted, and those that a lost client hosted.
HostedHere ==
    /\ \A i \in Shorts, r \in Requests :
           id2os[i] = r => pc[r] = "created" /\ remoteId[r] = i /\ ~destroyed[r]
    /\ \A r \in Requests : destroyed[r] => pc[r] = "created"
    /\ \A t \in Tokens : \A r \in doomed[t] : pc[r] = "created"

\* As long as no request of the token has timed out, a client answers the request
\* that the token has,
AnswersAsked ==
    \A r \in Requests : r \in unanswered /\ Clean(r) => Asked(r) /\ pc[r] = "waiting"

\* a request keeps the token's place until its answer,
PlaceKept ==
    \A r \in Requests : pc[r] \in {"put", "allowed", "read"} /\ Clean(r) => Asked(r)

Answered == {"left", "in time", "answered", "named", "created"}

\* and who has lost it has had the answer.
AnswerSet ==
    \A r \in Requests :
        /\ pc[r] \in Answered \/ (pc[r] = "waiting" /\ ~Asked(r))
        /\ Clean(r)
        /\ ~destroyed[r]
        => remoteId[r] = sentId[r] /\ remoteToken[r] = token[r]

AnswerInv ==
    /\ PendingInv
    /\ TimedOutByTimer
    /\ HostedHere
    /\ AnswersAsked
    /\ PlaceKept
    /\ AnswerSet

-----------------------------------------------------------------------------
\* What a cast to short gives is a short.
LEMMA ShortIsShort == ASSUME NEW n \in Nat PROVE ToShort(n) \in Shorts
<1>1. Half \in Nat /\ IdCount \in Nat \ {0} /\ IdCount = 2 * Half /\ Half > 0
      BY ConstantsAssumption DEF Half
<1>2. (n + Half) % IdCount \in 0 .. IdCount - 1
      BY <1>1
<1> QED
    BY <1>1, <1>2 DEF ToShort, Shorts

LEMMA NoneIsNothing ==
    None \notin Requests /\ None \notin Tokens /\ None \notin Names /\ None \notin Shorts
BY ConstantsAssumption

LEMMA SomeIds == 0 \in Shorts /\ Missing \in Shorts /\ 0 \in 0 .. MaxConn
<1>1. Half \in Nat /\ Half > 0
      BY ConstantsAssumption DEF Half
<1> QED
    BY <1>1, ConstantsAssumption DEF Shorts, Missing

LEMMA TypeInit == Init => TypeOK
BY SomeIds, ConstantsAssumption, NoneIsNothing DEF Init, TypeOK, Steps, Timers

\* The steps of a bind command's thread.
LEMMA TypeThread ==
    ASSUME TypeOK, NEW r \in Requests, ThreadStep(r) PROVE TypeOK'
<1> USE DEF client, maps, thread, remote
<1>1. /\ pc \in [Requests -> Steps]
      /\ sentId \in [Requests -> Int]
      /\ \A q \in Requests : sentId[q] \in IF pc[q] = "read" THEN Nat ELSE Shorts
      /\ unanswered \subseteq {q \in Requests : pc[q] \notin Unsent}
      BY DEF TypeOK
<1>2. freeId \in Nat
      BY DEF TypeOK
\* Where the thread goes, the rest of what it changes having its type.
<1>3. ASSUME NEW step \in Steps, pc' = [pc EXCEPT ![r] = step],
             UNCHANGED <<connections, conn, online, cleaning, doomed, token, name, channel,
                         isTimedOut, remoteId, remoteToken, destroyed>>,
             stray' \subseteq Requests,
             requested' \in [Tokens -> Requests \cup {None}],
             freeId' \in Nat,
             name2id' \in [Names -> Shorts \cup {None}],
             id2os' \in [Shorts -> Requests \cup {None}],
             timer' \in [Requests -> Timers],
             sentId' \in [Requests -> Int],
             \A q \in Requests \ {r} : sentId'[q] = sentId[q],
             sentId'[r] \in IF step = "read" THEN Nat ELSE Shorts,
             unanswered' \subseteq {q \in Requests : pc[q] \notin Unsent} \cup {r},
             step \in Unsent => unanswered' \subseteq unanswered /\ pc[r] \in Unsent
      PROVE  TypeOK'
  <2>1. pc' \in [Requests -> Steps]
        BY <1>1, <1>3
  <2>2. \A q \in Requests : sentId'[q] \in IF pc'[q] = "read" THEN Nat ELSE Shorts
        BY <1>1, <1>3
  <2>3. unanswered' \subseteq {q \in Requests : pc'[q] \notin Unsent}
        BY <1>1, <1>3
  <2> QED
      BY <1>3, <2>1, <2>2, <2>3 DEF TypeOK
<1>4. /\ requested \in [Tokens -> Requests \cup {None}]
      /\ name2id \in [Names -> Shorts \cup {None}]
      /\ id2os \in [Shorts -> Requests \cup {None}]
      /\ timer \in [Requests -> Timers]
      /\ remoteId \in [Requests -> Shorts]
      /\ stray \subseteq Requests
      BY DEF TypeOK
<1> USE DEF Goto
<1>5. CASE PutRequest(r)
  <2>1. requested' \in [Tokens -> Requests \cup {None}]
        BY <1>4, <1>5 DEF PutRequest
  <2>2. PICK step \in {"refused", "put"} : pc' = [pc EXCEPT ![r] = step]
        BY <1>5 DEF PutRequest
  <2>3. pc[r] = "checked"
        BY <1>5 DEF PutRequest
  <2> QED
      BY <1>1, <1>2, <1>3, <1>4, <1>5, <2>1, <2>2, <2>3 DEF PutRequest, Steps, Unsent
<1>6. CASE CheckFreeId(r)
  <2>1. PICK step \in {"no free id", "allowed"} : pc' = [pc EXCEPT ![r] = step]
        BY <1>6 DEF CheckFreeId
  <2>2. pc[r] = "put"
        BY <1>6 DEF CheckFreeId
  <2> QED
      BY <1>1, <1>2, <1>3, <1>4, <1>6, <2>1, <2>2 DEF CheckFreeId, Steps, Unsent
<1>7. CASE ReadFreeId(r)
  <2>1. /\ pc' = [pc EXCEPT ![r] = "read"] /\ pc[r] = "allowed"
        /\ sentId' = [sentId EXCEPT ![r] = freeId]
        BY <1>7 DEF ReadFreeId
  <2>2. /\ sentId' \in [Requests -> Int] /\ sentId'[r] \in Nat
        /\ \A q \in Requests \ {r} : sentId'[q] = sentId[q]
        BY <1>1, <1>2, <2>1
  <2> QED
      BY <1>1, <1>2, <1>3, <1>4, <1>7, <2>1, <2>2 DEF ReadFreeId, Steps, Unsent
<1>8. CASE SendRequest(r)
  <2>1. /\ pc' = [pc EXCEPT ![r] = "waiting"] /\ pc[r] = "read"
        /\ sentId' = [sentId EXCEPT ![r] = ToShort(@)]
        /\ timer' = [timer EXCEPT ![r] = "armed"]
        /\ freeId' = sentId[r] + 1
        /\ unanswered' \subseteq unanswered \cup {r}
        BY <1>8 DEF SendRequest
  <2>2. sentId[r] \in Nat
        BY <1>1, <2>1
  <2>3. ToShort(sentId[r]) \in Shorts /\ ToShort(sentId[r]) \in Int /\ freeId' \in Nat
        BY <2>1, <2>2, ShortIsShort, ConstantsAssumption DEF Shorts, Half
  <2>4. /\ sentId' \in [Requests -> Int] /\ sentId'[r] \in Shorts
        /\ \A q \in Requests \ {r} : sentId'[q] = sentId[q]
        BY <1>1, <2>1, <2>3
  <2>5. timer' \in [Requests -> Timers]
        BY <1>4, <2>1 DEF Timers
  <2> QED
      BY <1>1, <1>3, <1>4, <1>8, <2>1, <2>3, <2>4, <2>5 DEF SendRequest, Steps, Unsent
<1>9. CASE LeaveLoop(r)
      BY <1>1, <1>2, <1>3, <1>4, <1>9 DEF LeaveLoop, Steps, Unsent
<1>10. CASE Decide(r)
  <2>1. PICK step \in {"timed out", "in time"} : pc' = [pc EXCEPT ![r] = step]
        BY <1>10 DEF Decide
  <2>2. pc[r] = "left"
        BY <1>10 DEF Decide
  <2> QED
      BY <1>1, <1>2, <1>3, <1>4, <1>10, <2>1, <2>2 DEF Decide, Steps, Unsent
<1>13. CASE CancelTimer(r)
  <2>1. timer' \in [Requests -> Timers]
        BY <1>4, <1>13 DEF CancelTimer, Timers
  <2> QED
      BY <1>1, <1>2, <1>3, <1>4, <1>13, <2>1 DEF CancelTimer, Steps, Unsent
<1>11. CASE RegisterName(r)
  <2>1. name2id' \in [Names -> Shorts \cup {None}]
        BY <1>4, <1>11 DEF RegisterName
  <2> QED
      BY <1>1, <1>2, <1>3, <1>4, <1>11, <2>1 DEF RegisterName, Steps, Unsent
<1>12. CASE RegisterId(r)
  <2>1. id2os' \in [Shorts -> Requests \cup {None}] /\ stray' \subseteq Requests
        BY <1>4, <1>12 DEF RegisterId
  <2> QED
      BY <1>1, <1>2, <1>3, <1>4, <1>12, <2>1 DEF RegisterId, Steps, Unsent
<1> QED
    BY <1>5, <1>6, <1>7, <1>8, <1>9, <1>10, <1>11, <1>12, <1>13 DEF ThreadStep

LEMMA TypeDestroy ==
    ASSUME TypeOK, NEW r \in Requests, Destroy(r)
    PROVE  /\ name2id' \in [Names -> Shorts \cup {None}]
           /\ id2os' \in [Shorts -> Requests \cup {None}]
           /\ remoteId' \in [Requests -> Shorts]
           /\ destroyed' \in [Requests -> BOOLEAN]
BY SomeIds DEF TypeOK, Destroy

\* The name of a computer leads to the request that made its RemoteOS, or to none.
LEMMA NameLeadsToRequest ==
    ASSUME TypeOK, NEW n \in Names PROVE FromName(n) \in Requests \cup {None}
BY SomeIds DEF TypeOK, FromName

\* The steps of a client and of its connection.
LEMMA TypeClient ==
    ASSUME TypeOK, NEW t \in Tokens,
           Connect(t) \/ Disconnect(t) \/ CollectRemotes(t) \/ DestroyNext(t)
    PROVE  TypeOK'
<1> USE DEF TypeOK, client, maps, thread, remote
<1>1. CASE Connect(t)
  <2>1. connections' \in 0 .. MaxConn
        BY <1>1, ConstantsAssumption DEF Connect
  <2> QED
      BY <1>1, <2>1 DEF Connect
<1>2. CASE Disconnect(t)
  <2>1. /\ unanswered' \subseteq unanswered
        /\ online' \subseteq online
        /\ cleaning' \in {cleaning, [cleaning EXCEPT ![t] = "collect"]}
        /\ UNCHANGED doomed
        /\ cleaning[t] = "no"
        /\ stray' \subseteq stray \cup HostedBy(t)
        BY <1>2 DEF Disconnect
  <2>2. \A u \in Tokens : cleaning'[u] # "destroy" => doomed'[u] = {}
        BY <2>1
  <2>3. cleaning' \in [Tokens -> {"no", "collect", "destroy"}] /\ stray' \subseteq Requests
        BY <2>1 DEF HostedBy
  <2> QED
      BY <1>2, <2>1, <2>2, <2>3 DEF Disconnect
<1>3. CASE CollectRemotes(t)
  <2>1. PICK set \in SUBSET Requests, step \in {"no", "destroy"} :
            /\ cleaning' = [cleaning EXCEPT ![t] = step]
            /\ \/ step = "no" /\ UNCHANGED doomed
               \/ step = "destroy" /\ doomed' = [doomed EXCEPT ![t] = set]
    <3>1. {r \in {id2os[i] : i \in Shorts} \ {None} : remoteToken[r] = t} \subseteq Requests
          OBVIOUS
    <3> QED
        BY <1>3, <3>1 DEF CollectRemotes
  <2>2. doomed[t] = {}
        BY <1>3 DEF CollectRemotes
  <2>3. /\ cleaning' \in [Tokens -> {"no", "collect", "destroy"}]
        /\ doomed' \in [Tokens -> SUBSET Requests]
        BY <2>1
  <2>4. \A u \in Tokens : cleaning'[u] # "destroy" => doomed'[u] = {}
        BY <2>1, <2>2
  <2>5. stray' \subseteq Requests
        BY <1>3 DEF CollectRemotes, HostedBy
  <2> QED
      BY <1>3, <2>3, <2>4, <2>5 DEF CollectRemotes
<1>4. CASE DestroyNext(t)
  <2>1. CASE UNCHANGED <<maps, remote>>
    <3>1. /\ cleaning' = [cleaning EXCEPT ![t] = "no"]
          /\ doomed' \in {doomed, [doomed EXCEPT ![t] = {}]}
          /\ doomed'[t] = {}
          /\ stray' \subseteq stray \cup doomed[t]
      <4>1. CASE doomed[t] = {} /\ UNCHANGED <<doomed, stray>>
                 /\ cleaning' = [cleaning EXCEPT ![t] = "no"]
            BY <4>1
      <4>2. CASE /\ cleaning' = [cleaning EXCEPT ![t] = "no"]
                 /\ doomed' = [doomed EXCEPT ![t] = {}]
                 /\ stray' = stray \cup doomed[t]
            BY <4>2
      <4>3. ASSUME NEW r \in doomed[t], ~destroyed[r], Destroy(r) PROVE FALSE
            BY <2>1, <4>3 DEF Destroy
      <4> QED
          BY <1>4, <4>1, <4>2, <4>3 DEF DestroyNext
    <3>2. /\ cleaning' \in [Tokens -> {"no", "collect", "destroy"}]
          /\ doomed' \in [Tokens -> SUBSET Requests]
          /\ stray' \subseteq Requests
          BY <3>1
    <3>3. \A u \in Tokens : cleaning'[u] # "destroy" => doomed'[u] = {}
          BY <3>1
    <3>4. UNCHANGED <<connections, conn, online, unanswered, thread, timer, isTimedOut>>
          BY <1>4 DEF DestroyNext
    <3> QED
        BY <2>1, <3>2, <3>3, <3>4
  <2>2. CASE \E r \in doomed[t] :
                /\ Destroy(r)
                /\ doomed' = [doomed EXCEPT ![t] = @ \ {r}]
                /\ UNCHANGED <<cleaning, stray, connections, conn, online, unanswered, thread,
                               timer, isTimedOut>>
    <3>1. PICK r \in doomed[t] :
                /\ Destroy(r)
                /\ doomed' = [doomed EXCEPT ![t] = @ \ {r}]
                /\ UNCHANGED <<cleaning, stray, connections, conn, online, unanswered, thread,
                               timer, isTimedOut>>
          BY <2>2
    <3>2. r \in Requests
          OBVIOUS
    <3>3. UNCHANGED <<requested, freeId, remoteToken>>
          BY <3>1 DEF Destroy
    <3>4. \A u \in Tokens : doomed'[u] \subseteq doomed[u]
          BY <3>1
    <3> QED
        BY <3>1, <3>2, <3>3, <3>4, TypeDestroy
  <2> QED
      BY <1>4, <2>1, <2>2 DEF DestroyNext
<1> QED
    BY <1>1, <1>2, <1>3, <1>4

LEMMA TypeStep == TypeOK /\ [Next]_vars => TypeOK'
<1> SUFFICES ASSUME TypeOK, [Next]_vars PROVE TypeOK'
    OBVIOUS
<1> USE DEF client, maps, thread, remote
<1>1. ASSUME NEW r \in Requests, NEW t \in Tokens, NEW n \in Names, Check(r, t, n)
      PROVE  TypeOK'
  <2>1. /\ pc[r] = "idle" /\ UNCHANGED <<client, maps, unanswered, sentId, timer, isTimedOut, remote>>
        /\ \/ pc' = [pc EXCEPT ![r] = "checked"]
           \/ pc' = [pc EXCEPT ![r] = "refused"]
        BY <1>1 DEF Check, Goto
  <2>2. /\ token' \in [Requests -> Tokens \cup {None}]
        /\ name' \in [Requests -> Names \cup {None}]
        /\ channel' \in [Requests -> 0 .. MaxConn]
        BY <1>1 DEF Check, TypeOK
  <2>3. unanswered' \subseteq {q \in Requests : pc'[q] \notin Unsent}
        BY <2>1 DEF TypeOK, Unsent
  <2>4. pc' \in [Requests -> Steps]
        BY <2>1 DEF TypeOK, Steps
  <2>5. \A q \in Requests : sentId'[q] \in IF pc'[q] = "read" THEN Nat ELSE Shorts
    <3>1. \A q \in Requests : pc'[q] = "read" <=> pc[q] = "read"
          BY <2>1 DEF TypeOK
    <3> QED
        BY <2>1, <3>1 DEF TypeOK
  <2> QED
      BY <2>1, <2>2, <2>3, <2>4, <2>5 DEF TypeOK
<1>2. ASSUME NEW r \in Requests, ThreadStep(r)
      PROVE  TypeOK'
      BY <1>2, TypeThread
<1>3. ASSUME NEW r \in Requests, TimerStep(r)
      PROVE  TypeOK'
      BY <1>3 DEF TimerStep, TimerFires, TimerRemoves, TypeOK, Timers
<1>4. ASSUME NEW r \in Requests, NEW ok \in BOOLEAN, Answer(r, ok)
      PROVE  TypeOK'
  <2>1. /\ unanswered' \subseteq {q \in Requests : pc[q] \notin Unsent}
        /\ UNCHANGED pc
        BY <1>4 DEF Answer, TypeOK
  <2>2. sentId[r] \in Shorts
        BY <1>4 DEF Answer, TypeOK, Unsent
  <2>3. CASE UNCHANGED <<remoteId, remoteToken, requested>>
        BY <1>4, <2>1, <2>3 DEF Answer, TypeOK
  <2>4. CASE ~UNCHANGED <<remoteId, remoteToken, requested>>
        BY <1>4, <2>1, <2>2, <2>4 DEF Answer, TypeOK
  <2> QED
      BY <2>3, <2>4
<1>5. ASSUME NEW t \in Tokens,
             Connect(t) \/ Disconnect(t) \/ CollectRemotes(t) \/ DestroyNext(t)
      PROVE  TypeOK'
      BY <1>5, TypeClient
<1>6. ASSUME NEW n \in Names, Unbind(n)
      PROVE  TypeOK'
  <2>1. FromName(n) \in Requests /\ Destroy(FromName(n))
        BY <1>6, NameLeadsToRequest DEF Unbind
  <2> QED
      BY <1>6, <2>1, TypeDestroy DEF Unbind, Destroy, TypeOK
<1>7. CASE UNCHANGED vars
      BY <1>7 DEF vars, TypeOK
<1> QED
    BY <1>1, <1>2, <1>3, <1>4, <1>5, <1>6, <1>7 DEF Next

\* Type correctness of the requests, the ids and the computers that clients host.
THEOREM Typing == Spec => []TypeOK
<1> QED
    BY TypeInit, TypeStep, PTL DEF Spec

-----------------------------------------------------------------------------
LEMMA PendingInit == Init => PendingInv
<1> SUFFICES ASSUME Init PROVE PendingInv
    OBVIOUS
<1>1. \A t \in Tokens : requested[t] = None
      BY DEF Init
<1>2. \A r \in Requests : pc[r] = "idle" /\ token[r] = None
      BY DEF Init
<1> QED
    BY <1>1, <1>2, TypeInit, NoneIsNothing DEF PendingInv, IdleHasNothing, Placed

\* What a step does to requests that are under way: it does not change their
\* token, nor take a timeout back.
LEMMA UnderWay ==
    ASSUME TypeOK, [Next]_vars, NEW r \in Requests
    PROVE  /\ pc[r] # "idle" => pc'[r] # "idle" /\ token'[r] = token[r]
           /\ isTimedOut[r] => isTimedOut'[r]
<1>1. /\ pc \in [Requests -> Steps]
      /\ token \in [Requests -> Tokens \cup {None}]
      /\ isTimedOut \in [Requests -> BOOLEAN]
      BY DEF TypeOK
<1> USE DEF client, maps, thread, remote, Goto
<1>2. ASSUME NEW q \in Requests, NEW t \in Tokens, NEW n \in Names, Check(q, t, n)
      PROVE  /\ pc[r] # "idle" => pc'[r] # "idle" /\ token'[r] = token[r]
             /\ isTimedOut[r] => isTimedOut'[r]
      BY <1>1, <1>2 DEF Check
<1>3. ASSUME NEW q \in Requests, ThreadStep(q)
      PROVE  /\ pc[r] # "idle" => pc'[r] # "idle" /\ token'[r] = token[r]
             /\ isTimedOut[r] => isTimedOut'[r]
  <2>1. UNCHANGED <<token, isTimedOut>>
        BY <1>3 DEF ThreadStep, PutRequest, CheckFreeId, ReadFreeId, SendRequest, LeaveLoop,
                    Decide, CancelTimer, RegisterName, RegisterId
  <2>2. PICK step \in Steps \ {"idle"} : pc' = [pc EXCEPT ![q] = step]
        BY <1>3 DEF ThreadStep, PutRequest, CheckFreeId, ReadFreeId, SendRequest, LeaveLoop,
                    Decide, CancelTimer, RegisterName, RegisterId, Steps
  <2> QED
      BY <1>1, <2>1, <2>2
<1>4. ASSUME NEW q \in Requests, TimerStep(q)
      PROVE  /\ pc[r] # "idle" => pc'[r] # "idle" /\ token'[r] = token[r]
             /\ isTimedOut[r] => isTimedOut'[r]
      BY <1>1, <1>4 DEF TimerStep, TimerFires, TimerRemoves
<1>5. CASE UNCHANGED <<pc, token, isTimedOut>>
      BY <1>1, <1>5
<1>6. ASSUME NEW q \in Requests, NEW ok \in BOOLEAN, Answer(q, ok)
      PROVE  UNCHANGED <<pc, token, isTimedOut>>
      BY <1>6 DEF Answer
<1>7. ASSUME NEW t \in Tokens,
             Connect(t) \/ Disconnect(t) \/ CollectRemotes(t) \/ DestroyNext(t)
      PROVE  UNCHANGED <<pc, token, isTimedOut>>
      BY <1>7 DEF Connect, Disconnect, CollectRemotes, DestroyNext
<1>8. ASSUME NEW n \in Names, Unbind(n)
      PROVE  UNCHANGED <<pc, token, isTimedOut>>
      BY <1>8 DEF Unbind
<1>9. CASE UNCHANGED vars
      BY <1>5, <1>9 DEF vars
<1> QED
    BY <1>2, <1>3, <1>4, <1>5, <1>6, <1>7, <1>8, <1>9 DEF Next

LEMMA PendingStep == PendingInv /\ [Next]_vars => PendingInv'
<1> SUFFICES ASSUME PendingInv, [Next]_vars PROVE PendingInv'
    OBVIOUS
<1>0. TypeOK /\ TypeOK'
      BY TypeStep DEF PendingInv
<1>1. /\ pc \in [Requests -> Steps]
      /\ token \in [Requests -> Tokens \cup {None}]
      /\ requested \in [Tokens -> Requests \cup {None}]
      BY <1>0 DEF TypeOK
<1>2. \A r \in Requests : /\ pc[r] = "idle" => token[r] = None
                          /\ pc[r] \notin {"idle", "refused"} => token[r] \in Tokens
      BY DEF PendingInv, IdleHasNothing
<1>3. \A t \in Tokens, r \in Requests :
          requested[t] = r => token[r] = t /\ pc[r] \in Pending
      BY DEF PendingInv, Placed, Pending
<1>i. SUFFICES IdleHasNothing' /\ Placed'
      BY <1>0 DEF PendingInv
<1> USE NoneIsNothing DEF client, maps, thread, remote, Goto
\* A step that takes places only, and leaves requests where they are.
<1>4. ASSUME UNCHANGED <<pc, token>>, \A t \in Tokens : requested'[t] \in {requested[t], None}
      PROVE  IdleHasNothing' /\ Placed'
  <2>1. IdleHasNothing'
        BY <1>2, <1>4 DEF IdleHasNothing
  <2>2. \A t \in Tokens, r \in Requests : requested'[t] = r => requested[t] = r
        BY <1>4
  <2>3. Placed'
        BY <1>3, <1>4, <2>2 DEF Placed, Pending
  <2> QED
      BY <2>1, <2>3
<1>5. ASSUME NEW r \in Requests, NEW t \in Tokens, NEW n \in Names, Check(r, t, n)
      PROVE  IdleHasNothing' /\ Placed'
  <2>1. PICK step \in {"checked", "refused"} : pc' = [pc EXCEPT ![r] = step]
        BY <1>5 DEF Check
  <2>2. /\ UNCHANGED requested /\ pc[r] = "idle"
        /\ \/ token' = [token EXCEPT ![r] = t]
           \/ UNCHANGED token /\ pc' = [pc EXCEPT ![r] = "refused"]
        BY <1>5 DEF Check
  <2>3. \A u \in Tokens : requested[u] # r
        BY <1>3, <2>2 DEF Pending
  <2>4. \A q \in Requests \ {r} : token'[q] = token[q] /\ pc'[q] = pc[q]
        BY <1>1, <2>1, <2>2
  <2>5. Placed'
        BY <1>3, <2>2, <2>3, <2>4 DEF Placed, Pending
  <2>6. IdleHasNothing'
    <3>1. CASE token' = [token EXCEPT ![r] = t]
          BY <1>1, <1>2, <1>5, <2>1, <2>4, <3>1 DEF IdleHasNothing
    <3>2. CASE UNCHANGED token /\ pc' = [pc EXCEPT ![r] = "refused"]
          BY <1>1, <1>2, <2>4, <3>2 DEF IdleHasNothing
    <3> QED
        BY <2>2, <3>1, <3>2
  <2> QED
      BY <2>5, <2>6
\* A thread that goes on keeps its place while it is pending.
<1>6. ASSUME NEW r \in Requests, NEW step \in Steps \ {"idle"}, pc[r] \notin {"idle", "refused"},
             pc' = [pc EXCEPT ![r] = step], UNCHANGED <<token, requested>>,
             step \in Pending \/ \A t \in Tokens : requested[t] # r
      PROVE  IdleHasNothing' /\ Placed'
      BY <1>1, <1>2, <1>3, <1>6 DEF IdleHasNothing, Placed, Pending
<1>7. ASSUME NEW r \in Requests, ThreadStep(r)
      PROVE  IdleHasNothing' /\ Placed'
  <2>1. CASE PutRequest(r)
    <3>1. CASE requested[token[r]] = None
      <4>1. /\ pc[r] = "checked"
            /\ pc' = [pc EXCEPT ![r] = "put"]
            /\ requested' = [requested EXCEPT ![token[r]] = r]
            /\ UNCHANGED token
            BY <2>1, <3>1 DEF PutRequest
      <4> QED
          BY <1>1, <1>2, <1>3, <4>1 DEF IdleHasNothing, Placed, Pending
    <3>2. CASE requested[token[r]] # None
      <4>1. \A t \in Tokens : requested[t] # r
            BY <1>3, <2>1 DEF PutRequest, Pending
      <4> QED
          BY <1>6, <2>1, <3>2, <4>1 DEF PutRequest, Steps
    <3> QED
        BY <3>1, <3>2
  <2>2. CASE CheckFreeId(r) \/ ReadFreeId(r) \/ SendRequest(r)
    <3>1. PICK step \in {"no free id", "allowed", "read", "waiting"} :
              pc' = [pc EXCEPT ![r] = step]
          BY <2>2 DEF CheckFreeId, ReadFreeId, SendRequest
    <3>2. UNCHANGED <<token, requested>> /\ pc[r] \notin {"idle", "refused"}
          BY <2>2 DEF CheckFreeId, ReadFreeId, SendRequest
    <3> QED
        BY <1>6, <3>1, <3>2 DEF Pending, Steps
  <2>3. CASE LeaveLoop(r)
    <3>1. \A t \in Tokens : requested[t] # r
          BY <1>3, <2>3 DEF LeaveLoop
    <3> QED
        BY <1>6, <2>3, <3>1 DEF LeaveLoop, Steps
  <2>4. CASE Decide(r) \/ CancelTimer(r) \/ RegisterName(r) \/ RegisterId(r)
    <3>1. PICK step \in {"timed out", "in time", "answered", "named", "created"} :
              pc' = [pc EXCEPT ![r] = step]
          BY <2>4 DEF Decide, CancelTimer, RegisterName, RegisterId
    <3>2. UNCHANGED <<token, requested>> /\ pc[r] \notin Pending \cup {"idle", "refused"}
          BY <2>4 DEF Decide, CancelTimer, RegisterName, RegisterId, Pending
    <3> QED
        BY <1>3, <1>6, <3>1, <3>2 DEF Steps
  <2> QED
      BY <1>7, <2>1, <2>2, <2>3, <2>4 DEF ThreadStep
<1>8. ASSUME NEW r \in Requests, TimerStep(r)
      PROVE  IdleHasNothing' /\ Placed'
      BY <1>1, <1>4, <1>8 DEF TimerStep, TimerFires, TimerRemoves
<1>9. ASSUME NEW r \in Requests, NEW ok \in BOOLEAN, Answer(r, ok)
      PROVE  IdleHasNothing' /\ Placed'
      BY <1>1, <1>4, <1>9 DEF Answer
<1>10. ASSUME NEW t \in Tokens,
              Connect(t) \/ Disconnect(t) \/ CollectRemotes(t) \/ DestroyNext(t)
       PROVE  IdleHasNothing' /\ Placed'
       BY <1>4, <1>10 DEF Connect, Disconnect, CollectRemotes, DestroyNext, Destroy
<1>11. ASSUME NEW n \in Names, Unbind(n)
       PROVE  IdleHasNothing' /\ Placed'
       BY <1>4, <1>11 DEF Unbind, Destroy
<1>12. CASE UNCHANGED vars
       BY <1>4, <1>12 DEF vars
<1> QED
    BY <1>5, <1>7, <1>8, <1>9, <1>10, <1>11, <1>12 DEF Next

\* The timer of a request that waits for its answer in its token's place has not run
\* out: in its last step it gives the place back.
PlaceTimed ==
    \A t \in Tokens, r \in Requests :
        requested[t] = r /\ pc[r] = "waiting" => timer[r] \in {"armed", "fired"}

LEMMA PlaceTimedStep == PendingInv /\ PlaceTimed /\ [Next]_vars => PlaceTimed'
<1> SUFFICES ASSUME PendingInv, PlaceTimed, [Next]_vars,
                    NEW t \in Tokens, NEW r \in Requests,
                    requested'[t] = r, pc'[r] = "waiting"
             PROVE  timer'[r] \in {"armed", "fired"}
    BY DEF PlaceTimed
<1>1. /\ pc \in [Requests -> Steps]
      /\ timer \in [Requests -> Timers]
      /\ requested \in [Tokens -> Requests \cup {None}]
      BY DEF PendingInv, TypeOK
<1>2. requested[t] = r => token[r] = t
      BY DEF PendingInv, Placed
<1> USE NoneIsNothing DEF client, maps, thread, remote, Goto
\* A step that leaves the request in its place, and its timer alone.
<1>3. ASSUME requested[t] = r, pc[r] = "waiting", timer'[r] = timer[r]
      PROVE  timer'[r] \in {"armed", "fired"}
      BY <1>3 DEF PlaceTimed
<1>4. ASSUME NEW q \in Requests, NEW u \in Tokens, NEW n \in Names, Check(q, u, n)
      PROVE  timer'[r] \in {"armed", "fired"}
      BY <1>1, <1>3, <1>4 DEF Check
<1>5. ASSUME NEW q \in Requests, ThreadStep(q)
      PROVE  timer'[r] \in {"armed", "fired"}
  <2>1. CASE PutRequest(q)
        BY <1>1, <1>3, <2>1 DEF PutRequest
  <2>2. CASE SendRequest(q)
        BY <1>1, <1>3, <2>2 DEF SendRequest
  <2>3. CASE CheckFreeId(q) \/ ReadFreeId(q) \/ LeaveLoop(q) \/ RegisterName(q) \/ RegisterId(q)
        BY <1>1, <1>3, <2>3
        DEF CheckFreeId, ReadFreeId, LeaveLoop, RegisterName, RegisterId
  <2>4. CASE Decide(q) \/ CancelTimer(q)
        BY <1>1, <1>3, <2>4 DEF Decide, CancelTimer
  <2> QED
      BY <1>5, <2>1, <2>2, <2>3, <2>4 DEF ThreadStep
<1>6. ASSUME NEW q \in Requests, TimerStep(q)
      PROVE  timer'[r] \in {"armed", "fired"}
  <2>1. CASE TimerFires(q)
        BY <1>1, <1>3, <2>1 DEF TimerFires
  <2>2. CASE TimerRemoves(q)
        BY <1>1, <1>2, <1>3, <2>2 DEF TimerRemoves
  <2> QED
      BY <1>6, <2>1, <2>2 DEF TimerStep
<1>7. ASSUME NEW q \in Requests, NEW ok \in BOOLEAN, Answer(q, ok)
      PROVE  timer'[r] \in {"armed", "fired"}
      BY <1>1, <1>3, <1>7 DEF Answer
<1>8. ASSUME NEW u \in Tokens,
             Connect(u) \/ Disconnect(u) \/ CollectRemotes(u) \/ DestroyNext(u)
      PROVE  timer'[r] \in {"armed", "fired"}
      BY <1>3, <1>8 DEF Connect, Disconnect, CollectRemotes, DestroyNext, Destroy
<1>9. ASSUME NEW n \in Names, Unbind(n)
      PROVE  timer'[r] \in {"armed", "fired"}
      BY <1>3, <1>9 DEF Unbind, Destroy
<1>10. CASE UNCHANGED vars
       BY <1>3, <1>10 DEF vars
<1> QED
    BY <1>4, <1>5, <1>6, <1>7, <1>8, <1>9, <1>10 DEF Next

\* A place in "requested" stands for a request that is under way (RemoteOS lines
\* 95 to 124), but for one that found no free id; so the next bind command of the
\* token is refused for a reason, and no thread waits for an answer without a timer
\* to end its wait.
THEOREM PlacesArePending == Spec => []RequestPending
<1>1. Init => PlaceTimed
      BY NoneIsNothing DEF Init, PlaceTimed
<1>2. PendingInv /\ PlaceTimed => RequestPending
      BY DEF PendingInv, Placed, PlaceTimed, Pending, RequestPending
<1> QED
    BY PendingInit, PendingStep, PlaceTimedStep, <1>1, <1>2, PTL DEF Spec

-----------------------------------------------------------------------------
Parts == TimedOutByTimer /\ HostedHere /\ AnswersAsked /\ PlaceKept /\ AnswerSet

LEMMA AnswerInit == Init => AnswerInv
<1> SUFFICES ASSUME Init PROVE AnswerInv
    OBVIOUS
<1>1. /\ \A r \in Requests : pc[r] = "idle" /\ timer[r] = "off" /\ destroyed[r] = FALSE
      /\ \A i \in Shorts : id2os[i] = None
      /\ \A t \in Tokens : doomed[t] = {}
      /\ unanswered = {}
      BY DEF Init
<1> QED
    BY <1>1, PendingInit, NoneIsNothing
    DEF AnswerInv, TimedOutByTimer, HostedHere, AnswersAsked, PlaceKept, AnswerSet, Answered

\* A token that is clean was so before.
LEMMA CleanBefore ==
    ASSUME PendingInv, [Next]_vars, NEW r \in Requests, pc[r] \notin {"idle", "refused"}, Clean(r)'
    PROVE  Clean(r)
<1> SUFFICES ASSUME NEW q \in Requests, token[q] = token[r], isTimedOut[q]
             PROVE  FALSE
    BY DEF Clean
<1>1. pc[q] # "idle" /\ pc[r] # "idle"
      BY NoneIsNothing DEF PendingInv, IdleHasNothing
<1>2. token'[q] = token'[r] /\ isTimedOut'[q]
      BY <1>1, UnderWay DEF PendingInv
<1> QED
    BY <1>2 DEF Clean

\* The types that the steps below need.
Types ==
    /\ pc \in [Requests -> Steps]
    /\ token \in [Requests -> Tokens \cup {None}]
    /\ requested \in [Tokens -> Requests \cup {None}]
    /\ id2os \in [Shorts -> Requests \cup {None}]
    /\ unanswered \subseteq {r \in Requests : pc[r] \notin Unsent}
    /\ sentId \in [Requests -> Int]
    /\ timer \in [Requests -> Timers]
    /\ isTimedOut \in [Requests -> BOOLEAN]
    /\ remoteId \in [Requests -> Shorts]
    /\ remoteToken \in [Requests -> Tokens \cup {None}]
    /\ destroyed \in [Requests -> BOOLEAN]
    /\ doomed \in [Tokens -> SUBSET Requests]

LEMMA TypesHold == TypeOK => Types
BY DEF TypeOK, Types

\* What happens to the invariant when nothing of it changes but that clients and
\* connections go, or time runs out.
LEMMA QuietStep ==
    ASSUME AnswerInv, [Next]_vars,
           UNCHANGED <<pc, token, requested, id2os, sentId, remote>>,
           \A r \in Requests : timer'[r] \in {"fired", "done"} => isTimedOut'[r],
           unanswered' \subseteq unanswered,
           \A t \in Tokens : \A r \in doomed'[t] : pc[r] = "created"
    PROVE  Parts'
<1> USE DEF remote
<1>1. \A r \in Requests : pc[r] \notin {"idle", "refused"} /\ Clean(r)' => Clean(r)
      BY CleanBefore DEF AnswerInv
<1>2. TimedOutByTimer' /\ HostedHere'
      BY DEF AnswerInv, TimedOutByTimer, HostedHere
<1>3. unanswered \subseteq {r \in Requests : pc[r] \notin Unsent}
      BY DEF AnswerInv, PendingInv, TypeOK
<1>4. AnswersAsked'
      BY <1>1, <1>3 DEF AnswerInv, AnswersAsked, Asked, Unsent
<1>5. PlaceKept'
      BY <1>1 DEF AnswerInv, PlaceKept, Asked
<1>6. AnswerSet'
      BY <1>1 DEF AnswerInv, AnswerSet, Asked, Answered
<1> QED
    BY <1>2, <1>4, <1>5, <1>6 DEF Parts

\* The steps of a bind command's thread.
LEMMA ThreadParts ==
    ASSUME AnswerInv, [Next]_vars, NEW r \in Requests, ThreadStep(r)
    PROVE  Parts'
<1>1. Types
      BY TypesHold DEF AnswerInv, PendingInv
<1>2. \A q \in Requests : pc[q] \notin {"idle", "refused"} /\ Clean(q)' => Clean(q)
      BY CleanBefore DEF AnswerInv
<1>3. /\ \A q \in Requests : pc[q] \notin {"idle", "refused"} => token[q] \in Tokens
      /\ \A t \in Tokens, q \in Requests : requested[t] = q => token[q] = t /\ pc[q] \in Pending
      BY DEF AnswerInv, PendingInv, IdleHasNothing, Placed, Pending
<1>4. TimedOutByTimer /\ HostedHere /\ AnswersAsked /\ PlaceKept /\ AnswerSet
      BY DEF AnswerInv
<1> USE DEF client, maps, thread, remote, Goto
<1>5. /\ UNCHANGED <<token, isTimedOut, remoteId, remoteToken, destroyed, doomed>>
      /\ pc[r] \notin {"idle", "created"}
      /\ \A q \in Requests \ {r} : sentId'[q] = sentId[q] /\ pc'[q] = pc[q]
  <2>1. UNCHANGED <<token, isTimedOut, remoteId, remoteToken, destroyed, doomed>>
        BY DEF ThreadStep, PutRequest, CheckFreeId, ReadFreeId, SendRequest,
               LeaveLoop, Decide, CancelTimer, RegisterName, RegisterId
  <2>2. pc[r] \notin {"idle", "created"}
        BY DEF ThreadStep, PutRequest, CheckFreeId, ReadFreeId, SendRequest,
               LeaveLoop, Decide, CancelTimer, RegisterName, RegisterId
  <2>3. PICK step \in Steps : pc' = [pc EXCEPT ![r] = step]
        BY DEF ThreadStep, PutRequest, CheckFreeId, ReadFreeId, SendRequest,
               LeaveLoop, Decide, CancelTimer, RegisterName, RegisterId, Steps
  <2>4. \A q \in Requests \ {r} : sentId'[q] = sentId[q]
    <3>1. CASE ReadFreeId(r)
          BY <1>1, <3>1 DEF ReadFreeId, Types
    <3>2. CASE SendRequest(r)
          BY <1>1, <3>2 DEF SendRequest, Types
    <3>3. CASE UNCHANGED sentId
          BY <3>3
    <3> QED
        BY <3>1, <3>2, <3>3 DEF ThreadStep, PutRequest, CheckFreeId, LeaveLoop, Decide, CancelTimer,
           RegisterName, RegisterId
  <2> QED
      BY <1>1, <2>1, <2>2, <2>3, <2>4 DEF Types
<1>6. ~destroyed[r] /\ \A t \in Tokens : r \notin doomed[t]
      BY <1>4, <1>5 DEF HostedHere
<1>7. TimedOutByTimer'
      BY <1>1, <1>4 DEF ThreadStep, PutRequest, CheckFreeId, ReadFreeId, SendRequest,
                  LeaveLoop, Decide, CancelTimer, RegisterName, RegisterId, Types, TimedOutByTimer
<1>8. HostedHere'
  <2>1. CASE RegisterId(r)
    <3>1. /\ pc'[r] = "created"
          /\ id2os' = [id2os EXCEPT ![remoteId[r]] = r]
          BY <1>1, <2>1 DEF RegisterId, Types
    <3> QED
        BY <1>1, <1>4, <1>5, <1>6, <3>1 DEF HostedHere, Types
  <2>2. CASE ~RegisterId(r)
    <3>1. UNCHANGED id2os
          BY <2>2 DEF ThreadStep, PutRequest, CheckFreeId, ReadFreeId, SendRequest,
                      LeaveLoop, Decide, CancelTimer, RegisterName
    <3>2. \A q \in Requests : pc[q] = "created" => pc'[q] = "created"
          BY <1>5
    <3>3. \A i \in Shorts, q \in Requests :
              id2os[i] = q => pc'[q] = "created" /\ remoteId[q] = i /\ ~destroyed[q]
          BY <1>4, <3>2 DEF HostedHere
    <3>4. /\ \A q \in Requests : destroyed[q] => pc'[q] = "created"
          /\ \A t \in Tokens : \A q \in doomed[t] : pc'[q] = "created"
          BY <1>1, <1>4, <3>2 DEF HostedHere, Types
    <3> QED
        BY <1>5, <3>1, <3>3, <3>4 DEF HostedHere
  <2> QED
      BY <2>1, <2>2
\* A step that takes no place and sends nothing, before the request is sent or
\* after it was answered.
<1>9. ASSUME UNCHANGED <<requested, unanswered, sentId>>,
             \/ /\ pc[r] \in {"put", "allowed"}
                /\ pc'[r] \in {"allowed", "read", "no free id"}
             \/ /\ pc[r] \in Answered
                /\ pc'[r] \in Answered \cup {"timed out"}
      PROVE  AnswersAsked' /\ PlaceKept' /\ AnswerSet'
  <2>1. \A q \in Requests : Asked(q)' = Asked(q)
        BY <1>5, <1>9 DEF Asked
  <2>2. pc[r] # "waiting" /\ pc'[r] # "waiting"
        BY <1>9 DEF Answered
  <2>3. AnswersAsked'
        BY <1>1, <1>2, <1>4, <1>5, <1>9, <2>1, <2>2 DEF AnswersAsked, Types, Unsent
  <2>4. PlaceKept'
        BY <1>1, <1>2, <1>4, <1>5, <1>9, <2>1 DEF PlaceKept, Answered
  <2>5. AnswerSet'
        BY <1>1, <1>2, <1>4, <1>5, <1>9, <2>1, <2>2 DEF AnswerSet, Answered
  <2> QED
      BY <2>3, <2>4, <2>5
<1>10. AnswersAsked' /\ PlaceKept' /\ AnswerSet'
  <2>1. CASE PutRequest(r) /\ requested[token[r]] = None
    <3>1. /\ requested' = [requested EXCEPT ![token[r]] = r]
          /\ UNCHANGED <<unanswered, sentId>>
          /\ pc'[r] = "put" /\ pc[r] = "checked"
          BY <1>1, <2>1 DEF PutRequest, Types
    <3>2. \A q \in Requests \ {r} : pc[q] \notin {"idle", "refused"} /\ Asked(q) => Asked(q)'
          BY <1>1, <1>3, <1>5, <2>1, <3>1, NoneIsNothing DEF Asked, Types
    <3>3. \A q \in Requests \ {r} : pc[q] \notin {"idle", "refused"} /\ Asked(q)' => Asked(q)
          BY <1>1, <1>3, <1>5, <3>1 DEF Asked, Types
    <3>4. Asked(r)' /\ r \notin unanswered
          BY <1>1, <1>3, <1>5, <3>1 DEF Asked, Types, Unsent
    <3> QED
        BY <1>1, <1>2, <1>4, <1>5, <3>1, <3>2, <3>3, <3>4
        DEF AnswersAsked, PlaceKept, AnswerSet, Answered, Types, Unsent
  <2>2. CASE PutRequest(r) /\ requested[token[r]] # None
    <3>1. /\ UNCHANGED <<requested, unanswered, sentId>>
          /\ pc'[r] = "refused" /\ pc[r] = "checked"
          BY <1>1, <2>2 DEF PutRequest, Types
    <3>2. \A q \in Requests : Asked(q)' = Asked(q)
          BY <1>5, <3>1 DEF Asked
    <3>3. AnswersAsked'
          BY <1>1, <1>2, <1>4, <1>5, <3>1, <3>2 DEF AnswersAsked, Types, Unsent
    <3>4. PlaceKept'
          BY <1>1, <1>2, <1>4, <1>5, <3>1, <3>2 DEF PlaceKept, Answered
    <3>5. AnswerSet'
          BY <1>1, <1>2, <1>4, <1>5, <3>1, <3>2 DEF AnswerSet, Answered
    <3> QED
        BY <3>3, <3>4, <3>5
  <2>3. CASE CheckFreeId(r)
    <3>1. /\ UNCHANGED <<requested, unanswered, sentId>> /\ pc[r] = "put"
          /\ pc'[r] \in {"allowed", "no free id"}
          BY <1>1, <2>3 DEF CheckFreeId, Types
    <3> QED
        BY <1>9, <3>1
  <2>4. CASE ReadFreeId(r)
    <3>1. /\ UNCHANGED <<requested, unanswered>>
          /\ pc[r] = "allowed" /\ pc'[r] = "read"
          BY <1>1, <2>4 DEF ReadFreeId, Types
    <3>2. \A q \in Requests : Asked(q)' = Asked(q)
          BY <1>5, <3>1 DEF Asked
    <3>3. AnswersAsked'
          BY <1>1, <1>2, <1>4, <1>5, <3>1, <3>2 DEF AnswersAsked, Types, Unsent
    <3>4. PlaceKept'
          BY <1>1, <1>2, <1>4, <1>5, <3>1, <3>2 DEF PlaceKept, Answered
    <3>5. AnswerSet'
          BY <1>1, <1>2, <1>4, <1>5, <3>1, <3>2 DEF AnswerSet, Answered
    <3> QED
        BY <3>3, <3>4, <3>5
  <2>5. CASE SendRequest(r)
    <3>1. /\ UNCHANGED requested
          /\ unanswered' \subseteq unanswered \cup {r}
          /\ pc[r] = "read" /\ pc'[r] = "waiting"
          BY <1>1, <2>5 DEF SendRequest, Types
    <3>2. \A q \in Requests : Asked(q)' = Asked(q)
          BY <1>5, <3>1 DEF Asked
    <3>3. Clean(r)' => Asked(r)
          BY <1>2, <1>4, <3>1 DEF PlaceKept
    <3>4. AnswersAsked'
      <4>1. \A q \in Requests \ {r} : q \in unanswered' /\ Clean(q)' => Asked(q)' /\ pc'[q] = "waiting"
            BY <1>1, <1>2, <1>4, <1>5, <3>1, <3>2 DEF AnswersAsked, Types, Unsent
      <4> QED
          BY <3>1, <3>2, <3>3, <4>1 DEF AnswersAsked
    <3>5. PlaceKept'
          BY <1>1, <1>2, <1>4, <1>5, <3>1, <3>2 DEF PlaceKept, Answered
    <3>6. AnswerSet'
          BY <1>1, <1>2, <1>4, <1>5, <3>1, <3>2, <3>3 DEF AnswerSet, Answered
    <3> QED
        BY <3>4, <3>5, <3>6
  <2>6. CASE LeaveLoop(r)
    <3>1. /\ UNCHANGED <<requested, unanswered, sentId>>
          /\ pc[r] = "waiting" /\ pc'[r] = "left"
          /\ ~Asked(r)
          BY <1>1, <2>6, NoneIsNothing DEF LeaveLoop, Types, Asked
    <3>2. \A q \in Requests : Asked(q)' = Asked(q)
          BY <1>5, <3>1 DEF Asked
    <3>3. AnswersAsked'
          BY <1>1, <1>2, <1>4, <1>5, <3>1, <3>2 DEF AnswersAsked, Types, Unsent
    <3>4. PlaceKept'
          BY <1>1, <1>2, <1>4, <1>5, <3>1, <3>2 DEF PlaceKept, Answered
    <3>5. AnswerSet'
          BY <1>1, <1>2, <1>4, <1>5, <3>1, <3>2 DEF AnswerSet, Answered
    <3> QED
        BY <3>3, <3>4, <3>5
  <2>7. CASE Decide(r) \/ CancelTimer(r)
    <3>1. /\ UNCHANGED <<requested, unanswered, sentId>> /\ pc[r] \in {"left", "in time"}
          /\ pc'[r] \in {"timed out", "in time", "answered"}
          BY <1>1, <2>7 DEF Decide, CancelTimer, Types
    <3> QED
        BY <1>9, <3>1 DEF Answered
  <2>8. CASE RegisterName(r) \/ RegisterId(r)
    <3>1. /\ UNCHANGED <<requested, unanswered, sentId>> /\ pc[r] \in {"answered", "named"}
          /\ pc'[r] \in {"named", "created"}
          BY <1>1, <2>8 DEF RegisterName, RegisterId, Types
    <3> QED
        BY <1>9, <3>1 DEF Answered
  <2> QED
      BY <2>1, <2>2, <2>3, <2>4, <2>5, <2>6, <2>7, <2>8 DEF ThreadStep
<1> QED
    BY <1>7, <1>8, <1>10 DEF Parts

\* An answer goes to the request that the token has, which is the one it answers as
\* long as the token is clean.
LEMMA AnswerParts ==
    ASSUME AnswerInv, [Next]_vars, NEW r \in Requests, NEW ok \in BOOLEAN, Answer(r, ok)
    PROVE  Parts'
<1>1. Types
      BY TypesHold DEF AnswerInv, PendingInv
<1>2. \A q \in Requests : pc[q] \notin {"idle", "refused"} /\ Clean(q)' => Clean(q)
      BY CleanBefore DEF AnswerInv
<1>3. /\ \A q \in Requests : pc[q] \notin {"idle", "refused"} => token[q] \in Tokens
      /\ \A t \in Tokens, q \in Requests : requested[t] = q => token[q] = t /\ pc[q] \in Pending
      BY DEF AnswerInv, PendingInv, IdleHasNothing, Placed, Pending
<1>4. TimedOutByTimer /\ HostedHere /\ AnswersAsked /\ PlaceKept /\ AnswerSet
      BY DEF AnswerInv
<1>5. /\ UNCHANGED <<pc, token, sentId, timer, isTimedOut, id2os, destroyed, doomed>>
      /\ unanswered' = unanswered \ {r}
      /\ r \in unanswered
      BY <1>4 DEF Answer, client, thread
<1>6. CASE UNCHANGED <<remoteId, remoteToken, requested>>
      BY <1>4, <1>5, <1>6, QuietStep DEF HostedHere, TimedOutByTimer, remote
<1>7. ASSUME NEW t \in Tokens, t = token[r], NEW q \in Requests, q = requested[t],
             remoteId' = [remoteId EXCEPT ![q] = sentId[r]],
             remoteToken' = [remoteToken EXCEPT ![q] = t],
             requested' = [requested EXCEPT ![t] = None]
      PROVE  Parts'
  <2>1. TimedOutByTimer'
        BY <1>4, <1>5 DEF TimedOutByTimer
  <2>2. token[q] = t /\ pc[q] \in Pending
        BY <1>3, <1>7
  <2>3. HostedHere'
    <3>1. \A p \in Requests : pc[p] = "created" => remoteId'[p] = remoteId[p]
          BY <1>1, <1>7, <2>2 DEF Pending, Types
    <3>2. \A i \in Shorts, p \in Requests :
              id2os[i] = p => pc[p] = "created" /\ remoteId'[p] = i /\ ~destroyed[p]
          BY <1>4, <3>1 DEF HostedHere
    <3> QED
        BY <1>4, <1>5, <3>2 DEF HostedHere
  \* The request that is answered is the one that was asked.
  <2>4. ASSUME NEW p \in Requests, token[p] = t, Clean(p)
        PROVE  q = r /\ pc[r] = "waiting"
    <3>1. Clean(r)
          BY <1>7, <2>4 DEF Clean
    <3> QED
        BY <1>4, <1>5, <1>7, <3>1 DEF AnswersAsked, Asked
  <2>5. \A p \in Requests : token[p] # t => Asked(p)' = Asked(p)
        BY <1>1, <1>5, <1>7 DEF Asked, Types
  <2>6. \A p \in Requests : token[p] = t => ~Asked(p)'
        BY <1>1, <1>5, <1>7, NoneIsNothing DEF Asked, Types
  <2>7. \A p \in Requests : token[p] = t /\ p # q => ~Asked(p)
        BY <1>7 DEF Asked
  <2>8. AnswersAsked'
    <3> SUFFICES ASSUME NEW p \in Requests, p \in unanswered', Clean(p)'
                 PROVE  Asked(p)' /\ pc'[p] = "waiting"
        BY DEF AnswersAsked
    <3>1. Clean(p) /\ p # r /\ p \in unanswered
          BY <1>1, <1>2, <1>5 DEF Types, Unsent
    <3>2. Asked(p) /\ pc[p] = "waiting"
          BY <1>4, <3>1 DEF AnswersAsked
    <3>3. token[p] # t
          BY <2>4, <2>7, <3>1, <3>2
    <3> QED
        BY <1>5, <2>5, <3>2, <3>3
  <2>9. PlaceKept'
    <3> SUFFICES ASSUME NEW p \in Requests, pc'[p] \in {"put", "allowed", "read"}, Clean(p)'
                 PROVE  Asked(p)'
        BY DEF PlaceKept
    <3>1. Clean(p) /\ Asked(p)
          BY <1>2, <1>4, <1>5 DEF PlaceKept
    <3>2. token[p] # t
          BY <1>5, <2>4, <2>7, <3>1
    <3> QED
        BY <2>5, <3>1, <3>2
  <2>10. AnswerSet'
    <3> SUFFICES ASSUME NEW p \in Requests, Clean(p)', ~destroyed'[p],
                        pc'[p] \in Answered \/ (pc'[p] = "waiting" /\ ~Asked(p)')
                 PROVE  remoteId'[p] = sentId'[p] /\ remoteToken'[p] = token'[p]
        BY DEF AnswerSet
    <3>1. Clean(p)
          BY <1>2, <1>5 DEF Answered
    <3>2. CASE p = q
      <4>1. p = r
            BY <2>2, <2>4, <3>1, <3>2
      <4> QED
          BY <1>1, <1>5, <1>7, <3>2, <4>1 DEF Types
    <3>3. CASE p # q
      <4>1. pc[p] \in Answered \/ (pc[p] = "waiting" /\ ~Asked(p))
            BY <1>5, <2>5, <2>7, <3>3
      <4> QED
          BY <1>1, <1>4, <1>5, <1>7, <3>1, <3>3, <4>1 DEF AnswerSet, Types
    <3> QED
        BY <3>2, <3>3
  <2> QED
      BY <2>1, <2>3, <2>8, <2>9, <2>10 DEF Parts
<1>8. token[r] \in Tokens
      BY <1>1, <1>3, <1>5 DEF Types, Unsent
<1> QED
    BY <1>1, <1>6, <1>7, <1>8 DEF Answer, Types

\* A computer that is destroyed was hosted, and is not any more.
LEMMA DestroyParts ==
    ASSUME AnswerInv, [Next]_vars, NEW r \in Requests, Destroy(r), pc[r] = "created",
           ~destroyed[r], UNCHANGED <<thread, timer, isTimedOut, unanswered>>,
           \A t \in Tokens : doomed'[t] \subseteq doomed[t]
    PROVE  Parts'
<1>1. Types
      BY TypesHold DEF AnswerInv, PendingInv
<1>2. \A q \in Requests : pc[q] \notin {"idle", "refused"} /\ Clean(q)' => Clean(q)
      BY CleanBefore DEF AnswerInv
<1>4. TimedOutByTimer /\ HostedHere /\ AnswersAsked /\ PlaceKept /\ AnswerSet
      BY DEF AnswerInv
<1>5. UNCHANGED <<pc, token, sentId, timer, isTimedOut, unanswered, requested, remoteToken>>
      BY DEF Destroy, thread
<1>6. /\ id2os' = [id2os EXCEPT ![remoteId[r]] = None]
      /\ remoteId' = [remoteId EXCEPT ![r] = 0]
      /\ destroyed' = [destroyed EXCEPT ![r] = TRUE]
      BY DEF Destroy
<1>7. HostedHere'
  <2>1. \A i \in Shorts, q \in Requests : id2os'[i] = q => id2os[i] = q /\ q # r
        BY <1>1, <1>4, <1>6, NoneIsNothing DEF HostedHere, Types
  <2>2. \A q \in Requests \ {r} : remoteId'[q] = remoteId[q] /\ destroyed'[q] = destroyed[q]
        BY <1>1, <1>6 DEF Types
  <2>3. \A i \in Shorts, q \in Requests :
            id2os'[i] = q => pc'[q] = "created" /\ remoteId'[q] = i /\ ~destroyed'[q]
        BY <1>4, <1>5, <2>1, <2>2 DEF HostedHere
  <2>4. /\ \A q \in Requests : destroyed'[q] => pc'[q] = "created"
        /\ \A t \in Tokens : \A q \in doomed'[t] : pc'[q] = "created"
        BY <1>1, <1>4, <1>5, <2>2 DEF HostedHere, Types
  <2> QED
      BY <2>3, <2>4 DEF HostedHere
<1>8. /\ TimedOutByTimer'
      /\ AnswersAsked'
      /\ PlaceKept'
  <2>1. \A q \in Requests : Asked(q)' = Asked(q)
        BY <1>5 DEF Asked
  <2> QED
      BY <1>1, <1>2, <1>4, <1>5, <2>1 DEF TimedOutByTimer, AnswersAsked, PlaceKept, Types, Unsent
<1>9. AnswerSet'
  <2>1. \A q \in Requests \ {r} : remoteId'[q] = remoteId[q] /\ destroyed'[q] = destroyed[q]
        BY <1>1, <1>6 DEF Types
  <2>2. destroyed'[r]
        BY <1>1, <1>6 DEF Types
  <2> QED
      BY <1>2, <1>4, <1>5, <2>1, <2>2 DEF AnswerSet, Asked, Answered
<1> QED
    BY <1>7, <1>8, <1>9 DEF Parts

LEMMA AnswerStep == AnswerInv /\ [Next]_vars => AnswerInv'
<1> SUFFICES ASSUME AnswerInv, [Next]_vars PROVE AnswerInv'
    OBVIOUS
<1>1. PendingInv'
      BY PendingStep DEF AnswerInv
<1>2. TypeOK /\ Types
      BY TypesHold DEF AnswerInv, PendingInv
<1>3. TimedOutByTimer /\ HostedHere /\ AnswersAsked /\ PlaceKept /\ AnswerSet
      BY DEF AnswerInv
<1>4. SUFFICES Parts'
      BY <1>1 DEF AnswerInv, Parts
<1>5. ASSUME NEW r \in Requests, NEW t \in Tokens, NEW n \in Names, Check(r, t, n)
      PROVE  Parts'
  <2>1. /\ UNCHANGED <<requested, id2os, sentId, remoteId, remoteToken, destroyed, timer,
                       isTimedOut, unanswered, doomed>>
        /\ pc[r] = "idle" /\ pc'[r] \in {"checked", "refused"}
        /\ \A q \in Requests \ {r} : pc'[q] = pc[q] /\ token'[q] = token[q]
        BY <1>2, <1>5 DEF Check, client, maps, remote, Goto, Types
  <2>2. \A q \in Requests : pc[q] \notin {"idle", "refused"} /\ Clean(q)' => Clean(q)
        BY CleanBefore DEF AnswerInv
  <2>3. \A q \in Requests : pc[q] \notin {"idle", "refused"} => Asked(q)' = Asked(q)
        BY <2>1 DEF Asked
  <2>4. TimedOutByTimer'
        BY <1>3, <2>1 DEF TimedOutByTimer
  <2>5. HostedHere'
    <3>1. \A q \in Requests : pc[q] = "created" => pc'[q] = "created"
          BY <2>1
    <3> QED
        BY <1>2, <1>3, <2>1, <3>1 DEF HostedHere, Types
  <2>6. AnswersAsked'
        BY <1>2, <1>3, <2>1, <2>2, <2>3 DEF AnswersAsked, Types, Unsent
  <2>7. PlaceKept'
        BY <1>3, <2>1, <2>2, <2>3 DEF PlaceKept
  <2>8. AnswerSet'
        BY <1>3, <2>1, <2>2, <2>3 DEF AnswerSet, Answered
  <2> QED
      BY <2>4, <2>5, <2>6, <2>7, <2>8 DEF Parts
<1>6. ASSUME NEW r \in Requests, ThreadStep(r)
      PROVE  Parts'
      BY <1>6, ThreadParts
<1>7. ASSUME NEW r \in Requests, TimerFires(r)
      PROVE  Parts'
  <2>1. \A q \in Requests : timer'[q] \in {"fired", "done"} => isTimedOut'[q]
        BY <1>2, <1>3, <1>7 DEF TimerFires, TimedOutByTimer, Types
  <2> QED
      BY <1>3, <1>7, <2>1, QuietStep DEF TimerFires, client, maps, thread, remote, HostedHere
<1>8. ASSUME NEW r \in Requests, TimerRemoves(r)
      PROVE  Parts'
  <2>1. /\ UNCHANGED <<pc, token, id2os, sentId, remoteId, remoteToken, destroyed, isTimedOut,
                       unanswered, doomed>>
        /\ requested' = [requested EXCEPT ![token[r]] = None]
        /\ timer[r] = "fired"
        /\ timer' = [timer EXCEPT ![r] = "done"]
        BY <1>8 DEF TimerRemoves, client, thread, remote
  <2>2. \A q \in Requests : Clean(q) => token[q] # token[r]
        BY <1>3, <2>1 DEF TimedOutByTimer, Clean
  <2>3. \A q \in Requests : Clean(q)' => Clean(q)
        BY <2>1 DEF Clean
  <2>4. \A q \in Requests : Clean(q) /\ pc[q] \notin {"idle", "refused"} => Asked(q)' = Asked(q)
        BY <1>2, <2>1, <2>2 DEF Asked, Types
  <2>5. TimedOutByTimer'
        BY <1>2, <1>3, <2>1 DEF TimedOutByTimer, Types
  <2>6. HostedHere'
        BY <1>3, <2>1 DEF HostedHere
  <2>7. AnswersAsked'
        BY <1>2, <1>3, <2>1, <2>3, <2>4 DEF AnswersAsked, Types, Unsent
  <2>8. PlaceKept'
        BY <1>3, <2>1, <2>3, <2>4 DEF PlaceKept
  <2>9. AnswerSet'
        BY <1>3, <2>1, <2>3, <2>4 DEF AnswerSet, Answered
  <2> QED
      BY <2>5, <2>6, <2>7, <2>8, <2>9 DEF Parts
<1>9. ASSUME NEW r \in Requests, NEW ok \in BOOLEAN, Answer(r, ok)
      PROVE  Parts'
      BY <1>9, AnswerParts
<1>10. ASSUME NEW t \in Tokens, Connect(t) \/ Disconnect(t)
       PROVE  Parts'
       BY <1>3, <1>10, QuietStep DEF Connect, Disconnect, client, maps, thread, remote,
          HostedHere, TimedOutByTimer
<1>11. ASSUME NEW t \in Tokens, CollectRemotes(t)
       PROVE  Parts'
  <2>1. \A u \in Tokens : \A r \in doomed'[u] :
            r \in doomed[u] \/ (r # None /\ \E i \in Shorts : id2os[i] = r)
        BY <1>2, <1>11 DEF CollectRemotes, Types
  <2>2. doomed' \in [Tokens -> SUBSET Requests]
        BY <1>1 DEF PendingInv, TypeOK
  <2>3. \A u \in Tokens : \A r \in doomed'[u] : pc[r] = "created"
        BY <1>3, <2>1, <2>2 DEF HostedHere
  <2> QED
      BY <1>3, <1>11, <2>3, QuietStep DEF CollectRemotes, maps, thread, remote, TimedOutByTimer
<1>12. ASSUME NEW t \in Tokens, DestroyNext(t)
       PROVE  Parts'
  <2>1. \A u \in Tokens : doomed'[u] \subseteq doomed[u]
        BY <1>2, <1>12 DEF DestroyNext, Types
  <2>2. UNCHANGED <<thread, timer, isTimedOut, unanswered>>
        BY <1>12 DEF DestroyNext
  <2>3. CASE UNCHANGED <<maps, remote>>
    <3>1. \A u \in Tokens : \A r \in doomed'[u] : pc[r] = "created"
          BY <1>3, <2>1 DEF HostedHere
    <3> QED
        BY <1>3, <2>2, <2>3, <3>1, QuietStep DEF maps, thread, TimedOutByTimer
  <2>4. ASSUME NEW r \in doomed[t], ~destroyed[r], Destroy(r)
        PROVE  Parts'
    <3>1. r \in Requests /\ pc[r] = "created"
          BY <1>2, <1>3 DEF HostedHere, Types
    <3> QED
        BY <2>1, <2>2, <2>4, <3>1, DestroyParts
  <2> QED
      BY <1>12, <2>3, <2>4 DEF DestroyNext
<1>13. ASSUME NEW n \in Names, Unbind(n)
       PROVE  Parts'
  <2>1. PICK i \in Shorts : FromName(n) = id2os[i]
        BY <1>2, SomeIds DEF FromName, TypeOK
  <2>2. FromName(n) \in Requests /\ Destroy(FromName(n))
        BY <1>2, <1>13, NameLeadsToRequest DEF Unbind
  <2>3. pc[FromName(n)] = "created" /\ ~destroyed[FromName(n)]
        BY <1>3, <2>1, <2>2 DEF HostedHere
  <2>4. UNCHANGED <<thread, timer, isTimedOut, unanswered, doomed>>
        BY <1>13 DEF Unbind, client
  <2> QED
      BY <2>2, <2>3, <2>4, DestroyParts
<1>14. CASE UNCHANGED vars
       BY <1>3, <1>14, QuietStep DEF vars, remote, HostedHere, TimedOutByTimer
<1> QED
    BY <1>5, <1>6, <1>7, <1>8, <1>9, <1>10, <1>11, <1>12, <1>13, <1>14
    DEF Next, TimerStep

\* As long as no request of a token has timed out, its computers are hosted under
\* the ids that their own requests were sent with (RemoteOS.handleResponse,
\* destroy), whatever ids are reused and whoever unbinds, loses or regains a client.
THEOREM AnswersFit == Spec => []AnswersMatch
<1>1. AnswerInv => AnswersMatch
      BY DEF AnswerInv, HostedHere, AnswerSet, Answered, AnswersMatch, Hosted, Clean
<1> QED
    BY AnswerInit, AnswerStep, <1>1, PTL DEF Spec

-----------------------------------------------------------------------------
\* A RemoteOS gets the token of its own request, or none.
OwnToken == \A r \in Requests : remoteToken[r] # None => remoteToken[r] = token[r]

\* A cleanup gets to the computer, or got to it too early.
Reached(r) ==
    \/ r \in stray
    \/ cleaning[token[r]] = "collect"
    \/ cleaning[token[r]] = "destroy" /\ r \in doomed[token[r]]

CleanupInv ==
    /\ AnswerInv
    /\ OwnToken
    /\ \A r \in Requests : Hosted(r) /\ Lost(r) => Reached(r)

LEMMA CleanupInit == Init => CleanupInv
<1> SUFFICES ASSUME Init PROVE CleanupInv
    OBVIOUS
<1>1. /\ \A r \in Requests : remoteToken[r] = None
      /\ \A i \in Shorts : id2os[i] = None
      BY DEF Init
<1> QED
    BY <1>1, AnswerInit, NoneIsNothing DEF CleanupInv, OwnToken, Hosted

LEMMA OwnTokenStep == AnswerInv /\ OwnToken /\ [Next]_vars => OwnToken'
<1> SUFFICES ASSUME AnswerInv, OwnToken, [Next]_vars PROVE OwnToken'
    OBVIOUS
<1>1. Types
      BY TypesHold DEF AnswerInv, PendingInv
<1>2. /\ \A r \in Requests : pc[r] = "idle" => token[r] = None
      /\ \A t \in Tokens, r \in Requests : requested[t] = r => token[r] = t
      BY DEF AnswerInv, PendingInv, IdleHasNothing, Placed
<1>3. CASE UNCHANGED <<token, remoteToken>>
      BY <1>3 DEF OwnToken
<1> USE DEF client, maps, thread, remote, Goto
<1>4. ASSUME NEW r \in Requests, NEW t \in Tokens, NEW n \in Names, Check(r, t, n)
      PROVE  OwnToken'
      BY <1>1, <1>2, <1>4 DEF Check, OwnToken, Types
<1>5. ASSUME NEW r \in Requests, NEW ok \in BOOLEAN, Answer(r, ok)
      PROVE  OwnToken'
  <2>1. CASE UNCHANGED remoteToken
        BY <1>3, <1>5, <2>1 DEF Answer
  <2>2. ASSUME NEW t \in Tokens, NEW q \in Requests, q = requested[t],
               remoteToken' = [remoteToken EXCEPT ![q] = t], UNCHANGED token
        PROVE  OwnToken'
        BY <1>1, <1>2, <2>2 DEF OwnToken, Types
  <2>3. token[r] \in Tokens
        BY <1>1, <1>5 DEF Answer, AnswerInv, PendingInv, IdleHasNothing, Types, Unsent
  <2> QED
      BY <1>1, <1>5, <2>1, <2>2, <2>3 DEF Answer, Types
<1>6. ASSUME NEW r \in Requests, ThreadStep(r) \/ TimerStep(r)
      PROVE  OwnToken'
      BY <1>3, <1>6 DEF ThreadStep, PutRequest, CheckFreeId, ReadFreeId, SendRequest,
         LeaveLoop, Decide, CancelTimer, RegisterName, RegisterId, TimerStep, TimerFires, TimerRemoves
<1>7. ASSUME NEW t \in Tokens,
             Connect(t) \/ Disconnect(t) \/ CollectRemotes(t) \/ DestroyNext(t)
      PROVE  OwnToken'
      BY <1>3, <1>7 DEF Connect, Disconnect, CollectRemotes, DestroyNext, Destroy
<1>8. ASSUME NEW n \in Names, Unbind(n)
      PROVE  OwnToken'
      BY <1>3, <1>8 DEF Unbind, Destroy
<1>9. CASE UNCHANGED vars
      BY <1>3, <1>9 DEF vars
<1> QED
    BY <1>4, <1>5, <1>6, <1>7, <1>8, <1>9 DEF Next

\* The steps of the handler of a disconnect.
LEMMA ReachedByCleanup ==
    ASSUME CleanupInv, NEW t \in Tokens,
           Disconnect(t) \/ CollectRemotes(t) \/ DestroyNext(t),
           NEW r \in Requests, Hosted(r)', Lost(r)'
    PROVE  Reached(r)'
<1>1. Types /\ cleaning \in [Tokens -> {"no", "collect", "destroy"}]
      BY TypesHold DEF CleanupInv, AnswerInv, PendingInv, TypeOK
<1>2. HostedHere
      BY DEF CleanupInv, AnswerInv
<1>3. UNCHANGED <<conn, channel, token, pc>>
      BY DEF Disconnect, CollectRemotes, DestroyNext, thread
\* The handler hosts nothing, and what it destroys is hosted no more.
<1>0. ASSUME NEW q \in Requests, Destroy(q)
      PROVE  Hosted(r) /\ q # r
  <2>1. id2os' = [id2os EXCEPT ![remoteId[q]] = None]
        BY <1>0 DEF Destroy
  <2>2. PICK i \in Shorts : id2os'[i] = r
        BY DEF Hosted
  <2>3. id2os[i] = r /\ i # remoteId[q]
        BY <1>1, <2>1, <2>2, NoneIsNothing DEF Types
  <2> QED
      BY <1>2, <2>3 DEF Hosted, HostedHere
<1>4. Hosted(r)
  <2>1. UNCHANGED id2os \/ \E q \in Requests : Destroy(q)
        BY <1>1 DEF Disconnect, CollectRemotes, DestroyNext, maps, Types
  <2> QED
      BY <1>0, <2>1 DEF Hosted
<1>5. PICK i \in Shorts : id2os[i] = r
      BY <1>4 DEF Hosted
<1>6. r # None /\ r \in {id2os[j] : j \in Shorts} \ {None}
      BY <1>5, NoneIsNothing
<1>7. token[r] \in Tokens
      BY <1>2, <1>5 DEF HostedHere, CleanupInv, AnswerInv, PendingInv, IdleHasNothing
<1>8. Lost(r) => Reached(r)
      BY <1>4 DEF CleanupInv
<1>9. CASE Disconnect(t)
  <2>1. CASE token[r] = t
        BY <1>1, <1>3, <1>6, <1>9, <2>1 DEF Disconnect, Reached, HostedBy
  <2>2. CASE token[r] # t
    <3>1. Lost(r)
          BY <1>3, <1>9, <2>2 DEF Disconnect, Lost
    <3> QED
        BY <1>1, <1>3, <1>7, <1>8, <1>9, <2>2, <3>1 DEF Disconnect, Reached
  <2> QED
      BY <2>1, <2>2
<1>10. CASE CollectRemotes(t) \/ DestroyNext(t)
  <2>1. Lost(r)
        BY <1>3, <1>10 DEF CollectRemotes, DestroyNext, Lost
  <2>2. Reached(r)
        BY <1>8, <2>1
  <2>3. CASE token[r] # t
        BY <1>1, <1>3, <1>10, <2>2, <2>3, <1>7 DEF CollectRemotes, DestroyNext, Reached, Types
  <2>4. CASE token[r] = t /\ CollectRemotes(t)
    <3>1. CASE \E q \in {id2os[j] : j \in Shorts} \ {None} : remoteToken[q] = None
          BY <1>6, <2>4, <3>1 DEF CollectRemotes, HostedBy, Reached
    <3>2. CASE \A q \in {id2os[j] : j \in Shorts} \ {None} : remoteToken[q] # None
      <4>1. remoteToken[r] = t
            BY <1>6, <2>4, <3>2 DEF CleanupInv, OwnToken
      <4>2. /\ cleaning' = [cleaning EXCEPT ![t] = "destroy"]
            /\ doomed' = [doomed EXCEPT ![t] =
                   {q \in {id2os[j] : j \in Shorts} \ {None} : remoteToken[q] = t}]
            BY <2>4, <3>2 DEF CollectRemotes
      <4>3. cleaning'[t] = "destroy" /\ r \in doomed'[t]
            BY <1>1, <1>6, <4>1, <4>2 DEF Types
      <4> QED
          BY <1>3, <2>4, <4>3 DEF Reached
    <3> QED
        BY <3>1, <3>2
  <2>5. CASE token[r] = t /\ DestroyNext(t)
    <3>1. r \in stray \/ r \in doomed[t]
          BY <2>2, <2>5 DEF DestroyNext, Reached
    <3>2. CASE r \in stray
          BY <1>3, <2>5, <3>2 DEF DestroyNext, Reached
    <3>3. CASE r \in doomed[t] /\ stray' = stray \cup doomed[t]
          BY <3>3 DEF Reached
    <3>4. ASSUME NEW q \in doomed[t], Destroy(q),
                 doomed' = [doomed EXCEPT ![t] = @ \ {q}], UNCHANGED <<cleaning, stray>>
          PROVE  Reached(r)'
      <4>1. q \in Requests /\ q # r
            BY <1>0, <1>1, <3>4 DEF Types
      <4> QED
          BY <1>1, <1>3, <2>5, <3>1, <3>4, <4>1 DEF DestroyNext, Reached, Types
    <3> QED
        BY <2>5, <3>1, <3>2, <3>3, <3>4 DEF DestroyNext
  <2> QED
      BY <1>10, <2>3, <2>4, <2>5
<1> QED
    BY <1>9, <1>10

LEMMA CleanupStep == CleanupInv /\ [Next]_vars => CleanupInv'
<1> SUFFICES ASSUME CleanupInv, [Next]_vars PROVE CleanupInv'
    OBVIOUS
<1>1. AnswerInv' /\ OwnToken'
      BY AnswerStep, OwnTokenStep DEF CleanupInv
<1> SUFFICES ASSUME NEW r \in Requests, Hosted(r)', Lost(r)'
             PROVE  Reached(r)'
    BY <1>1 DEF CleanupInv
<1>2. Types
      BY TypesHold DEF CleanupInv, AnswerInv, PendingInv
<1>3. HostedHere
      BY DEF CleanupInv, AnswerInv
<1>4. Hosted(r) /\ Lost(r) => Reached(r)
      BY DEF CleanupInv
\* A step that hosts no computer and loses no connection.
<1>5. ASSUME Hosted(r), Lost(r), UNCHANGED <<cleaning, doomed, stray>>, token'[r] = token[r]
      PROVE  Reached(r)'
      BY <1>4, <1>5 DEF Reached
<1> USE DEF client, maps, thread, remote, Goto
<1>6. ASSUME NEW q \in Requests, NEW t \in Tokens, NEW n \in Names, Check(q, t, n)
      PROVE  Reached(r)'
  <2>1. pc[q] = "idle" /\ UNCHANGED <<id2os, conn, online, cleaning, doomed, stray>>
        BY <1>6 DEF Check
  <2>2. Hosted(r)
        BY <2>1 DEF Hosted
  <2>3. r # q
        BY <1>3, <2>1, <2>2 DEF Hosted, HostedHere
  <2>4. CASE UNCHANGED <<token, channel>>
        BY <1>5, <2>1, <2>2, <2>4 DEF Lost
  <2>5. CASE /\ token' = [token EXCEPT ![q] = t]
             /\ channel' = [channel EXCEPT ![q] = conn[t]]
    <3>1. token'[r] = token[r] /\ channel'[r] = channel[r]
          BY <1>2, <2>3, <2>5 DEF Types
    <3> QED
        BY <1>5, <2>1, <2>2, <3>1 DEF Lost
  <2> QED
      BY <1>6, <2>4, <2>5 DEF Check
<1>7. ASSUME NEW q \in Requests, RegisterId(q)
      PROVE  Reached(r)'
  <2>1. /\ UNCHANGED <<token, channel, conn, online, cleaning, doomed>>
        /\ stray' = IF Lost(q) /\ cleaning[token[q]] # "collect"
                    THEN stray \cup {q} ELSE stray
        /\ id2os' = [id2os EXCEPT ![remoteId[q]] = q]
        BY <1>7 DEF RegisterId
  <2>2. Lost(r)
        BY <2>1 DEF Lost
  <2>3. CASE r = q
        BY <2>1, <2>2, <2>3 DEF Reached
  <2>4. CASE r # q
    <3>1. Hosted(r)
          BY <1>2, <2>1, <2>4 DEF Hosted, Types
    <3> QED
        BY <1>4, <2>1, <2>2, <3>1 DEF Reached
  <2> QED
      BY <2>3, <2>4
<1>8. CASE UNCHANGED <<token, channel, conn, online, cleaning, doomed, stray, id2os>>
  <2>1. Hosted(r) /\ Lost(r)
        BY <1>8 DEF Hosted, Lost
  <2> QED
      BY <1>5, <1>8, <2>1
<1>9. ASSUME NEW q \in Requests, ThreadStep(q) \/ TimerStep(q)
      PROVE  Reached(r)'
      BY <1>7, <1>8, <1>9 DEF ThreadStep, PutRequest, CheckFreeId, ReadFreeId, SendRequest,
         LeaveLoop, Decide, CancelTimer, RegisterName, TimerStep, TimerFires, TimerRemoves
<1>10. ASSUME NEW q \in Requests, NEW ok \in BOOLEAN, Answer(q, ok)
       PROVE  Reached(r)'
       BY <1>8, <1>10 DEF Answer
<1>11. ASSUME NEW t \in Tokens, Connect(t)
       PROVE  Reached(r)'
  <2>1. /\ UNCHANGED <<token, channel, id2os, cleaning, doomed, stray>>
        /\ t \notin online /\ online' = online \cup {t}
        /\ conn' = [conn EXCEPT ![t] = connections']
        BY <1>11 DEF Connect
  <2>2. Hosted(r)
        BY <2>1 DEF Hosted
  <2>3. conn \in [Tokens -> 0 .. MaxConn]
        BY DEF CleanupInv, AnswerInv, PendingInv, TypeOK
  <2>4. Lost(r)
        BY <2>1, <2>3 DEF Lost
  <2> QED
      BY <1>5, <2>1, <2>2, <2>4
<1>12. ASSUME NEW t \in Tokens, Disconnect(t) \/ CollectRemotes(t) \/ DestroyNext(t)
       PROVE  Reached(r)'
       BY <1>12, ReachedByCleanup
<1>13. ASSUME NEW n \in Names, Unbind(n)
       PROVE  Reached(r)'
  <2>1. /\ UNCHANGED <<token, channel, conn, online, cleaning, doomed, stray>>
        /\ id2os' = [id2os EXCEPT ![remoteId[FromName(n)]] = None]
        BY <1>13 DEF Unbind, Destroy
  <2>2. Hosted(r) /\ Lost(r)
        BY <1>2, <2>1, NoneIsNothing DEF Hosted, Lost, Types
  <2> QED
      BY <1>5, <2>1, <2>2
<1>14. CASE UNCHANGED vars
       BY <1>8, <1>14 DEF vars
<1> QED
    BY <1>6, <1>9, <1>10, <1>11, <1>12, <1>13, <1>14 DEF Next

\* When the cleanup of a lost connection is over, the computers that stay bound to it
\* are those it came too early for or did not get to (PacketHandler.handleDisconnect).
THEOREM CleanupReaches == Spec => []CleanedUp
<1>1. CleanupInv => CleanedUp
  <2> SUFFICES ASSUME CleanupInv, NEW r \in Requests, Hosted(r), Lost(r),
                      cleaning[token[r]] = "no"
               PROVE  r \in stray
      BY DEF CleanedUp
  <2>1. Reached(r)
        BY DEF CleanupInv
  <2> QED
      BY <2>1 DEF Reached
<1> QED
    BY CleanupInit, CleanupStep, <1>1, PTL DEF Spec

=============================================================================
