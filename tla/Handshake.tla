------------------------------ MODULE Handshake ------------------------------
(***************************************************************************)
(* The handshake of one client channel and its pings (PacketHandler.java). *)
(*                                                                         *)
(* Each handshake packet starts a thread: it offers a key, spins until the *)
(* secret is there or five seconds are over, puts the ciphers into the     *)
(* channel's pipeline, answers, and puts the framing handlers in.  The     *)
(* event loop reads packets, runs the tasks that other threads queue, and  *)
(* ends the channel; a timer pings every 15 seconds.                       *)
(*                                                                         *)
(* Netty (external): a handler that another thread adds is linked at once, *)
(* which a second one of its name finds, but takes part only when a task   *)
(* of the event loop has said so; writes from other threads are tasks too, *)
(* run in order, and meet the handlers that take part by then.             *)
(*                                                                         *)
(* The client (external) turns its ciphers on when it sends its secret and *)
(* its framing when it reads the answer, then connects once; it may repeat *)
(* its handshake and may fall silent.                                      *)
(*                                                                         *)
(* Abstractions: a packet is its kind and form; a key pair, a secret and   *)
(* an Encryption object are named after the thread that made them.  The    *)
(* time between two pings is long: by the next, a client that hears has    *)
(* answered the last.  A second access to a plain field may be stale: the  *)
(* spin may miss a secret and time out.                                    *)
(***************************************************************************)
EXTENDS Integers, Sequences

CONSTANTS Threads, \* handshake threads, one for each handshake packet
          None     \* Java's null, or no map entry

ASSUME NoneAssumption == None \notin Threads /\ None # "empty" /\ "empty" \notin Threads

Ciphers == {"decrypt", "encrypt"}
Handlers == Ciphers \cup {"defrag", "prefixer"}
Kinds == {"handshake", "secret", "connect", "pong",
          "encryption", "answer", "success", "ping", "incompatible", "error"}

VARIABLES
    enableEncryption,
    rsa,             \* the server's pair: None, "empty" until generated, its maker
    pending,         \* pendingEncryptionRequests: the Encryption object, or None
    aes,             \* the Encryption objects whose aes is set
    pc, got,         \* where each thread is, the Encryption it took
    linked, ready,   \* handlers in the pipeline, those of them that take part
    cipher,          \* the Encryption of each cipher handler
    loop,            \* the event loop's queued tasks
    active,          \* whether the channel is open
    toServer, toClient,
    unhandledPings,
    timer,           \* whether the ping timer goes on
    pinged,          \* whether a ping fell into the handshakes under way
    client,          \* the client's own state
    asked,           \* the handshake packets it has sent
    reading,         \* where the event loop is with the secret it reads
    request,         \* the Encryption that it has looked up for it
    past             \* history, see Past

keys == <<rsa, pending, aes>>
threads == <<pc, got>>
fitted == <<linked, cipher>>
pings == <<unhandledPings, timer, pinged>>
peer == <<client, asked>>
secret == <<reading, request>>
vars == <<enableEncryption, keys, threads, fitted, ready, loop, active, toServer,
          toClient, pings, peer, secret, past>>

\* early: the connect packet was read before the pipeline was complete.
\* overlapped: a handshake was read while another was under way.
\* garbled: bytes without a length were read by the framing, which is then lost.
\* lost: pings that one of the sides could not read.  timedOut: dropped by the timer.
Past == [early : BOOLEAN, overlapped : BOOLEAN, garbled : BOOLEAN,
         lost : 0 .. 2, timedOut : BOOLEAN]

Running == {"rsa", "make", "generate", "offer", "publish", "wait", "take", "remove",
            "decrypt", "encrypt", "version", "answer", "defrag", "prefixer"}
Ended == {"unborn", "done", "dead"}

Packet(kind, id) == [kind |-> kind, id |-> id]
Write(kind, id) == [op |-> "write", packet |-> Packet(kind, id)]
Add(h) == [op |-> "add", name |-> h]
Disconnect(reason) == <<Write(reason, None), [op |-> "close"]>>

Init ==
    /\ enableEncryption \in BOOLEAN
    /\ rsa = None
    /\ pending = None
    /\ aes = {}
    /\ pc = [t \in Threads |-> "unborn"]
    /\ got = [t \in Threads |-> None]
    /\ linked = {}
    /\ ready = {}
    /\ cipher = [h \in Ciphers |-> None]
    /\ loop = <<>>
    /\ active = TRUE
    /\ toServer = <<>>
    /\ toClient = <<>>
    /\ unhandledPings = 0
    /\ timer = TRUE
    /\ pinged = FALSE
    /\ client = [crypt |-> FALSE, framed |-> FALSE, online |-> FALSE, deaf |-> FALSE]
    /\ asked = {}
    /\ reading = "idle"
    /\ request = None
    /\ past = [early |-> FALSE, overlapped |-> FALSE, garbled |-> FALSE,
               lost |-> 0, timedOut |-> FALSE]

Min2(n) == IF n > 2 THEN 2 ELSE n

-----------------------------------------------------------------------------
(* A handshake thread.  Tasks for a closed channel come to nothing.        *)

Enqueue(tasks) == loop' = IF active THEN loop \o tasks ELSE loop

Goto(t, where) == pc' = [pc EXCEPT ![t] = where]

\* if(rsa == null)
CheckRsa(t) ==
    /\ pc[t] = "rsa"
    /\ Goto(t, IF rsa = None THEN "make" ELSE "offer")
    /\ UNCHANGED <<keys, got, fitted, loop>>

\* rsa = new Encryption()
MakeRsa(t) ==
    /\ pc[t] = "make"
    /\ Goto(t, "generate")
    /\ rsa' = "empty"
    /\ UNCHANGED <<pending, aes, got, fitted, loop>>

\* rsa.generateRSA()
GenerateRsa(t) ==
    /\ pc[t] = "generate"
    /\ Goto(t, "offer")
    /\ rsa' = t
    /\ UNCHANGED <<pending, aes, got, fitted, loop>>

\* pendingEncryptionRequests.put
OfferEncryption(t) ==
    /\ pc[t] = "offer"
    /\ Goto(t, "publish")
    /\ pending' = t
    /\ UNCHANGED <<rsa, aes, got, fitted, loop>>

\* The public key goes out; a pair that is not generated yet ends the thread.
PublishKey(t) ==
    /\ pc[t] = "publish"
    /\ \/ /\ rsa \in Threads
          /\ Goto(t, "wait")
          /\ Enqueue(<<Write("encryption", rsa)>>)
       \/ /\ rsa \notin Threads
          /\ Goto(t, "dead")
          /\ UNCHANGED loop
    /\ UNCHANGED <<keys, got, fitted>>

\* Slip: the wait does not look for the secret.
AwaitAnything(t) ==
    /\ pc[t] = "wait"
    /\ Goto(t, "take")
    /\ UNCHANGED <<keys, got, fitted, loop>>

\* Slip: the wait has no end of its own.
AwaitForever(t) ==
    /\ pc[t] = "wait"
    /\ \/ /\ pending = None
          /\ Goto(t, "dead")
       \/ /\ pending \in aes
          /\ Goto(t, "take")
    /\ UNCHANGED <<keys, got, fitted, loop>>

\* The spin: no entry is a null pointer, a secret ends it, and so do 5 seconds.
AwaitSecret(t) ==
    /\ pc[t] = "wait"
    /\ \/ /\ pending = None
          /\ Goto(t, "dead")
          /\ UNCHANGED loop
       \/ /\ pending \in aes
          /\ Goto(t, "take")
          /\ UNCHANGED loop
       \/ /\ pending # None
          /\ Goto(t, "done")
          /\ Enqueue(Disconnect("error"))
    /\ UNCHANGED <<keys, got, fitted>>

TakeEncryption(t) ==
    /\ pc[t] = "take"
    /\ Goto(t, "remove")
    /\ got' = [got EXCEPT ![t] = pending]
    /\ UNCHANGED <<keys, fitted, loop>>

\* What the thread does in which order from here on.
AfterFramingFirst ==
    [remove |-> "decrypt", decrypt |-> "encrypt", encrypt |-> "version",
     version |-> "defrag", defrag |-> "prefixer", prefixer |-> "answer",
     answer |-> "done"]

AfterForgetsPrefixer ==
    [remove |-> "decrypt", decrypt |-> "encrypt", encrypt |-> "version",
     version |-> "answer", answer |-> "defrag", defrag |-> "done"]

After ==
    [remove |-> "decrypt", decrypt |-> "encrypt", encrypt |-> "version",
     version |-> "answer", answer |-> "defrag", defrag |-> "prefixer",
     prefixer |-> "done"]

RemoveRequest(t) ==
    /\ pc[t] = "remove"
    /\ Goto(t, After["remove"])
    /\ pending' = None
    /\ UNCHANGED <<rsa, aes, got, fitted, loop>>

\* pipeline.addBefore: a name that is taken, or an anchor that has gone with
\* the channel, is an exception that ends the thread.
AddHandler(t, h) ==
    /\ pc[t] = h
    /\ \/ /\ active
          /\ h \notin linked
          /\ linked' = linked \cup {h}
          /\ cipher' = [k \in Ciphers |-> IF k = h THEN got[t] ELSE cipher[k]]
          /\ Enqueue(<<Add(h)>>)
          /\ Goto(t, After[h])
       \/ /\ ~active \/ h \in linked
          /\ Goto(t, "dead")
          /\ UNCHANGED <<linked, cipher, loop>>
    /\ UNCHANGED <<keys, got>>

\* The packet names the client's version.
CheckVersion(t) ==
    /\ pc[t] = "version"
    /\ \/ /\ Goto(t, After["version"])
          /\ UNCHANGED loop
       \/ /\ Goto(t, "done")
          /\ Enqueue(Disconnect("incompatible"))
    /\ UNCHANGED <<keys, got, fitted>>

WriteAnswer(t) ==
    /\ pc[t] = "answer"
    /\ Goto(t, After["answer"])
    /\ Enqueue(<<Write("answer", None)>>)
    /\ UNCHANGED <<keys, got, fitted>>

HandshakeStep(t) ==
    /\ \/ CheckRsa(t) \/ MakeRsa(t) \/ GenerateRsa(t)
       \/ OfferEncryption(t) \/ PublishKey(t) \/ AwaitSecret(t)
       \/ TakeEncryption(t) \/ RemoveRequest(t)
       \/ \E h \in Handlers : AddHandler(t, h)
       \/ CheckVersion(t) \/ WriteAnswer(t)
    /\ UNCHANGED <<enableEncryption, ready, active, toServer, toClient, pings, peer,
                   secret, past>>

-----------------------------------------------------------------------------
(* The event loop: queued tasks, the end of the channel, packets read.     *)

\* The form a packet takes when it is written now.  A cipher without a key
\* fails, and the packet is not sent.
Sent(p) ==
    IF "encrypt" \in ready /\ cipher["encrypt"] \notin aes THEN <<>>
    ELSE << [kind |-> p.kind, id |-> p.id, crypt |-> "encrypt" \in ready,
             framed |-> "prefixer" \in ready] >>

\* Its first use makes the cipher of an Encryption object: without a key then, it
\* has none later either.
Used == [cipher EXCEPT !["encrypt"] =
            IF "encrypt" \in ready /\ @ \notin aes THEN None ELSE @]

\* channelInactive: the entry that is pending goes, and the pipeline with it.
Close ==
    /\ active' = FALSE
    /\ pending' = None
    /\ linked' = {}
    /\ ready' = {}
    /\ loop' = <<>>
    /\ toServer' = <<>>
    /\ UNCHANGED <<aes, cipher, threads>>

\* The client leaves or the connection breaks.
DropChannel ==
    /\ active
    /\ reading = "idle"
    /\ Close
    /\ toClient' = <<>>
    /\ UNCHANGED <<enableEncryption, rsa, pings, peer, secret, past>>

RunTask ==
    /\ loop # <<>>
    /\ \/ /\ Head(loop).op = "add"
          /\ ready' = ready \cup {Head(loop).name}
          /\ loop' = Tail(loop)
          /\ UNCHANGED <<keys, threads, fitted, active, toServer, toClient, pings, past>>
       \/ /\ Head(loop).op = "write"
          /\ toClient' = toClient \o Sent(Head(loop).packet)
          /\ cipher' = Used
          /\ loop' = Tail(loop)
          /\ past' = [past EXCEPT !.lost =
                        IF Head(loop).packet.kind = "ping" /\ Sent(Head(loop).packet) = <<>>
                        THEN Min2(@ + 1) ELSE @]
          /\ UNCHANGED <<keys, threads, linked, ready, active, toServer, pings>>
       \/ /\ Head(loop).op = "close"
          /\ Close
          /\ UNCHANGED <<toClient, pings, past>>

\* Disconnected by a handler of the channel, or by ExceptionHandler.
Refuse ==
    /\ Close
    /\ toClient' = toClient \o Sent(Packet("error", None))
    /\ UNCHANGED <<pings, past>>

\* What the pipeline makes sense of as it is now.
Keyless == "decrypt" \in ready /\ cipher["decrypt"] \notin aes

Legible(p) ==
    /\ ~past.garbled
    /\ p.framed = ("defrag" \in ready)
    /\ p.crypt = ("decrypt" \in ready)
    /\ ~Keyless

Finds(kind) ==
    /\ active
    /\ toServer # <<>>
    /\ Legible(Head(toServer))
    /\ Head(toServer).kind = kind

Reads(kind) == Finds(kind) /\ toServer' = Tail(toServer)

UnderWay == \E t \in Threads : pc[t] \in Running

\* handleHandshakeC2S starts a thread.
ReadHandshake ==
    /\ Reads("handshake")
    /\ Goto(Head(toServer).id, IF enableEncryption THEN "rsa" ELSE "version")
    /\ past' = [past EXCEPT !.overlapped = @ \/ UnderWay]
    /\ pinged' = (pinged /\ UnderWay)
    /\ UNCHANGED <<keys, got, fitted, ready, loop, active, toClient, unhandledPings,
                   timer>>

\* handleEncryptionC2S looks for a request,
FindRequest ==
    /\ reading = "idle"
    /\ \/ /\ Reads("secret")
          /\ pending = None
          /\ UNCHANGED secret
       \/ /\ Finds("secret")
          /\ pending # None
          /\ reading' = "found"
          /\ UNCHANGED <<request, toServer>>
    /\ UNCHANGED <<pending, aes, threads, fitted, ready, loop, active, toClient, pings,
                   past>>

\* gets it, if no thread has removed it since,
GetRequest ==
    /\ reading = "found"
    /\ reading' = "got"
    /\ request' = pending
    /\ UNCHANGED <<pending, aes, threads, fitted, ready, loop, active, toServer, toClient,
                   pings, past>>

\* and gives it the key.  No request is an exception, and so is a secret that was
\* encrypted for another pair.
InitAES ==
    /\ reading = "got"
    /\ \/ /\ Reads("secret")
          /\ request # None
          /\ Head(toServer).id = rsa
          /\ aes' = aes \cup {request}
          /\ UNCHANGED <<pending, threads, fitted, ready, loop, active, toClient, pings,
                         past>>
       \/ /\ Finds("secret")
          /\ request = None \/ Head(toServer).id # rsa
          /\ Refuse
    /\ reading' = "idle"
    /\ request' = None

ReadSecret == FindRequest \/ GetRequest \/ InitAES

\* The pipeline is complete: the threads have ended, their tasks have run.
Settled == loop = <<>> /\ \A t \in Threads : pc[t] \in Ended

\* handleConnectC2S: the token is bound and the answer written, or the token is
\* not valid or its player gone, which is an exception.
ReadConnect ==
    \/ /\ Reads("connect")
       /\ toClient' = toClient \o Sent(Packet("success", None))
       /\ cipher' = Used
       /\ past' = [past EXCEPT !.early = @ \/ ~Settled]
       /\ UNCHANGED <<keys, threads, linked, ready, loop, active, pings>>
    \/ /\ Finds("connect")
       /\ Refuse

\* Slip: a pong in time changes nothing.
ReadPongOnly ==
    /\ Reads("pong")
    /\ UNCHANGED <<keys, threads, fitted, ready, loop, active, toClient, pings, past>>

\* handlePongC2S: a pong of more than a second ends the channel.
ReadPong ==
    \/ /\ Reads("pong")
       /\ unhandledPings' = unhandledPings - 1
       /\ UNCHANGED <<keys, threads, fitted, ready, loop, active, toClient, timer,
                      pinged, past>>
    \/ /\ Finds("pong")
       /\ Refuse

\* The decoder drops what it cannot read.  Bytes that have no length may cost
\* the framing its place in the stream, and with it all that follows, or be an
\* exception, as a cipher without its key is.
Unframed == ~Head(toServer).framed /\ "defrag" \in ready

Misread ==
    /\ active
    /\ toServer # <<>>
    /\ ~Legible(Head(toServer))
    /\ \/ /\ ~Keyless
          /\ toServer' = Tail(toServer)
          /\ \E garbled \in {past.garbled, past.garbled \/ Unframed} :
              past' = [past EXCEPT
                !.garbled = garbled,
                !.early = @ \/ (Head(toServer).kind = "connect" /\ ~Settled),
                !.lost = IF Head(toServer).kind = "pong" THEN Min2(@ + 1) ELSE @]
          /\ UNCHANGED <<keys, threads, fitted, ready, loop, active, toClient, pings>>
       \/ /\ Keyless \/ Unframed \/ past.garbled
          /\ Refuse

LoopStep ==
    /\ \/ /\ reading = "idle"
          /\ \/ RunTask
             \/ ReadHandshake \/ ReadConnect \/ ReadPong \/ Misread
          /\ UNCHANGED secret
       \/ ReadSecret
    /\ UNCHANGED <<enableEncryption, rsa, peer>>

-----------------------------------------------------------------------------
(* The timer.                                                              *)

IsTask(x, kind) == x.op = "write" /\ x.packet.kind = kind

\* Bound: no ping falls into two handshakes at once.
Crowded == \E t, u \in Threads : t # u /\ pc[t] \in Running /\ pc[u] \in Running

\* Fifteen seconds have passed: the last ping is out, and what a client that
\* hears was sent or has sent has arrived; handshakes, of five seconds each,
\* meet one ping at most.  Bound: of what has just been sent, a ping meets the
\* packets of the handshake only.
Opening == {"handshake", "encryption", "secret", "answer"}

Rested ==
    /\ ~(pinged /\ UnderWay)
    /\ ~Crowded
    /\ \A i \in 1 .. Len(loop) : ~IsTask(loop[i], "ping")
    /\ \/ client.deaf
       \/ /\ \A i \in 1 .. Len(toClient) : toClient[i].kind \in Opening
          /\ \A i \in 1 .. Len(toServer) : toServer[i].kind \in Opening

\* Slip: the timer never gives a client up.
TickPingsOn ==
    /\ timer
    /\ Rested
    /\ active
    /\ unhandledPings' = unhandledPings + 1
    /\ Enqueue(<<Write("ping", None)>>)
    /\ pinged' = UnderWay
    /\ UNCHANGED <<enableEncryption, keys, threads, fitted, ready, active, toServer,
                   toClient, timer, peer, secret, past>>

\* Slip: the timer does not count its pings.
TickUncounted ==
    /\ timer
    /\ Rested
    /\ active
    /\ Enqueue(<<Write("ping", None)>>)
    /\ pinged' = UnderWay
    /\ UNCHANGED <<enableEncryption, keys, threads, fitted, ready, active, toServer,
                   toClient, unhandledPings, timer, peer, secret, past>>

\* TimerTask.run.  Its count does not meet that of a pong: a pong is counted within
\* a second of its ping, and the next ping comes fifteen seconds after.
Tick ==
    /\ timer
    /\ Rested
    /\ \/ /\ ~active
          /\ timer' = FALSE
          /\ UNCHANGED <<unhandledPings, loop, past>>
       \/ /\ active
          /\ unhandledPings >= 2
          /\ timer' = FALSE
          /\ Enqueue(Disconnect("error"))
          /\ past' = [past EXCEPT !.timedOut = TRUE]
          /\ UNCHANGED unhandledPings
       \/ /\ active
          /\ unhandledPings < 2
          /\ unhandledPings' = unhandledPings + 1
          /\ Enqueue(<<Write("ping", None)>>)
          /\ UNCHANGED <<timer, past>>
    /\ pinged' = UnderWay
    /\ UNCHANGED <<enableEncryption, keys, threads, fitted, ready, active, toServer,
                   toClient, peer, secret>>

-----------------------------------------------------------------------------
(* The client.                                                             *)

InForm(kind, id) ==
    [kind |-> kind, id |-> id, crypt |-> client.crypt, framed |-> client.framed]

\* The client has sent its handshake again.
Repeated == \E t, u \in asked : t # u

Send(p) == toServer' = IF active THEN Append(toServer, p) ELSE toServer

ClientHandshake(t) ==
    /\ active
    /\ ~client.deaf
    /\ t \notin asked
    /\ asked' = asked \cup {t}
    /\ Send(InForm("handshake", t))
    /\ UNCHANGED <<toClient, client, past>>

ClientLegible(p) == p.crypt = client.crypt /\ p.framed = client.framed

Gets(kind) ==
    /\ ~client.deaf
    /\ toClient # <<>>
    /\ ClientLegible(Head(toClient))
    /\ Head(toClient).kind = kind
    /\ toClient' = Tail(toClient)
    /\ UNCHANGED asked

\* The secret still goes out in the form of before.
ClientGetsKey ==
    /\ Gets("encryption")
    /\ Send(InForm("secret", Head(toClient).id))
    /\ client' = [client EXCEPT !.crypt = TRUE]
    /\ UNCHANGED past

ClientGetsAnswer ==
    /\ Gets("answer")
    /\ client' = [client EXCEPT !.framed = TRUE]
    /\ IF client.framed
       THEN UNCHANGED toServer
       ELSE Send([InForm("connect", None) EXCEPT !.framed = TRUE])
    /\ UNCHANGED past

ClientGetsPing ==
    /\ Gets("ping")
    /\ Send(InForm("pong", None))
    /\ UNCHANGED <<client, past>>

ClientGetsOther ==
    /\ \/ /\ Gets("success")
          /\ client' = [client EXCEPT !.online = TRUE]
       \/ /\ Gets("incompatible") \/ Gets("error")
          /\ UNCHANGED client
    /\ UNCHANGED <<toServer, past>>

\* A packet in another form; one without a length may cost the client the rest.
ClientMisreads ==
    /\ ~client.deaf
    /\ toClient # <<>>
    /\ ~ClientLegible(Head(toClient))
    /\ toClient' = Tail(toClient)
    /\ \E deaf \in BOOLEAN :
        /\ deaf => client.framed
        /\ client' = [client EXCEPT !.deaf = deaf]
    /\ past' = [past EXCEPT !.lost = IF Head(toClient).kind = "ping" THEN Min2(@ + 1) ELSE @]
    /\ UNCHANGED <<toServer, asked>>

\* Bound: it has sent one handshake at most.
ClientFallsSilent ==
    /\ active
    /\ ~Repeated
    /\ ~client.deaf
    /\ client' = [client EXCEPT !.deaf = TRUE]
    /\ UNCHANGED <<toServer, toClient, asked, past>>

ClientOnly ==
    UNCHANGED <<enableEncryption, keys, threads, fitted, ready, loop, active, pings,
                secret>>

ClientReads ==
    /\ \/ ClientGetsKey \/ ClientGetsAnswer \/ ClientGetsPing \/ ClientGetsOther
       \/ ClientMisreads
    /\ ClientOnly

ClientActs ==
    /\ ClientFallsSilent \/ \E t \in Threads : ClientHandshake(t)
    /\ ClientOnly

Next ==
    \/ \E t \in Threads : HandshakeStep(t)
    \/ LoopStep \/ DropChannel
    \/ Tick
    \/ ClientReads \/ ClientActs

\* Threads, event loop and timer are scheduled, and a client that hears goes on;
\* nobody has to start a handshake, leave or fall silent.
Fairness ==
    /\ \A t \in Threads : WF_vars(HandshakeStep(t))
    /\ WF_vars(LoopStep)
    /\ WF_vars(Tick)
    /\ WF_vars(ClientReads)

Spec == Init /\ [][Next]_vars /\ Fairness

-----------------------------------------------------------------------------

Ids == Threads \cup {None}
Packets == [kind : Kinds, id : Ids]
Messages == [kind : Kinds, id : Ids, crypt : BOOLEAN, framed : BOOLEAN]
Tasks == [op : {"write"}, packet : Packets] \cup [op : {"add"}, name : Handlers]
         \cup [op : {"close"}]

\* Type correctness; no client is sent a third ping while two are unanswered.
TypeOK ==
    /\ enableEncryption \in BOOLEAN
    /\ rsa \in Ids \cup {"empty"}
    /\ pending \in Ids
    /\ aes \subseteq Threads
    /\ pc \in [Threads -> Running \cup Ended]
    /\ got \in [Threads -> Ids]
    /\ linked \subseteq Handlers
    /\ ready \subseteq Handlers
    /\ cipher \in [Ciphers -> Ids]
    /\ loop \in Seq(Tasks)
    /\ active \in BOOLEAN
    /\ toServer \in Seq(Messages)
    /\ toClient \in Seq(Messages)
    /\ unhandledPings \in 0 .. 2
    /\ timer \in BOOLEAN
    /\ pinged \in BOOLEAN
    /\ client \in [crypt : BOOLEAN, framed : BOOLEAN, online : BOOLEAN, deaf : BOOLEAN]
    /\ asked \subseteq Threads
    /\ reading \in {"idle", "found", "got"}
    /\ request \in Ids
    /\ past \in Past

\* A cipher is in the pipeline only with the client's key, unless a handshake
\* came while another was under way (PacketHandler lines 82 to 94).
CipherHasKey ==
    ~past.overlapped => \A h \in Ciphers \cap linked : cipher[h] \in aes

\* The client can read what the handshake sends it, the refusal of its version
\* included: the ciphers are in before the answer, the framing only after it.
\* A client that repeats its handshake may be sent what it cannot read.
HandshakeLegible ==
    toClient # <<>> /\ Head(toClient).kind \in {"encryption", "answer", "incompatible"}
        => ClientLegible(Head(toClient)) \/ Repeated

\* Once the handshakes are over, a client that has read an answer and its channel
\* write the same form: the framing is in, and the ciphers where the client has its
\* own on, whichever thread put each of them in.
FormsAgree ==
    active /\ Settled /\ client.framed =>
        ready = IF client.crypt THEN Handlers ELSE Handlers \ Ciphers

\* The timer drops nobody whose pings and pongs got through, but for two.
DroppedForSilence ==
    past.timedOut => client.deaf \/ past.lost = 2

\* Every handshake thread ends, whatever the client and other threads do.
ThreadsEnd == \A t \in Threads : pc[t] \in Running ~> pc[t] \in Ended

\* A client that cannot hear, or be heard, is dropped.
SilentIsDropped == client.deaf \/ past.garbled ~> ~active

\* A client with one handshake gets online once it has read the answer, if its
\* channel lasts, and is not left to the timer; a connect packet that comes
\* before the framing is in may be lost (line 108), a pong that was sent just
\* before it was may cost the framing its place.
Connects ==
    client.framed ~>
        \/ client.online \/ client.deaf \/ past.garbled \/ past.early \/ Repeated
        \/ ~active /\ ~past.timedOut
=============================================================================
