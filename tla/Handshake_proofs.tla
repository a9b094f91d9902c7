--------------------------- MODULE Handshake_proofs ---------------------------
(***************************************************************************)
(* Proofs about Handshake, for any number of handshakes of one channel:    *)
(* the keys of the ciphers, the count of the pings, the form of what the   *)
(* client of one handshake is sent, and that of both sides when the        *)
(* handshakes are over.  All but the first depend on what the queues       *)
(* between the threads, the event loop and the client hold, and in which   *)
(* order.                                                                  *)
(***************************************************************************)
EXTENDS Handshake, SequenceTheorems, TLAPS

-----------------------------------------------------------------------------
(* What the queues hold.                                                   *)

\* A member of S is in the queue,
Has(s, S) == \E i \in 1 .. Len(s) : s[i] \in S

\* one at most,
One(s, S) == \A i, j \in 1 .. Len(s) : s[i] \in S /\ s[j] \in S => i = j

\* none without an a before it,
Led(s, S, a) == \A i \in 1 .. Len(s) : s[i] \in S => \E j \in 1 .. i - 1 : s[j] = a

\* none behind an a.
Clear(s, S, a) == \A i, j \in 1 .. Len(s) : s[i] \in S /\ s[j] = a => i < j

\* What is known of t, which is s with x at its end, and
Joined(t, s, x) ==
    /\ \A S : Has(t, S) <=> Has(s, S) \/ x \in S
    /\ \A S : One(s, S) /\ ~(Has(s, S) /\ x \in S) => One(t, S)
    /\ \A S, a : Led(s, S, a) /\ (x \in S => Has(s, {a})) => Led(t, S, a)
    /\ \A S, a : Clear(s, S, a) /\ (x \in S => ~Has(s, {a}) /\ x # a) => Clear(t, S, a)

\* of t, which is s without the x at its head.
Left(t, s, x) ==
    /\ \A S : Has(s, S) <=> x \in S \/ Has(t, S)
    /\ \A S : One(s, S) => One(t, S) /\ (x \in S => ~Has(t, S))
    /\ \A S, a : Led(s, S, a) => x \notin S /\ (Led(t, S, a) \/ x = a)
    /\ \A S, a : Clear(s, S, a) => Clear(t, S, a) /\ (x = a => ~Has(s, S))

LEMMA EmptyQueue ==
    \A S, a : ~Has(<<>>, S) /\ One(<<>>, S) /\ Led(<<>>, S, a) /\ Clear(<<>>, S, a)
BY DEF Has, One, Led, Clear

LEMMA AppendQueue ==
    ASSUME NEW T, NEW s \in Seq(T), NEW x \in T, NEW t, t = Append(s, x)
    PROVE  t \in Seq(T) /\ Joined(t, s, x)
<1>1. /\ t \in Seq(T) /\ Len(t) = Len(s) + 1 /\ Len(s) \in Nat
      /\ t[Len(s) + 1] = x
      /\ \A i \in 1 .. Len(s) : t[i] = s[i]
      BY AppendProperties, LenProperties
<1>2. \A i \in 1 .. Len(t) : i \in 1 .. Len(s) \/ i = Len(t)
      BY <1>1
<1>3. Len(t) \in 1 .. Len(t) /\ \A i \in 1 .. Len(s) : i \in 1 .. Len(t) /\ i < Len(t)
      BY <1>1
<1>4. \A S : Has(t, S) <=> Has(s, S) \/ x \in S
      BY <1>1, <1>2, <1>3 DEF Has
<1>5. \A S : One(s, S) /\ ~(Has(s, S) /\ x \in S) => One(t, S)
      BY <1>1, <1>2, <1>3 DEF Has, One
<1>6. ASSUME NEW S, NEW a, Led(s, S, a), x \in S => Has(s, {a})
      PROVE  Led(t, S, a)
  <2> SUFFICES ASSUME NEW i \in 1 .. Len(t), t[i] \in S
               PROVE  \E j \in 1 .. i - 1 : t[j] = a
      BY DEF Led
  <2>1. CASE i \in 1 .. Len(s)
    <3>1. PICK j \in 1 .. i - 1 : s[j] = a
          BY <1>1, <1>6, <2>1 DEF Led
    <3> QED
        BY <1>1, <2>1, <3>1
  <2>2. CASE i = Len(t)
    <3>1. PICK j \in 1 .. Len(s) : s[j] = a
          BY <1>1, <1>6, <2>2 DEF Has
    <3> QED
        BY <1>1, <2>2, <3>1
  <2> QED
      BY <1>2, <2>1, <2>2
<1>7. ASSUME NEW S, NEW a, Clear(s, S, a), x \in S => ~Has(s, {a}) /\ x # a
      PROVE  Clear(t, S, a)
  <2> SUFFICES ASSUME NEW i \in 1 .. Len(t), NEW j \in 1 .. Len(t), t[i] \in S, t[j] = a
               PROVE  i < j
      BY DEF Clear
  <2>1. CASE i \in 1 .. Len(s)
        BY <1>1, <1>2, <1>3, <1>7, <2>1 DEF Clear
  <2>2. CASE i = Len(t)
        BY <1>1, <1>2, <1>3, <1>7, <2>2 DEF Has
  <2> QED
      BY <1>2, <2>1, <2>2
<1> QED
    BY <1>1, <1>4, <1>5, <1>6, <1>7 DEF Joined

LEMMA TailQueue ==
    ASSUME NEW T, NEW s \in Seq(T), s # <<>>, NEW t, t = Tail(s), NEW x, x = Head(s)
    PROVE  t \in Seq(T) /\ x \in T /\ Left(t, s, x)
<1>1. /\ t \in Seq(T) /\ x \in T /\ Len(t) = Len(s) - 1 /\ Len(s) \in Nat \ {0}
      /\ \A i \in 1 .. Len(t) : t[i] = s[i + 1]
      /\ x = s[1]
      BY HeadTailProperties, LenProperties, EmptySeq
<1>2. \A i \in 1 .. Len(s) : i = 1 \/ (i - 1 \in 1 .. Len(t) /\ s[i] = t[i - 1])
  <2> SUFFICES ASSUME NEW i \in 1 .. Len(s), i # 1
               PROVE  i - 1 \in 1 .. Len(t) /\ s[i] = t[i - 1]
      OBVIOUS
  <2>1. i - 1 \in 1 .. Len(t) /\ (i - 1) + 1 = i
        BY <1>1
  <2> QED
      BY <1>1, <2>1
<1>3. /\ 1 \in 1 .. Len(s)
      /\ \A i \in 1 .. Len(t) : i \in Nat /\ i + 1 \in 1 .. Len(s) /\ i + 1 # 1
      BY <1>1
<1>4. \A S : Has(s, S) <=> x \in S \/ Has(t, S)
      BY <1>1, <1>2, <1>3 DEF Has
<1>5. ASSUME NEW S, One(s, S)
      PROVE  One(t, S) /\ (x \in S => ~Has(t, S))
  <2>1. \A i, j \in 1 .. Len(t) : i + 1 = j + 1 => i = j
        BY <1>1
  <2> QED
      BY <1>1, <1>3, <1>5, <2>1 DEF One, Has
<1>6. ASSUME NEW S, NEW a, Led(s, S, a)
      PROVE  x \notin S /\ (Led(t, S, a) \/ x = a)
  <2>1. x \notin S
        BY <1>1, <1>3, <1>6 DEF Led
  <2>2. ASSUME x # a, NEW i \in 1 .. Len(t), t[i] \in S
        PROVE  \E j \in 1 .. i - 1 : t[j] = a
    <3>1. PICK j \in 1 .. i : s[j] = a
          BY <1>1, <1>3, <1>6, <2>2 DEF Led
    <3>2. j # 1 /\ j \in 1 .. Len(s)
          BY <1>1, <2>2, <3>1
    <3>3. t[j - 1] = a
          BY <1>2, <3>1, <3>2
    <3>4. j - 1 \in 1 .. i - 1
          BY <1>3, <3>1, <3>2
    <3> QED
        BY <3>3, <3>4
  <2> QED
      BY <2>1, <2>2 DEF Led
<1>7. ASSUME NEW S, NEW a, Clear(s, S, a)
      PROVE  Clear(t, S, a) /\ (x = a => ~Has(s, S))
  <2>1. ASSUME NEW i \in 1 .. Len(t), NEW j \in 1 .. Len(t), t[i] \in S, t[j] = a
        PROVE  i < j
    <3>1. i + 1 < j + 1
          BY <1>1, <1>3, <1>7, <2>1 DEF Clear
    <3> QED
        BY <1>3, <3>1
  <2>2. ASSUME x = a, NEW i \in 1 .. Len(s), s[i] \in S PROVE FALSE
        BY <1>1, <1>3, <1>7, <2>2 DEF Clear
  <2> QED
      BY <2>1, <2>2 DEF Clear, Has
<1> QED
    BY <1>1, <1>4, <1>5, <1>6, <1>7 DEF Left

LEMMA Pair == ASSUME NEW a, NEW b PROVE <<a>> \o <<b>> = <<a, b>>
<1> DEFINE T == {a, b}
<1>1. <<a>> \in Seq(T) /\ b \in T /\ <<a, b>> \in Seq(T) /\ Len(<<a>>) = 1
      OBVIOUS
<1>2. <<a>> \o <<b>> = Append(<<a>>, b)
      BY <1>1, AppendIsConcat
<1>3. /\ Append(<<a>>, b) \in Seq(T) /\ Len(Append(<<a>>, b)) = 2
      /\ \A i \in 1 .. 2 : Append(<<a>>, b)[i] = <<a, b>>[i]
  <2> HIDE DEF T
  <2>1. /\ Append(<<a>>, b) \in Seq(T) /\ Len(Append(<<a>>, b)) = Len(<<a>>) + 1
        /\ \A i \in 1 .. Len(<<a>>) : Append(<<a>>, b)[i] = <<a>>[i]
        /\ Append(<<a>>, b)[Len(<<a>>) + 1] = b
        BY <1>1, AppendProperties
  <2>2. Append(<<a>>, b)[1] = a /\ Append(<<a>>, b)[2] = b
        BY <1>1, <2>1
  <2> QED
      BY <1>1, <2>1, <2>2
<1> QED
    BY <1>1, <1>2, <1>3, SeqEqual

LEMMA EmptySeqs == \A T : <<>> \in Seq(T)
BY EmptySeq

-----------------------------------------------------------------------------
(* Types.                                                                  *)

\* TypeOK but for the bounds of the ping count.
Types ==
    /\ enableEncryption \in BOOLEAN
    /\ rsa \in Ids \cup {"empty"}
    /\ pending \in Ids
    /\ aes \subseteq Threads
    /\ pc \in [Threads -> Running \cup Ended]
    /\ got \in [Threads -> Ids]
    /\ linked \subseteq Handlers
    /\ ready \subseteq Handlers
    /\ cipher \in [Ciphers -> Ids]
    /\ loop \in Seq(Tasks)
    /\ active \in BOOLEAN
    /\ toServer \in Seq(Messages)
    /\ toClient \in Seq(Messages)
    /\ unhandledPings \in Int
    /\ timer \in BOOLEAN
    /\ pinged \in BOOLEAN
    /\ client \in [crypt : BOOLEAN, framed : BOOLEAN, online : BOOLEAN, deaf : BOOLEAN]
    /\ asked \subseteq Threads
    /\ reading \in {"idle", "found", "got"}
    /\ request \in Ids
    /\ past \in Past

-----------------------------------------------------------------------------
(* What goes into the queues.                                              *)

Closing == [op |-> "close"]

LEMMA TaskTypes ==
    /\ \A kind \in Kinds, id \in Ids : Write(kind, id) \in Tasks /\ Packet(kind, id) \in Packets
    /\ \A h \in Handlers : Add(h) \in Tasks
    /\ Closing \in Tasks
    /\ \A x \in Tasks : x.op = "write" => x.packet \in Packets
    /\ \A x \in Tasks : x.op = "add" => x.name \in Handlers
BY DEF Write, Packet, Add, Closing, Tasks, Packets

LEMMA Enqueued ==
    ASSUME loop \in Seq(Tasks), NEW x \in Tasks, Enqueue(<<x>>)
    PROVE  loop' = IF active THEN Append(loop, x) ELSE loop
<1>1. Append(loop, x) = loop \o <<x>>
      BY AppendIsConcat
<1> QED
    BY <1>1 DEF Enqueue

LEMMA EnqueuedEnd ==
    ASSUME loop \in Seq(Tasks), NEW reason \in Kinds, Enqueue(Disconnect(reason))
    PROVE  loop' = IF active THEN Append(Append(loop, Write(reason, None)), Closing) ELSE loop
<1> DEFINE w == Write(reason, None)
<1>1. w \in Tasks /\ Closing \in Tasks
      BY TaskTypes DEF Ids
<1>2. Append(loop, w) = loop \o <<w>> /\ Append(loop, w) \in Seq(Tasks)
      BY <1>1, AppendIsConcat, AppendProperties
<1>3. Append(Append(loop, w), Closing) = Append(loop, w) \o <<Closing>>
      BY <1>1, <1>2, AppendIsConcat
<1>4. (loop \o <<w>>) \o <<Closing>> = loop \o (<<w>> \o <<Closing>>)
      BY <1>1, ConcatAssociative
<1>5. <<w>> \o <<Closing>> = <<w, Closing>>
      BY Pair
<1> QED
    BY <1>2, <1>3, <1>4, <1>5 DEF Enqueue, Disconnect, Closing

\* The packet that a write puts on the wire, if any.
OnWire(p) == [kind |-> p.kind, id |-> p.id, crypt |-> "encrypt" \in ready,
              framed |-> "prefixer" \in ready]

LEMMA Written ==
    ASSUME toClient \in Seq(Messages), NEW p \in Packets, toClient' = toClient \o Sent(p)
    PROVE  /\ OnWire(p) \in Messages
           /\ \/ Sent(p) = <<>> /\ toClient' = toClient
              \/ Sent(p) # <<>> /\ toClient' = Append(toClient, OnWire(p))
<1>1. OnWire(p) \in Messages
      BY DEF OnWire, Messages, Packets
<1>2. CASE Sent(p) = <<>>
      BY <1>1, <1>2, ConcatEmptySeq
<1>3. CASE Sent(p) # <<>>
  <2>1. Sent(p) = <<OnWire(p)>>
        BY <1>3 DEF Sent, OnWire
  <2>2. <<OnWire(p)>> # <<>>
        OBVIOUS
  <2> QED
      BY <1>1, <1>3, <2>1, AppendIsConcat
<1> QED
    BY <1>2, <1>3

LEMMA TypesInit == Init => Types
<1> SUFFICES ASSUME Init PROVE Types
    OBVIOUS
<1>1. /\ loop \in Seq(Tasks) /\ toServer \in Seq(Messages) /\ toClient \in Seq(Messages)
      BY EmptySeqs DEF Init
<1>2. /\ pc \in [Threads -> Running \cup Ended] /\ got \in [Threads -> Ids]
      /\ cipher \in [Ciphers -> Ids] /\ past \in Past
      BY DEF Init, Ids, Past, Ended
<1>3. client \in [crypt : BOOLEAN, framed : BOOLEAN, online : BOOLEAN, deaf : BOOLEAN]
      BY DEF Init
<1>4. /\ enableEncryption \in BOOLEAN
      /\ active \in BOOLEAN /\ timer \in BOOLEAN /\ pinged \in BOOLEAN
      BY DEF Init
<1>5. /\ rsa \in Ids \cup {"empty"} /\ pending \in Ids
      /\ aes \subseteq Threads /\ linked \subseteq Handlers /\ ready \subseteq Handlers
      /\ unhandledPings \in Int /\ asked \subseteq Threads
      /\ reading \in {"idle", "found", "got"} /\ request \in Ids
      BY DEF Init, Ids
<1> QED
    BY <1>1, <1>2, <1>3, <1>4, <1>5 DEF Types

\* The steps of a handshake thread.
LEMMA TypesThread ==
    ASSUME Types, NEW t \in Threads, HandshakeStep(t) PROVE Types'
<1> USE DEF keys, fitted, threads, pings, peer, secret, Goto
<1>1. loop \in Seq(Tasks) /\ pc \in [Threads -> Running \cup Ended] /\ None \in Ids /\ t \in Ids
      BY DEF Types, Ids
<1>2. UNCHANGED <<enableEncryption, ready, active, toServer, toClient, pings, peer, secret,
                  past>>
      BY DEF HandshakeStep
<1>3. ASSUME NEW step \in Running \cup Ended, pc' = [pc EXCEPT ![t] = step],
             loop' \in Seq(Tasks), rsa' \in Ids \cup {"empty"}, pending' \in Ids,
             aes' = aes, got' \in [Threads -> Ids], linked' \subseteq Handlers,
             cipher' \in [Ciphers -> Ids]
      PROVE  Types'
  <2>1. pc' \in [Threads -> Running \cup Ended]
        BY <1>1, <1>3
  <2> QED
      BY <1>2, <1>3, <2>1 DEF Types
<1>4. ASSUME NEW x \in Tasks, Enqueue(<<x>>) PROVE loop' \in Seq(Tasks)
      BY <1>1, <1>4, Enqueued, AppendProperties
<1>5. ASSUME NEW reason \in Kinds, Enqueue(Disconnect(reason)) PROVE loop' \in Seq(Tasks)
  <2>1. Write(reason, None) \in Tasks /\ Closing \in Tasks
        BY <1>1, TaskTypes
  <2>2. Append(loop, Write(reason, None)) \in Seq(Tasks)
        BY <1>1, <2>1, AppendProperties
  <2>3. Append(Append(loop, Write(reason, None)), Closing) \in Seq(Tasks)
        BY <2>1, <2>2, AppendProperties
  <2> QED
      BY <1>1, <1>5, <2>3, EnqueuedEnd
<1>6. CASE CheckRsa(t) \/ MakeRsa(t) \/ GenerateRsa(t) \/ OfferEncryption(t) \/ RemoveRequest(t)
      BY <1>1, <1>3, <1>6 DEF CheckRsa, MakeRsa, GenerateRsa, OfferEncryption, RemoveRequest,
         After, Types, Running
<1>7. CASE PublishKey(t)
  <2>1. CASE rsa \in Threads
    <3>1. Write("encryption", rsa) \in Tasks
          BY <2>1, TaskTypes DEF Ids, Kinds
    <3> QED
        BY <1>3, <1>4, <1>7, <2>1, <3>1 DEF PublishKey, Types, Running
  <2>2. CASE rsa \notin Threads
        BY <1>3, <1>7, <2>2 DEF PublishKey, Types, Ended
  <2> QED
      BY <2>1, <2>2
<1>8. CASE AwaitSecret(t)
  <2>1. "error" \in Kinds
        BY DEF Kinds
  <2>2. loop' \in Seq(Tasks)
        BY <1>1, <1>5, <1>8, <2>1 DEF AwaitSecret
  <2>3. PICK step \in {"dead", "take", "done"} : pc' = [pc EXCEPT ![t] = step]
        BY <1>8 DEF AwaitSecret
  <2> QED
      BY <1>3, <1>8, <2>2, <2>3 DEF AwaitSecret, Types, Running, Ended
<1>9. CASE TakeEncryption(t)
      BY <1>3, <1>9 DEF TakeEncryption, Types, Running
<1>10. ASSUME NEW h \in Handlers, AddHandler(t, h) PROVE Types'
  <2>1. CASE active /\ h \notin linked
    <3>1. /\ linked' = linked \cup {h}
          /\ cipher' = [k \in Ciphers |-> IF k = h THEN got[t] ELSE cipher[k]]
          /\ pc' = [pc EXCEPT ![t] = After[h]]
          /\ Enqueue(<<Add(h)>>)
          /\ UNCHANGED <<keys, got>>
          BY <1>10, <2>1 DEF AddHandler
    <3>2. cipher' \in [Ciphers -> Ids]
          BY <3>1 DEF Types
    <3>3. After[h] \in Running \cup Ended
          BY DEF After, Handlers, Ciphers, Running, Ended
    <3>4. loop' \in Seq(Tasks)
          BY <1>4, <3>1, TaskTypes
    <3> QED
        BY <1>3, <3>1, <3>2, <3>3, <3>4 DEF Types
  <2>2. CASE ~active \/ h \in linked
    <3>1. UNCHANGED <<linked, cipher, loop, keys, got>> /\ pc' = [pc EXCEPT ![t] = "dead"]
          BY <1>10, <2>2 DEF AddHandler
    <3> QED
        BY <1>3, <3>1 DEF Types, Ended
  <2> QED
      BY <2>1, <2>2
<1>11. CASE CheckVersion(t)
  <2>1. "incompatible" \in Kinds
        BY DEF Kinds
  <2>2. loop' \in Seq(Tasks)
        BY <1>1, <1>5, <1>11, <2>1 DEF CheckVersion
  <2>3. PICK step \in {"answer", "done"} : pc' = [pc EXCEPT ![t] = step]
        BY <1>11 DEF CheckVersion, After
  <2> QED
      BY <1>3, <1>11, <2>2, <2>3 DEF CheckVersion, Types, Running, Ended
<1>12. CASE WriteAnswer(t)
  <2>1. Write("answer", None) \in Tasks
        BY <1>1, TaskTypes DEF Kinds
  <2> QED
      BY <1>3, <1>4, <1>12, <2>1 DEF WriteAnswer, After, Types, Running
<1> QED
    BY <1>6, <1>7, <1>8, <1>9, <1>10, <1>11, <1>12 DEF HandshakeStep

LEMMA MinTwo == \A n \in 0 .. 2 : Min2(n + 1) \in 0 .. 2 /\ Min2(n + 1) >= n
BY DEF Min2

LEMMA TypesWrite ==
    ASSUME Types, NEW p \in Packets, toClient' = toClient \o Sent(p)
    PROVE  toClient' \in Seq(Messages)
<1>1. toClient \in Seq(Messages)
      BY DEF Types
<1>2. OnWire(p) \in Messages
      BY <1>1, Written
<1>3. Append(toClient, OnWire(p)) \in Seq(Messages)
      BY <1>1, <1>2, AppendProperties
<1>4. toClient' = toClient \/ toClient' = Append(toClient, OnWire(p))
      BY <1>1, Written
<1> QED
    BY <1>1, <1>3, <1>4

\* The end of the channel, with a last packet.
LEMMA TypesRefuse ==
    ASSUME Types, Refuse, UNCHANGED <<enableEncryption, rsa, peer>>,
           reading' \in {"idle", "found", "got"}, request' \in Ids
    PROVE  Types'
<1>1. Packet("error", None) \in Packets
      BY TaskTypes DEF Ids, Kinds
<1>2. toClient' \in Seq(Messages)
      BY <1>1, TypesWrite DEF Refuse
<1> QED
    BY <1>2, EmptySeq DEF Refuse, Close, Types, threads, pings, peer, Ids

\* A secret is looked at, or read, or refused.
LEMMA SecretRead ==
    ASSUME ReadSecret
    PROVE  \/ UNCHANGED <<pending, aes, threads, fitted, ready, loop, active, toServer,
                          toClient, pings, past>>
           \/ /\ Reads("secret")
              /\ aes' = aes \/ (request # None /\ aes' = aes \cup {request})
              /\ UNCHANGED <<pending, threads, fitted, ready, loop, active, toClient, pings,
                             past>>
           \/ Refuse
<1>1. CASE FindRequest
      BY <1>1 DEF FindRequest
<1>2. CASE GetRequest
      BY <1>2 DEF GetRequest
<1>3. CASE InitAES
      BY <1>3 DEF InitAES
<1> QED
    BY <1>1, <1>2, <1>3 DEF ReadSecret

LEMMA SecretTypes ==
    ASSUME Types, LoopStep
    PROVE  reading' \in {"idle", "found", "got"} /\ request' \in Ids
<1>1. pending \in Ids /\ request \in Ids /\ None \in Ids
      /\ reading \in {"idle", "found", "got"}
      BY DEF Types, Ids
<1> QED
    BY <1>1 DEF LoopStep, ReadSecret, FindRequest, GetRequest, InitAES, secret

LEMMA UsedTypes == Types => Used \in [Ciphers -> Ids]
BY DEF Types, Used, Ids

LEMMA TypesLoop == Types /\ LoopStep => Types'
<1> SUFFICES ASSUME Types, LoopStep PROVE Types'
    OBVIOUS
<1> USE DEF keys, fitted, threads, pings, peer, secret
<1>1. /\ loop \in Seq(Tasks) /\ toServer \in Seq(Messages) /\ toClient \in Seq(Messages)
      /\ past \in Past
      BY DEF Types
<1>2. /\ UNCHANGED <<enableEncryption, rsa, peer>>
      /\ reading' \in {"idle", "found", "got"} /\ request' \in Ids
      /\ Used \in [Ciphers -> Ids]
      BY SecretTypes, UsedTypes DEF LoopStep
<1>3. loop # <<>> => Head(loop) \in Tasks /\ Tail(loop) \in Seq(Tasks)
      BY <1>1, TailQueue
<1>4. toServer # <<>> => Head(toServer) \in Messages /\ Tail(toServer) \in Seq(Messages)
      BY <1>1, TailQueue
<1>5. CASE Refuse
      BY <1>2, <1>5, TypesRefuse
<1>6. CASE RunTask
  <2>1. CASE Head(loop).op = "add"
    <3>1. Head(loop).name \in Handlers
          BY <1>3, <1>6, <2>1, TaskTypes DEF RunTask
    <3> QED
        BY <1>2, <1>3, <1>6, <2>1, <3>1 DEF RunTask, Types
  <2>2. CASE Head(loop).op = "write"
    <3>1. Head(loop).packet \in Packets
          BY <1>3, <1>6, <2>2, TaskTypes DEF RunTask
    <3>2. toClient' \in Seq(Messages)
          BY <1>6, <2>2, <3>1, TypesWrite DEF RunTask
    <3>3. past' \in Past
          BY <1>1, <1>6, <2>2, MinTwo DEF RunTask, Past
    <3> QED
        BY <1>2, <1>3, <1>6, <2>2, <3>2, <3>3 DEF RunTask, Types
  <2>3. CASE Head(loop).op = "close"
        BY <1>2, <1>6, <2>3, EmptySeq DEF RunTask, Close, Types, Ids
  <2> QED
      BY <1>6, <2>1, <2>2, <2>3 DEF RunTask
<1>7. CASE ReadHandshake
  <2>1. past' \in Past
        BY <1>1, <1>7 DEF ReadHandshake, Past, UnderWay
  <2>2. pc' \in [Threads -> Running \cup Ended]
        BY <1>7 DEF ReadHandshake, Goto, Types, Running
  <2>3. pinged' \in BOOLEAN
        BY <1>7 DEF ReadHandshake, UnderWay
  <2> QED
      BY <1>2, <1>4, <1>7, <2>1, <2>2, <2>3 DEF ReadHandshake, Reads, Finds, Types
<1>8. CASE ReadSecret
  <2>1. CASE UNCHANGED <<pending, aes, threads, fitted, ready, loop, active, toServer,
                         toClient, pings, past>>
        BY <1>2, <2>1 DEF Types
  <2>2. CASE /\ Reads("secret")
             /\ aes' = aes \/ (request # None /\ aes' = aes \cup {request})
             /\ UNCHANGED <<pending, threads, fitted, ready, loop, active, toClient, pings,
                            past>>
    <3>1. aes' \subseteq Threads
          BY <2>2 DEF Types, Ids
    <3> QED
        BY <1>2, <1>4, <2>2, <3>1 DEF Reads, Finds, Types
  <2> QED
      BY <1>5, <1>8, <2>1, <2>2, SecretRead
<1>9. CASE ReadConnect
  <2>1. CASE ~Refuse
    <3>1. Packet("success", None) \in Packets
          BY TaskTypes DEF Ids, Kinds
    <3>2. toClient' \in Seq(Messages)
          BY <1>9, <2>1, <3>1, TypesWrite DEF ReadConnect
    <3>3. past' \in Past
          BY <1>1, <1>9, <2>1 DEF ReadConnect, Past, Settled
    <3> QED
        BY <1>2, <1>4, <1>9, <2>1, <3>2, <3>3 DEF ReadConnect, Reads, Finds, Types
  <2> QED
      BY <1>5, <2>1
<1>10. CASE ReadPong
  <2>1. CASE ~Refuse
    <3>1. unhandledPings' \in Int
          BY <1>10, <2>1 DEF ReadPong, Types
    <3>2. toServer' \in Seq(Messages)
          BY <1>4, <1>10, <2>1 DEF ReadPong, Reads, Finds
    <3> QED
        BY <1>2, <1>10, <2>1, <3>1, <3>2 DEF ReadPong, Types
  <2> QED
      BY <1>5, <2>1
<1>11. CASE Misread
  <2>1. CASE ~Refuse
    <3>1. past' \in Past
          BY <1>1, <1>11, <2>1, MinTwo DEF Misread, Past, Settled, Unframed
    <3> QED
        BY <1>2, <1>4, <1>11, <2>1, <3>1 DEF Misread, Types
  <2> QED
      BY <1>5, <2>1
<1> QED
    BY <1>6, <1>7, <1>8, <1>9, <1>10, <1>11 DEF LoopStep

LEMMA TypesClient == Types /\ (ClientReads \/ ClientActs) => Types'
<1> SUFFICES ASSUME Types, ClientReads \/ ClientActs PROVE Types'
    OBVIOUS
<1> USE DEF keys, fitted, threads, pings, peer, secret
<1>1. /\ toServer \in Seq(Messages) /\ toClient \in Seq(Messages) /\ past \in Past
      /\ client \in [crypt : BOOLEAN, framed : BOOLEAN, online : BOOLEAN, deaf : BOOLEAN]
      BY DEF Types
<1>2. ClientOnly
      BY DEF ClientReads, ClientActs
<1>3. toClient # <<>> => Head(toClient) \in Messages /\ Tail(toClient) \in Seq(Messages)
      BY <1>1, TailQueue
<1>4. ASSUME NEW m \in Messages, Send(m) PROVE toServer' \in Seq(Messages)
      BY <1>1, <1>4, AppendProperties DEF Send
<1>5. \A kind \in Kinds, id \in Ids : InForm(kind, id) \in Messages
      BY <1>1 DEF InForm, Messages
<1>6. ASSUME toServer' \in Seq(Messages), toClient' \in Seq(Messages), past' \in Past,
             client' \in [crypt : BOOLEAN, framed : BOOLEAN, online : BOOLEAN, deaf : BOOLEAN],
             asked' \subseteq Threads
      PROVE  Types'
      BY <1>2, <1>6 DEF ClientOnly, Types
<1>7. CASE ClientGetsKey
  <2>1. Head(toClient).id \in Ids
        BY <1>3, <1>7 DEF ClientGetsKey, Gets, Messages
  <2>2. toServer' \in Seq(Messages)
        BY <1>4, <1>5, <1>7, <2>1 DEF ClientGetsKey, Kinds
  <2> QED
      BY <1>1, <1>3, <1>6, <1>7, <2>2 DEF ClientGetsKey, Gets, Types
<1>8. CASE ClientGetsAnswer
  <2>1. [InForm("connect", None) EXCEPT !.framed = TRUE] \in Messages
        BY <1>1 DEF InForm, Messages, Kinds, Ids
  <2>2. toServer' \in Seq(Messages)
        BY <1>1, <1>4, <1>8, <2>1 DEF ClientGetsAnswer
  <2> QED
      BY <1>1, <1>3, <1>6, <1>8, <2>2 DEF ClientGetsAnswer, Gets, Types
<1>9. CASE ClientGetsPing
  <2>1. toServer' \in Seq(Messages)
        BY <1>4, <1>5, <1>9 DEF ClientGetsPing, Kinds, Ids
  <2> QED
      BY <1>1, <1>3, <1>6, <1>9, <2>1 DEF ClientGetsPing, Gets, Types
<1>10. CASE ClientGetsOther
      BY <1>1, <1>3, <1>6, <1>10 DEF ClientGetsOther, Gets, Types
<1>11. CASE ClientMisreads
  <2>1. past' \in Past
        BY <1>1, <1>11, MinTwo DEF ClientMisreads, Past
  <2>2. client' \in [crypt : BOOLEAN, framed : BOOLEAN, online : BOOLEAN, deaf : BOOLEAN]
        BY <1>1, <1>11 DEF ClientMisreads
  <2> QED
      BY <1>1, <1>3, <1>6, <1>11, <2>1, <2>2 DEF ClientMisreads, Types
<1>12. CASE ClientFallsSilent
      BY <1>1, <1>6, <1>12 DEF ClientFallsSilent, Types
<1>13. ASSUME NEW t \in Threads, ClientHandshake(t) PROVE Types'
  <2>1. toServer' \in Seq(Messages)
        BY <1>4, <1>5, <1>13 DEF ClientHandshake, Kinds, Ids
  <2> QED
      BY <1>1, <1>6, <1>13, <2>1 DEF ClientHandshake, Types
<1> QED
    BY <1>7, <1>8, <1>9, <1>10, <1>11, <1>12, <1>13 DEF ClientReads, ClientActs

LEMMA TypesStep == Types /\ [Next]_vars => Types'
<1> SUFFICES ASSUME Types, [Next]_vars PROVE Types'
    OBVIOUS
<1> USE DEF keys, fitted, threads, pings, peer, secret
<1>1. CASE DropChannel
      BY <1>1, EmptySeq DEF DropChannel, Close, Types, Ids
<1>2. CASE Tick
  <2>1. loop \in Seq(Tasks) /\ past \in Past
        BY DEF Types
  <2>2. loop' \in Seq(Tasks)
    <3>1. "error" \in Kinds /\ Write("ping", None) \in Tasks /\ Closing \in Tasks
          /\ Write("error", None) \in Tasks
          BY TaskTypes DEF Kinds, Ids
    <3>2. ASSUME Enqueue(<<Write("ping", None)>>) PROVE loop' \in Seq(Tasks)
          BY <2>1, <3>1, <3>2, Enqueued, AppendProperties
    <3>3. ASSUME Enqueue(Disconnect("error")) PROVE loop' \in Seq(Tasks)
      <4>1. Append(loop, Write("error", None)) \in Seq(Tasks)
            BY <2>1, <3>1, AppendProperties
      <4>2. Append(Append(loop, Write("error", None)), Closing) \in Seq(Tasks)
            BY <3>1, <4>1, AppendProperties
      <4> QED
          BY <2>1, <3>1, <3>3, <4>2, EnqueuedEnd
    <3> QED
        BY <1>2, <2>1, <3>2, <3>3 DEF Tick
  <2>3. past' \in Past
        BY <1>2, <2>1 DEF Tick, Past
  <2>4. unhandledPings' \in Int
    <3>1. unhandledPings' \in {unhandledPings, unhandledPings + 1}
          BY <1>2 DEF Tick
    <3>2. unhandledPings \in Int
          BY DEF Types
    <3> QED
        BY <3>1, <3>2
  <2>5. timer' \in BOOLEAN /\ pinged' \in BOOLEAN
        BY <1>2 DEF Tick, Types, UnderWay
  <2> QED
      BY <1>2, <2>2, <2>3, <2>4, <2>5 DEF Tick, Types
<1>3. CASE UNCHANGED vars
      BY <1>3 DEF vars, Types
<1> QED
    BY <1>1, <1>2, <1>3, TypesThread, TypesLoop, TypesClient DEF Next

-----------------------------------------------------------------------------
(* Members of the queues.                                                  *)

Writes(K) == [op : {"write"}, packet : [kind : K, id : Ids]]
Carry(K) == [kind : K, id : Ids, crypt : BOOLEAN, framed : BOOLEAN]

LEMMA Members ==
    /\ \A K : \A kind \in Kinds, id \in Ids : Write(kind, id) \in Writes(K) <=> kind \in K
    /\ \A K, h : Add(h) \notin Writes(K)
    /\ \A K : Closing \notin Writes(K)
    /\ \A K : \A x \in Tasks : x \in Writes(K) <=> x.op = "write" /\ x.packet.kind \in K
    /\ \A K : \A m \in Messages : m \in Carry(K) <=> m.kind \in K
BY DEF Writes, Carry, Write, Packet, Add, Closing, Tasks, Packets, Messages

\* A task of its own, or the two of an end, come behind what is queued.
LEMMA EnqueueQueue ==
    ASSUME loop \in Seq(Tasks), active, NEW x \in Tasks, Enqueue(<<x>>)
    PROVE  Joined(loop', loop, x)
BY Enqueued, AppendQueue

LEMMA EndQueue ==
    ASSUME loop \in Seq(Tasks), active, NEW reason \in Kinds, Enqueue(Disconnect(reason))
    PROVE  \E between : /\ Joined(between, loop, Write(reason, None))
                        /\ Joined(loop', between, Closing)
<1> DEFINE between == Append(loop, Write(reason, None))
<1>1. Write(reason, None) \in Tasks /\ Closing \in Tasks
      BY TaskTypes DEF Ids
<1>2. between \in Seq(Tasks) /\ Joined(between, loop, Write(reason, None))
      BY <1>1, AppendQueue
<1>3. loop' = Append(between, Closing)
      BY EnqueuedEnd
<1> HIDE DEF between
<1>4. Joined(loop', between, Closing)
      BY <1>1, <1>2, <1>3, AppendQueue
<1> QED
    BY <1>2, <1>4

LEMMA WireQueue ==
    ASSUME toClient \in Seq(Messages), NEW p \in Packets, toClient' = toClient \o Sent(p)
    PROVE  /\ OnWire(p) \in Messages
           /\ \/ Sent(p) = <<>> /\ toClient' = toClient
              \/ Sent(p) # <<>> /\ Joined(toClient', toClient, OnWire(p))
<1>1. /\ OnWire(p) \in Messages
      /\ \/ Sent(p) = <<>> /\ toClient' = toClient
         \/ Sent(p) # <<>> /\ toClient' = Append(toClient, OnWire(p))
      BY Written
<1>2. ASSUME toClient' = Append(toClient, OnWire(p))
      PROVE  Joined(toClient', toClient, OnWire(p))
      BY <1>1, <1>2, AppendQueue
<1> QED
    BY <1>1, <1>2

LEMMA SendQueue ==
    ASSUME toServer \in Seq(Messages), active \in BOOLEAN, NEW m \in Messages, Send(m)
    PROVE  \/ active /\ Joined(toServer', toServer, m)
           \/ ~active /\ toServer' = toServer
<1>1. active => toServer' = Append(toServer, m)
      BY DEF Send
<1>2. ASSUME toServer' = Append(toServer, m) PROVE Joined(toServer', toServer, m)
      BY <1>2, AppendQueue
<1> QED
    BY <1>1, <1>2 DEF Send

\* A thread queues tasks that the channel knows it by, or none.
LEMMA ThreadTasks ==
    ASSUME Types, NEW t \in Threads, HandshakeStep(t)
    PROVE  \/ loop' = loop
           \/ \E h \in Handlers : AddHandler(t, h) /\ active /\ Enqueue(<<Add(h)>>)
           \/ PublishKey(t) /\ rsa \in Threads /\ Enqueue(<<Write("encryption", rsa)>>)
           \/ WriteAnswer(t) /\ Enqueue(<<Write("answer", None)>>)
           \/ AwaitSecret(t) /\ Enqueue(Disconnect("error"))
           \/ CheckVersion(t) /\ Enqueue(Disconnect("incompatible"))
<1>1. CASE CheckRsa(t) \/ MakeRsa(t) \/ GenerateRsa(t) \/ OfferEncryption(t)
           \/ TakeEncryption(t) \/ RemoveRequest(t)
      BY <1>1 DEF CheckRsa, MakeRsa, GenerateRsa, OfferEncryption, TakeEncryption, RemoveRequest
<1>2. CASE PublishKey(t)
      BY <1>2 DEF PublishKey
<1>3. CASE AwaitSecret(t)
      BY <1>3 DEF AwaitSecret
<1>4. ASSUME NEW h \in Handlers, AddHandler(t, h)
      PROVE  loop' = loop \/ (active /\ Enqueue(<<Add(h)>>))
      BY <1>4 DEF AddHandler
<1>5. CASE CheckVersion(t)
      BY <1>5 DEF CheckVersion
<1>6. CASE WriteAnswer(t)
      BY <1>6 DEF WriteAnswer
<1> QED
    BY <1>1, <1>2, <1>3, <1>4, <1>5, <1>6 DEF HandshakeStep

-----------------------------------------------------------------------------
(* Pings.                                                                  *)

Pings == Carry({"ping"})
Pongs == Carry({"pong"})
PingTasks == Writes({"ping"})

InFlight == Has(toServer, Pongs) \/ Has(toClient, Pings) \/ Has(loop, PingTasks)

ClosedIsQuiet == ~active => loop = <<>> /\ toServer = <<>>

\* A pong is one for a ping that has been counted,
OnePong == One(toServer, Pongs) /\ (Has(toServer, Pongs) => unhandledPings >= 1)

\* one at a time is under way between a timer and a client that hears,
OnePing ==
    ~client.deaf =>
        /\ One(toClient, Pings)
        /\ One(loop, PingTasks)
        /\ Has(toServer, Pongs) => ~Has(toClient, Pings) /\ ~Has(loop, PingTasks)
        /\ Has(toClient, Pings) => ~Has(loop, PingTasks)
        /\ InFlight => unhandledPings >= 1

\* and what is counted is under way or lost.
Counted ==
    active /\ ~client.deaf =>
        unhandledPings <= past.lost + (IF InFlight THEN 1 ELSE 0)

PingInv ==
    /\ unhandledPings \in 0 .. 2
    /\ ClosedIsQuiet
    /\ OnePong
    /\ OnePing
    /\ Counted
    /\ DroppedForSilence

LEMMA PingInit == Init => PingInv
<1> SUFFICES ASSUME Init PROVE PingInv
    OBVIOUS
<1>1. \A S : ~Has(<<>>, S) /\ One(<<>>, S)
      BY EmptyQueue
<1>2. loop = <<>> /\ toServer = <<>> /\ toClient = <<>> /\ unhandledPings = 0 /\ active
      /\ past.timedOut = FALSE /\ past.lost = 0
      BY DEF Init
<1> QED
    BY <1>1, <1>2 DEF PingInv, ClosedIsQuiet, OnePong, OnePing, Counted, DroppedForSilence, InFlight

LEMMA PingTypes ==
    Types => /\ past.lost \in 0 .. 2 /\ client.deaf \in BOOLEAN /\ active \in BOOLEAN
             /\ past.timedOut \in BOOLEAN
BY DEF Types, Past

LEMMA PingThread ==
    ASSUME Types, PingInv, NEW t \in Threads, HandshakeStep(t) PROVE PingInv'
<1>1. UNCHANGED <<active, toServer, toClient, unhandledPings, client, past>>
      BY DEF HandshakeStep, pings, peer
<1>2. loop \in Seq(Tasks) /\ None \in Ids
      BY DEF Types, Ids
<1>3. /\ ~active => loop' = loop
      /\ Has(loop', PingTasks) <=> Has(loop, PingTasks)
      /\ One(loop, PingTasks) => One(loop', PingTasks)
  <2>1. CASE loop' = loop
        BY <2>1
  <2>2. CASE ~active
    <3>1. \A tasks : Enqueue(tasks) => loop' = loop
          BY <2>2 DEF Enqueue
    <3>2. loop' = loop
          BY <3>1, ThreadTasks
    <3> QED
        BY <3>2
  <2>3. ASSUME active, NEW x \in Tasks, Enqueue(<<x>>), x \notin PingTasks
        PROVE  /\ Has(loop', PingTasks) <=> Has(loop, PingTasks)
               /\ One(loop, PingTasks) => One(loop', PingTasks)
        BY <1>2, <2>3, EnqueueQueue DEF Joined
  <2>4. ASSUME active, NEW reason \in {"error", "incompatible"}, Enqueue(Disconnect(reason))
        PROVE  /\ Has(loop', PingTasks) <=> Has(loop, PingTasks)
               /\ One(loop, PingTasks) => One(loop', PingTasks)
    <3>1. reason \in Kinds
          BY DEF Kinds
    <3>2. Write(reason, None) \notin PingTasks /\ Closing \notin PingTasks
          BY <1>2, <3>1, Members DEF PingTasks
    <3>3. PICK between : /\ Joined(between, loop, Write(reason, None))
                         /\ Joined(loop', between, Closing)
          BY <1>2, <2>4, <3>1, EndQueue
    <3> QED
        BY <3>2, <3>3 DEF Joined
  <2>5. \A h \in Handlers : Add(h) \in Tasks /\ Add(h) \notin PingTasks
        BY Members, TaskTypes DEF PingTasks
  <2>6. \A kind \in {"encryption", "answer"}, id \in Ids :
            Write(kind, id) \in Tasks /\ Write(kind, id) \notin PingTasks
    <3>1. {"encryption", "answer"} \subseteq Kinds
          BY DEF Kinds
    <3> QED
        BY <3>1, Members, TaskTypes DEF PingTasks
  <2>7. rsa \in Threads => rsa \in Ids
        BY DEF Ids
  <2> QED
      BY <1>2, <2>1, <2>2, <2>3, <2>4, <2>5, <2>6, <2>7, ThreadTasks
<1> QED
    BY <1>1, <1>3 DEF PingInv, ClosedIsQuiet, OnePong, OnePing, Counted, DroppedForSilence, InFlight

\* The channel goes, and may say so.
LEMMA PingClose ==
    ASSUME Types, PingInv, Close, UNCHANGED <<unhandledPings, client, past>>,
           \/ toClient' = <<>>
           \/ toClient' = toClient
           \/ toClient' = toClient \o Sent(Packet("error", None))
    PROVE  PingInv'
<1>1. active' = FALSE /\ loop' = <<>> /\ toServer' = <<>>
      BY DEF Close
<1>2. \A S : ~Has(<<>>, S) /\ One(<<>>, S)
      BY EmptyQueue
<1>3. /\ Has(toClient', Pings) => Has(toClient, Pings)
      /\ One(toClient, Pings) => One(toClient', Pings)
  <2>1. CASE toClient' = <<>> \/ toClient' = toClient
        BY <1>2, <2>1
  <2>2. CASE toClient' = toClient \o Sent(Packet("error", None))
    <3>1. Packet("error", None) \in Packets /\ toClient \in Seq(Messages)
          BY TaskTypes DEF Types, Kinds, Ids
    <3>2. OnWire(Packet("error", None)).kind = "error"
          BY DEF OnWire, Packet
    <3>3. OnWire(Packet("error", None)) \in Messages
          BY <2>2, <3>1, WireQueue
    <3>4. OnWire(Packet("error", None)) \notin Pings
          BY <3>2, <3>3, Members DEF Pings
    <3> QED
        BY <2>2, <3>1, <3>4, WireQueue DEF Joined
  <2> QED
      BY <2>1, <2>2
<1> QED
    BY <1>1, <1>2, <1>3 DEF PingInv, ClosedIsQuiet, OnePong, OnePing, Counted, DroppedForSilence,
       InFlight

\* A packet that is read, or dropped, is out of the queue.
LEMMA ReadQueue ==
    ASSUME Types, toServer # <<>>, toServer' = Tail(toServer)
    PROVE  Head(toServer) \in Messages /\ Left(toServer', toServer, Head(toServer))
BY TailQueue DEF Types

LEMMA PingLoop == Types /\ PingInv /\ LoopStep => PingInv'
<1> SUFFICES ASSUME Types, PingInv, LoopStep PROVE PingInv'
    OBVIOUS
<1> USE DEF pings
<1>1. /\ loop \in Seq(Tasks) /\ toClient \in Seq(Messages) /\ None \in Ids /\ past \in Past
      /\ UNCHANGED client
      BY DEF Types, Ids, LoopStep, peer
<1>2. /\ past.lost \in 0 .. 2 /\ client.deaf \in BOOLEAN /\ active \in BOOLEAN
      /\ past.timedOut \in BOOLEAN
      BY PingTypes
<1>3. loop # <<>> => Head(loop) \in Tasks /\ Left(Tail(loop), loop, Head(loop))
      BY <1>1, TailQueue
<1> USE DEF PingInv, ClosedIsQuiet, OnePong, OnePing, Counted, DroppedForSilence, InFlight
<1>4. CASE Refuse
      BY <1>1, <1>4, PingClose DEF Refuse
<1>5. CASE RunTask
  <2>1. CASE Head(loop).op = "add"
    <3>1. Head(loop) \notin PingTasks
          BY <1>3, <1>5, <2>1, Members DEF RunTask, PingTasks
    <3>2. loop' = Tail(loop) /\ active
          BY <1>2, <1>5, <2>1 DEF RunTask
    <3>3. /\ Has(loop', PingTasks) <=> Has(loop, PingTasks)
          /\ One(loop, PingTasks) => One(loop', PingTasks)
          BY <1>3, <1>5, <3>1, <3>2 DEF RunTask, Left
    <3> QED
        BY <1>1, <1>2, <1>5, <2>1, <3>2, <3>3 DEF RunTask
  <2>2. CASE Head(loop).op = "write"
    <3> DEFINE p == Head(loop).packet
    <3>1. p \in Packets
          BY <1>3, <1>5, <2>2, TaskTypes DEF RunTask
    <3>2. OnWire(p) \in Messages /\ OnWire(p).kind = p.kind
          BY <1>1, <1>5, <2>2, <3>1, WireQueue DEF RunTask, OnWire
    <3>3. /\ Head(loop) \in PingTasks <=> p.kind = "ping"
          /\ OnWire(p) \in Pings <=> p.kind = "ping"
          BY <1>3, <1>5, <2>2, <3>2, Members DEF RunTask, PingTasks, Pings
    <3>4. /\ loop' = Tail(loop) /\ active /\ UNCHANGED <<active, toServer, unhandledPings>>
          /\ toClient' = toClient \o Sent(p)
          BY <1>2, <1>5, <2>2 DEF RunTask
    <3>5. /\ past'.timedOut = past.timedOut
          /\ past'.lost = IF p.kind = "ping" /\ Sent(p) = <<>> THEN Min2(past.lost + 1)
                          ELSE past.lost
          BY <1>1, <1>5, <2>2 DEF RunTask, Past
    <3> HIDE DEF p
    <3>6. /\ Has(loop, PingTasks) <=> p.kind = "ping" \/ Has(loop', PingTasks)
          /\ One(loop, PingTasks) =>
                 One(loop', PingTasks) /\ (p.kind = "ping" => ~Has(loop', PingTasks))
          BY <1>3, <1>5, <3>3, <3>4 DEF RunTask, Left
    <3>7. CASE Sent(p) = <<>>
      <4>1. toClient' = toClient
            BY <1>1, <3>1, <3>4, <3>7, WireQueue
      <4> QED
          BY <1>1, <1>2, <3>4, <3>5, <3>6, <3>7, <4>1 DEF Min2
    <3>8. CASE Sent(p) # <<>>
      <4>1. /\ Has(toClient', Pings) <=> Has(toClient, Pings) \/ p.kind = "ping"
            /\ One(toClient, Pings) /\ ~(Has(toClient, Pings) /\ p.kind = "ping") =>
                   One(toClient', Pings)
            BY <1>1, <3>1, <3>3, <3>4, <3>8, WireQueue DEF Joined
      <4> QED
          BY <1>1, <1>2, <3>4, <3>5, <3>6, <3>8, <4>1
    <3> QED
        BY <3>7, <3>8
  <2>3. CASE Head(loop).op = "close"
        BY <1>1, <1>5, <2>3, PingClose DEF RunTask
  <2> QED
      BY <1>5, <2>1, <2>2, <2>3 DEF RunTask
\* A packet is read that is no pong.
<1>6. ASSUME active, toServer # <<>>, toServer' = Tail(toServer),
             Head(toServer).kind # "pong", UNCHANGED <<loop, active, unhandledPings>>,
             past'.lost = past.lost, past'.timedOut = past.timedOut,
             \/ UNCHANGED toClient
             \/ toClient' = toClient \o Sent(Packet("success", None))
      PROVE  PingInv'
  <2>1. Head(toServer) \notin Pongs
        BY <1>6, ReadQueue, Members DEF Pongs
  <2>2. /\ Has(toServer', Pongs) <=> Has(toServer, Pongs)
        /\ One(toServer, Pongs) => One(toServer', Pongs)
        BY <1>6, <2>1, ReadQueue DEF Left
  <2>3. /\ Has(toClient', Pings) <=> Has(toClient, Pings)
        /\ One(toClient, Pings) => One(toClient', Pings)
    <3>1. CASE toClient' = toClient \o Sent(Packet("success", None))
      <4>1. Packet("success", None) \in Packets
            BY <1>1, TaskTypes DEF Kinds
      <4>2. OnWire(Packet("success", None)) \in Messages
            BY <1>1, <3>1, <4>1, WireQueue
      <4>3. OnWire(Packet("success", None)) \notin Pings
            BY <4>2, Members DEF Pings, OnWire, Packet
      <4> QED
          BY <1>1, <3>1, <4>1, <4>3, WireQueue DEF Joined
    <3> QED
        BY <1>6, <3>1
  <2> QED
      BY <1>1, <1>2, <1>6, <2>2, <2>3
<1>7. CASE ReadHandshake
  <2>1. past'.lost = past.lost /\ past'.timedOut = past.timedOut
        BY <1>1, <1>7 DEF ReadHandshake, Past
  <2> QED
      BY <1>6, <1>7, <2>1 DEF ReadHandshake, Reads, Finds
<1>8. CASE ReadSecret
  <2>1. CASE UNCHANGED <<pending, aes, threads, fitted, ready, loop, active, toServer,
                         toClient, pings, past>>
        BY <1>1, <2>1
  <2>2. CASE /\ Reads("secret")
             /\ UNCHANGED <<pending, threads, fitted, ready, loop, active, toClient, pings,
                            past>>
        BY <1>6, <2>2 DEF Reads, Finds
  <2> QED
      BY <1>4, <1>8, <2>1, <2>2, SecretRead
<1>9. CASE ReadConnect
  <2>1. CASE ~Refuse
    <3>1. past'.lost = past.lost /\ past'.timedOut = past.timedOut
          BY <1>1, <1>9, <2>1 DEF ReadConnect, Past
    <3> QED
        BY <1>6, <1>9, <2>1, <3>1 DEF ReadConnect, Reads, Finds
  <2> QED
      BY <1>4, <2>1
\* A pong is gone.
<1>10. ASSUME active, toServer # <<>>, toServer' = Tail(toServer), Head(toServer).kind = "pong",
              UNCHANGED <<loop, active, toClient>>, past'.timedOut = past.timedOut,
              \/ unhandledPings' = unhandledPings - 1 /\ past'.lost = past.lost
              \/ UNCHANGED unhandledPings /\ past'.lost = Min2(past.lost + 1)
       PROVE  PingInv'
  <2>1. Head(toServer) \in Pongs
        BY <1>10, ReadQueue, Members DEF Pongs
  <2>2. /\ Has(toServer, Pongs)
        /\ One(toServer, Pongs) => One(toServer', Pongs) /\ ~Has(toServer', Pongs)
        BY <1>10, <2>1, ReadQueue DEF Left
  <2> QED
      BY <1>1, <1>2, <1>10, <2>2 DEF Min2
<1>11. CASE ReadPong
      BY <1>4, <1>10, <1>11 DEF ReadPong, Reads, Finds
<1>12. CASE Misread
  <2>1. CASE Refuse
        BY <1>4, <2>1
  <2>2. CASE ~Refuse
    <3>1. /\ active /\ toServer # <<>> /\ toServer' = Tail(toServer)
          /\ UNCHANGED <<loop, active, toClient, unhandledPings>>
          BY <1>12, <2>2 DEF Misread
    <3>2. /\ past'.timedOut = past.timedOut
          /\ past'.lost = IF Head(toServer).kind = "pong" THEN Min2(past.lost + 1) ELSE past.lost
          BY <1>1, <1>12, <2>2 DEF Misread, Past
    <3> QED
        BY <1>6, <1>10, <3>1, <3>2
  <2> QED
      BY <2>1, <2>2
<1> QED
    BY <1>5, <1>7, <1>8, <1>9, <1>11, <1>12 DEF LoopStep

\* Of what a timer that rests leaves in the queues, nothing is a ping.
LEMMA RestedQuiet ==
    ASSUME Types, Rested
    PROVE  ~Has(loop, PingTasks) /\ (~client.deaf => ~InFlight)
<1>1. ASSUME NEW i \in 1 .. Len(loop) PROVE loop[i] \notin PingTasks
      BY <1>1 DEF Rested, IsTask, PingTasks, Writes
<1>2. ASSUME ~client.deaf, NEW i \in 1 .. Len(toClient) PROVE toClient[i] \notin Pings
      BY <1>2 DEF Rested, Opening, Pings, Carry
<1>3. ASSUME ~client.deaf, NEW i \in 1 .. Len(toServer) PROVE toServer[i] \notin Pongs
      BY <1>3 DEF Rested, Opening, Pongs, Carry
<1> QED
    BY <1>1, <1>2, <1>3 DEF Has, InFlight

LEMMA PingTick == Types /\ PingInv /\ Tick => PingInv'
<1> SUFFICES ASSUME Types, PingInv, Tick PROVE PingInv'
    OBVIOUS
<1>1. /\ loop \in Seq(Tasks) /\ past \in Past
      /\ UNCHANGED <<active, toServer, toClient, client>>
      BY DEF Types, Tick, peer
<1>2. /\ past.lost \in 0 .. 2 /\ client.deaf \in BOOLEAN /\ active \in BOOLEAN
      /\ past.timedOut \in BOOLEAN
      BY PingTypes
<1>0. Rested
      BY DEF Tick
<1>3. ~Has(loop, PingTasks) /\ (~client.deaf => ~InFlight)
      BY <1>0, RestedQuiet
<1>7. unhandledPings \in 0 .. 2
      BY DEF PingInv
<1> DEFINE Drop == /\ timer' = FALSE /\ Enqueue(Disconnect("error")) /\ UNCHANGED unhandledPings
                   /\ past' = [past EXCEPT !.timedOut = TRUE]
           Ping == /\ unhandledPings' = unhandledPings + 1 /\ Enqueue(<<Write("ping", None)>>)
                   /\ UNCHANGED past
<1>8. \/ ~active /\ UNCHANGED <<loop, unhandledPings, past>>
      \/ active /\ unhandledPings >= 2 /\ Drop
      \/ active /\ unhandledPings < 2 /\ Ping
      BY DEF Tick
<1> HIDE DEF Drop, Ping
<1>4. CASE ~active
  <2>1. UNCHANGED <<loop, unhandledPings, past>>
        BY <1>4, <1>8
  <2> QED
      BY <1>1, <1>2, <1>4, <2>1
         DEF PingInv, ClosedIsQuiet, OnePong, OnePing, Counted, DroppedForSilence, InFlight
<1>5. CASE active /\ unhandledPings >= 2
  <2>1. Enqueue(Disconnect("error")) /\ UNCHANGED unhandledPings
        BY <1>5, <1>7, <1>8 DEF Drop
  <2>2. past'.lost = past.lost
        BY <1>1, <1>5, <1>7, <1>8 DEF Drop, Past
  <2>3. /\ "error" \in Kinds
        /\ Write("error", None) \notin PingTasks /\ Closing \notin PingTasks
        BY Members DEF PingTasks, Kinds, Ids
  <2>4. PICK between : /\ Joined(between, loop, Write("error", None))
                       /\ Joined(loop', between, Closing)
        BY <1>1, <1>5, <2>1, <2>3, EndQueue
  <2>5. /\ ~Has(loop', PingTasks)
        /\ One(loop, PingTasks) => One(loop', PingTasks)
        BY <1>3, <2>3, <2>4 DEF Joined
  <2>6. unhandledPings = 2 /\ (~client.deaf => past.lost = 2)
        BY <1>2, <1>3, <1>5 DEF PingInv, Counted
  <2> QED
      BY <1>1, <1>2, <1>3, <1>5, <2>1, <2>2, <2>5, <2>6
         DEF PingInv, ClosedIsQuiet, OnePong, OnePing, Counted, DroppedForSilence, InFlight
<1>6. CASE active /\ unhandledPings < 2
  <2>1. Enqueue(<<Write("ping", None)>>) /\ unhandledPings' = unhandledPings + 1 /\ UNCHANGED past
        BY <1>6, <1>7, <1>8 DEF Ping
  <2>2. Write("ping", None) \in Tasks /\ Write("ping", None) \in PingTasks
        BY Members, TaskTypes DEF PingTasks, Kinds, Ids
  <2>3. Joined(loop', loop, Write("ping", None))
        BY <1>1, <1>6, <2>1, <2>2, EnqueueQueue
  <2>4. /\ Has(loop', PingTasks)
        /\ One(loop, PingTasks) => One(loop', PingTasks)
        BY <1>3, <2>2, <2>3 DEF Joined
  <2> QED
      BY <1>1, <1>2, <1>3, <1>6, <2>1, <2>4
         DEF PingInv, ClosedIsQuiet, OnePong, OnePing, Counted, DroppedForSilence, InFlight
<1> QED
    BY <1>4, <1>5, <1>6, <1>7, <1>8

LEMMA PingClient == Types /\ PingInv /\ (ClientReads \/ ClientActs) => PingInv'
<1> SUFFICES ASSUME Types, PingInv, ClientReads \/ ClientActs PROVE PingInv'
    OBVIOUS
<1>1. /\ toServer \in Seq(Messages) /\ toClient \in Seq(Messages) /\ past \in Past
      /\ None \in Ids
      /\ client \in [crypt : BOOLEAN, framed : BOOLEAN, online : BOOLEAN, deaf : BOOLEAN]
      BY DEF Types, Ids
<1>2. UNCHANGED <<loop, active, unhandledPings>>
      BY DEF ClientReads, ClientActs, ClientOnly, pings
<1>3. /\ past.lost \in 0 .. 2 /\ client.deaf \in BOOLEAN /\ active \in BOOLEAN
      /\ past.timedOut \in BOOLEAN
      BY PingTypes
<1> USE DEF PingInv, ClosedIsQuiet, OnePong, OnePing, Counted, DroppedForSilence, InFlight
\* What the client sends is no pong,
<1>4. ASSUME NEW m \in Messages, m.kind # "pong", Send(m)
      PROVE  /\ Has(toServer', Pongs) <=> Has(toServer, Pongs)
             /\ One(toServer, Pongs) => One(toServer', Pongs)
             /\ ~active => toServer' = toServer
  <2>1. m \notin Pongs
        BY <1>4, Members DEF Pongs
  <2> QED
      BY <1>1, <1>3, <1>4, <2>1, SendQueue DEF Joined
\* and what it reads is no ping.
<1>5. ASSUME toClient # <<>>, toClient' = Tail(toClient), Head(toClient).kind # "ping"
      PROVE  /\ Has(toClient', Pings) <=> Has(toClient, Pings)
             /\ One(toClient, Pings) => One(toClient', Pings)
  <2>1. Left(toClient', toClient, Head(toClient)) /\ Head(toClient) \in Messages
        BY <1>1, <1>5, TailQueue
  <2>2. Head(toClient) \notin Pings
        BY <1>5, <2>1, Members DEF Pings
  <2> QED
      BY <2>1, <2>2 DEF Left
<1>6. ASSUME toClient # <<>>, toClient' = Tail(toClient), Head(toClient).kind = "ping"
      PROVE  /\ Has(toClient, Pings)
             /\ One(toClient, Pings) => One(toClient', Pings) /\ ~Has(toClient', Pings)
  <2>1. Left(toClient', toClient, Head(toClient)) /\ Head(toClient) \in Messages
        BY <1>1, <1>6, TailQueue
  <2>2. Head(toClient) \in Pings
        BY <1>6, <2>1, Members DEF Pings
  <2> QED
      BY <2>1, <2>2 DEF Left
<1>7. CASE ClientGetsKey
  <2> HIDE DEF PingInv, ClosedIsQuiet, OnePong, OnePing, Counted, DroppedForSilence, InFlight
  <2>0. client' = [client EXCEPT !.crypt = TRUE] /\ UNCHANGED past
        BY <1>7 DEF ClientGetsKey
  <2>1. client'.deaf = client.deaf /\ UNCHANGED past
        BY <1>1, <2>0
  <2>2. Head(toClient).id \in Ids
    <3>1. Head(toClient) \in Messages
          BY <1>1, <1>7, TailQueue DEF ClientGetsKey, Gets
    <3> QED
        BY <3>1 DEF Messages
  <2>3. /\ InForm("secret", Head(toClient).id) \in Messages
        /\ InForm("secret", Head(toClient).id).kind = "secret"
        BY <1>1, <2>2 DEF InForm, Messages, Kinds
  <2>4. /\ Has(toServer', Pongs) <=> Has(toServer, Pongs)
        /\ One(toServer, Pongs) => One(toServer', Pongs)
        /\ ~active => toServer' = toServer
        BY <1>4, <1>7, <2>3 DEF ClientGetsKey
  <2>5. /\ Has(toClient', Pings) <=> Has(toClient, Pings)
        /\ One(toClient, Pings) => One(toClient', Pings)
        BY <1>5, <1>7 DEF ClientGetsKey, Gets
  <2> QED
      BY <1>2, <1>3, <2>1, <2>4, <2>5
         DEF PingInv, ClosedIsQuiet, OnePong, OnePing, Counted, DroppedForSilence, InFlight
<1>8. CASE ClientGetsAnswer
  <2>1. client'.deaf = client.deaf /\ UNCHANGED past
        BY <1>1, <1>8 DEF ClientGetsAnswer
  <2> DEFINE m == [InForm("connect", None) EXCEPT !.framed = TRUE]
  <2>2. m \in Messages /\ m.kind = "connect"
        BY <1>1 DEF InForm, Messages, Kinds
  <2>3. UNCHANGED toServer \/ Send(m)
        BY <1>8 DEF ClientGetsAnswer
  <2> HIDE DEF m
  <2>4. /\ Has(toServer', Pongs) <=> Has(toServer, Pongs)
        /\ One(toServer, Pongs) => One(toServer', Pongs)
        /\ ~active => toServer' = toServer
        BY <1>4, <2>2, <2>3
  <2>5. /\ Has(toClient', Pings) <=> Has(toClient, Pings)
        /\ One(toClient, Pings) => One(toClient', Pings)
        BY <1>5, <1>8 DEF ClientGetsAnswer, Gets
  <2> QED
      BY <1>2, <1>3, <2>1, <2>4, <2>5
<1>9. CASE ClientGetsPing
  <2>1. UNCHANGED <<client, past>> /\ ~client.deaf
        BY <1>9 DEF ClientGetsPing, Gets
  <2>2. InForm("pong", None) \in Messages /\ InForm("pong", None).kind = "pong"
        BY <1>1 DEF InForm, Messages, Kinds
  <2>3. InForm("pong", None) \in Pongs
        BY <2>2, Members DEF Pongs
  <2>4. /\ active => Has(toServer', Pongs)
        /\ One(toServer, Pongs) /\ ~Has(toServer, Pongs) => One(toServer', Pongs)
        /\ ~active => toServer' = toServer
        BY <1>1, <1>3, <1>9, <2>2, <2>3, SendQueue DEF ClientGetsPing, Joined
  <2>5. /\ Has(toClient, Pings)
        /\ One(toClient, Pings) => One(toClient', Pings) /\ ~Has(toClient', Pings)
        BY <1>6, <1>9 DEF ClientGetsPing, Gets
  <2> QED
      BY <1>2, <1>3, <2>1, <2>4, <2>5
<1>10. CASE ClientGetsOther
  <2>1. client'.deaf = client.deaf /\ UNCHANGED <<past, toServer>>
        BY <1>1, <1>10 DEF ClientGetsOther
  <2>2. /\ Has(toClient', Pings) <=> Has(toClient, Pings)
        /\ One(toClient, Pings) => One(toClient', Pings)
        BY <1>5, <1>10 DEF ClientGetsOther, Gets
  <2> QED
      BY <1>2, <1>3, <2>1, <2>2
<1>11. CASE ClientMisreads
  <2>1. UNCHANGED toServer /\ toClient # <<>> /\ toClient' = Tail(toClient) /\ ~client.deaf
        BY <1>11 DEF ClientMisreads
  <2>2. /\ past'.timedOut = past.timedOut
        /\ past'.lost = IF Head(toClient).kind = "ping" THEN Min2(past.lost + 1) ELSE past.lost
        BY <1>1, <1>11 DEF ClientMisreads, Past
  <2>3. client'.deaf \in BOOLEAN
        BY <1>1, <1>11 DEF ClientMisreads
  <2>4. CASE Head(toClient).kind = "ping"
        BY <1>2, <1>3, <1>6, <2>1, <2>2, <2>3, <2>4 DEF Min2
  <2>5. CASE Head(toClient).kind # "ping"
        BY <1>2, <1>3, <1>5, <2>1, <2>2, <2>3, <2>5
  <2> QED
      BY <2>4, <2>5
<1>12. CASE ClientFallsSilent
  <2>1. client'.deaf = TRUE
        BY <1>1, <1>12 DEF ClientFallsSilent
  <2> QED
      BY <1>2, <1>3, <1>12, <2>1 DEF ClientFallsSilent
<1>13. ASSUME NEW t \in Threads, ClientHandshake(t) PROVE PingInv'
  <2>1. InForm("handshake", t) \in Messages /\ InForm("handshake", t).kind = "handshake"
        BY <1>1 DEF InForm, Messages, Kinds, Ids
  <2> QED
      BY <1>2, <1>3, <1>4, <1>13, <2>1 DEF ClientHandshake
<1> QED
    BY <1>7, <1>8, <1>9, <1>10, <1>11, <1>12, <1>13 DEF ClientReads, ClientActs

LEMMA PingStep == Types /\ PingInv /\ [Next]_vars => PingInv'
<1> SUFFICES ASSUME Types, PingInv, [Next]_vars PROVE PingInv'
    OBVIOUS
<1>1. CASE DropChannel
  <2>1. Close /\ toClient' = <<>> /\ UNCHANGED <<unhandledPings, client, past>>
        BY <1>1 DEF DropChannel, pings, peer
  <2> QED
      BY <2>1, PingClose
<1>2. CASE UNCHANGED vars
      BY <1>2 DEF vars, pings, peer, PingInv, ClosedIsQuiet, OnePong, OnePing, Counted,
         DroppedForSilence, InFlight
<1> QED
    BY <1>1, <1>2, PingThread, PingLoop, PingTick, PingClient DEF Next

LEMMA TypesPings == Types /\ PingInv => TypeOK
BY DEF Types, PingInv, TypeOK

\* Type correctness, and with it the bounds of unhandledPings: the timer of
\* channelActive (PacketHandler lines 44 to 65) leaves no more than two pings
\* unanswered, and no pong that handlePongC2S reads (line 140) makes the count
\* negative.
THEOREM Typing == Spec => []TypeOK
BY TypesInit, TypesStep, PingInit, PingStep, TypesPings, PTL DEF Spec

\* The timer (PacketHandler lines 51 to 58) drops no client that hears unless two
\* pings or pongs were lost.
THEOREM OnlySilentDropped == Spec => []DroppedForSilence
<1>1. PingInv => DroppedForSilence
      BY DEF PingInv
<1> QED
    BY TypesInit, TypesStep, PingInit, PingStep, <1>1, PTL DEF Spec

-----------------------------------------------------------------------------
(* What the client of one handshake can read.                              *)

Crypted(K) == [kind : K, id : Ids, crypt : {TRUE}, framed : BOOLEAN]
Plain(K) == [kind : K, id : Ids, crypt : {FALSE}, framed : BOOLEAN]
Framed(K) == [kind : K, id : Ids, crypt : BOOLEAN, framed : {TRUE}]

Verdict == {"answer", "incompatible"}
KeyTasks == Writes({"encryption"})
VerdictTasks == Writes(Verdict)
Adds == [op : {"add"}, name : Handlers]
Keys == Carry({"encryption"})
Verdicts == Carry(Verdict)
Greetings == Carry({"handshake"})
Secrets == Carry({"secret"})

\* A thread before its key is out, as long as it is about the encryption, and about
\* the verdict; up to that; and from the secret on.
Early == {"rsa", "make", "generate", "offer", "publish"}
Keyed == Early \cup {"wait", "take", "remove", "decrypt", "encrypt"}
Judging == {"version", "answer"}
Undecided == Keyed \cup Judging
Late == {"take", "remove", "decrypt", "encrypt", "version", "answer", "defrag", "prefixer"}

At(S) == \E u \in Threads : pc[u] \in S
Begun == \E u \in Threads : pc[u] # "unborn"
KeySent == Has(loop, KeyTasks) \/ Has(toClient, Keys)
VerdictSent == Has(loop, VerdictTasks) \/ Has(toClient, Verdicts)
Comes(h) == h \in ready \/ Has(loop, {Add(h)})

\* There is one thread, which one packet of the client starts.
Lone == \A u, v \in Threads : pc[u] # "unborn" /\ pc[v] # "unborn" => u = v

Greeted ==
    /\ One(toServer, Greetings)
    /\ Has(toServer, Greetings) => ~Begun
    /\ asked = {} => ~Begun /\ ~Has(toServer, Greetings)

\* It sends one key, as it is, to a client that has none;
OneKey ==
    /\ One(loop, KeyTasks)
    /\ One(toClient, Keys)
    /\ Has(toClient, Keys) => ~Has(loop, KeyTasks)
    /\ KeySent => ~client.crypt /\ enableEncryption
    /\ KeySent \/ client.crypt => Begun /\ ~At(Early)

KeyPlain ==
    /\ ~Has(toClient, Crypted({"encryption"}))
    /\ ~Has(toClient, Framed({"encryption"}))

\* before the client has it, nothing is put into the pipeline and nothing is said,
NoKeyYet ==
    ~client.crypt =>
        /\ aes = {}
        /\ ~Has(toServer, Secrets)
        /\ enableEncryption =>
              /\ ready = {}
              /\ ~Has(loop, Adds)
              /\ ~VerdictSent
              /\ ~client.framed
              /\ ~At(Late)

NeverKey ==
    ~enableEncryption =>
        /\ ~client.crypt
        /\ ~Comes("encrypt")
        /\ ~At(Keyed)

\* It gives one verdict, in the form that the client has by then:
OneVerdict ==
    /\ One(loop, VerdictTasks)
    /\ One(toClient, Verdicts)
    /\ Has(toClient, Verdicts) => ~Has(loop, VerdictTasks)
    /\ VerdictSent => ~client.framed
    /\ VerdictSent \/ client.framed => Begun /\ ~At(Undecided)

VerdictForm ==
    /\ ~Has(toClient, Framed(Verdict))
    /\ enableEncryption => ~Has(toClient, Plain(Verdict))
    /\ ~enableEncryption => ~Has(toClient, Crypted(Verdict))

\* the ciphers are queued ahead of it,
CipherFirst ==
    enableEncryption =>
        /\ "encrypt" \in ready \/ Led(loop, VerdictTasks, Add("encrypt"))
        /\ active /\ At(Judging) => Comes("encrypt")

\* the framing behind it.
FramingLast ==
    /\ Clear(loop, VerdictTasks, Add("prefixer"))
    /\ "prefixer" \in ready => ~Has(loop, VerdictTasks)
    /\ Comes("prefixer") => Begun /\ ~At(Running)

Legibly ==
    /\ Lone
    /\ Greeted
    /\ OneKey
    /\ KeyPlain
    /\ NoKeyYet
    /\ NeverKey
    /\ OneVerdict
    /\ VerdictForm
    /\ CipherFirst
    /\ FramingLast

LegibleInv == ~Repeated => Legibly

\* Who is where when a thread goes to its next step,
LEMMA Moves ==
    ASSUME Types, Lone, NEW t \in Threads, pc[t] \in Running,
           NEW step \in (Running \cup Ended) \ {"unborn"}, pc' = [pc EXCEPT ![t] = step]
    PROVE  /\ Lone' /\ Begun /\ Begun'
           /\ At(Early) <=> pc[t] \in Early
           /\ At(Early)' <=> step \in Early
           /\ At(Keyed) <=> pc[t] \in Keyed
           /\ At(Keyed)' <=> step \in Keyed
           /\ At(Undecided) <=> pc[t] \in Undecided
           /\ At(Undecided)' <=> step \in Undecided
           /\ At(Late) <=> pc[t] \in Late
           /\ At(Late)' <=> step \in Late
           /\ At(Judging) <=> pc[t] \in Judging
           /\ At(Judging)' <=> step \in Judging
           /\ At(Running) <=> pc[t] \in Running
           /\ At(Running)' <=> step \in Running
<1>1. pc \in [Threads -> Running \cup Ended]
      BY DEF Types
<1>2. pc[t] # "unborn" /\ \A u \in Threads : u # t => pc[u] = "unborn"
      BY DEF Lone, Running
<1>3. pc'[t] = step /\ \A u \in Threads : u # t => pc'[u] = "unborn"
      BY <1>1, <1>2
<1>4. ASSUME NEW S, "unborn" \notin S
      PROVE  (At(S) <=> pc[t] \in S) /\ (At(S)' <=> step \in S)
      BY <1>2, <1>3, <1>4 DEF At
<1>5. /\ "unborn" \notin Early /\ "unborn" \notin Keyed /\ "unborn" \notin Undecided
      /\ "unborn" \notin Late /\ "unborn" \notin Judging /\ "unborn" \notin Running
      BY DEF Early, Keyed, Undecided, Late, Judging, Running
<1> QED
    BY <1>2, <1>3, <1>4, <1>5 DEF Lone, Begun

\* and what a move leaves as it was.
PcKept ==
    /\ Lone'
    /\ Begun' <=> Begun
    /\ At(Early)' => At(Early)
    /\ At(Keyed)' => At(Keyed)
    /\ At(Undecided)' => At(Undecided)
    /\ client.crypt \/ (At(Late)' => At(Late))
    /\ At(Judging)' => At(Judging)
    /\ At(Running)' => At(Running)

LEMMA PcStays == Lone /\ pc' = pc => PcKept
BY DEF PcKept, Lone, Begun, At

\* No key, verdict or handler comes into the queue of tasks,
TasksKept ==
    /\ Has(loop', KeyTasks) => Has(loop, KeyTasks)
    /\ Has(loop', VerdictTasks) => Has(loop, VerdictTasks)
    /\ Has(loop', Adds) => Has(loop, Adds)
    /\ Has(loop', {Add("encrypt")}) => Has(loop, {Add("encrypt")})
    /\ Has(loop', {Add("prefixer")}) => Has(loop, {Add("prefixer")})
    /\ One(loop, KeyTasks) => One(loop', KeyTasks)
    /\ One(loop, VerdictTasks) => One(loop', VerdictTasks)
    /\ Clear(loop, VerdictTasks, Add("prefixer")) => Clear(loop', VerdictTasks, Add("prefixer"))
    /\ \/ /\ active' => active
          /\ Led(loop, VerdictTasks, Add("encrypt")) => Led(loop', VerdictTasks, Add("encrypt"))
          /\ Has(loop, {Add("encrypt")}) => Has(loop', {Add("encrypt")})
          /\ ready' = ready
       \/ /\ ~active'
          /\ Led(loop', VerdictTasks, Add("encrypt"))
          /\ ready' = {}

Idle(x) == /\ x \notin KeyTasks
           /\ x \notin VerdictTasks
           /\ x \notin Adds
           /\ \A h \in Handlers : x # Add(h)

LEMMA IdleTasks ==
    /\ \A kind \in Kinds, id \in Ids :
            kind \notin {"encryption", "answer", "incompatible"} => Idle(Write(kind, id))
    /\ Idle(Closing)
<1>1. \A kind, id : Write(kind, id) \notin Adds /\ \A h : Write(kind, id) # Add(h)
      BY DEF Write, Adds, Add
<1>2. Closing \notin Adds /\ \A h : Closing # Add(h)
      BY DEF Closing, Adds, Add
<1>3. \A kind \in Kinds, id \in Ids :
            kind \notin {"encryption", "answer", "incompatible"} => Idle(Write(kind, id))
  <2> SUFFICES ASSUME NEW kind \in Kinds, NEW id \in Ids,
                      kind \notin {"encryption", "answer", "incompatible"}
               PROVE  Idle(Write(kind, id))
      OBVIOUS
  <2>1. Write(kind, id) \notin KeyTasks
        BY Members DEF KeyTasks
  <2>2. Write(kind, id) \notin VerdictTasks
        BY Members DEF VerdictTasks, Verdict
  <2> QED
      BY <1>1, <2>1, <2>2 DEF Idle
<1>4. Idle(Closing)
      BY <1>2, Members DEF Idle, KeyTasks, VerdictTasks
<1> QED
    BY <1>3, <1>4

LEMMA TasksStay == UNCHANGED <<loop, ready, active>> => TasksKept
BY DEF TasksKept

LEMMA TasksGo == loop' = <<>> /\ ready' = {} /\ active' = FALSE => TasksKept
BY EmptyQueue DEF TasksKept

LEMMA TasksJoined ==
    ASSUME NEW x, Idle(x), Joined(loop', loop, x), UNCHANGED <<ready, active>>
    PROVE  TasksKept
<1>1. x # Add("encrypt") /\ x # Add("prefixer")
      BY DEF Idle, Handlers, Ciphers
<1> QED
    BY <1>1 DEF Joined, Idle, TasksKept

LEMMA TasksLeft ==
    ASSUME NEW x, Idle(x), Left(loop', loop, x), UNCHANGED <<ready, active>>
    PROVE  TasksKept
<1>1. x # Add("encrypt") /\ x # Add("prefixer")
      BY DEF Idle, Handlers, Ciphers
<1> QED
    BY <1>1 DEF Left, Idle, TasksKept

LEMMA TasksEnqueued ==
    ASSUME Types, UNCHANGED <<ready, active>>,
           \/ \E kind \in Kinds, id \in Ids :
                /\ kind \notin {"encryption", "answer", "incompatible"}
                /\ Enqueue(<<Write(kind, id)>>)
           \/ Enqueue(Disconnect("error"))
    PROVE  TasksKept
<1>1. loop \in Seq(Tasks) /\ None \in Ids
      BY DEF Types, Ids
<1>2. CASE ~active
  <2>1. \A tasks : Enqueue(tasks) => loop' = loop
        BY <1>2 DEF Enqueue
  <2> QED
      BY <2>1, TasksStay
<1>3. CASE active
  <2>1. ASSUME NEW kind \in Kinds, NEW id \in Ids,
               kind \notin {"encryption", "answer", "incompatible"}, Enqueue(<<Write(kind, id)>>)
        PROVE  TasksKept
    <3>1. Joined(loop', loop, Write(kind, id)) /\ Idle(Write(kind, id))
          BY <1>1, <1>3, <2>1, EnqueueQueue, TaskTypes, IdleTasks
    <3> QED
        BY <3>1, TasksJoined
  <2>2. CASE Enqueue(Disconnect("error"))
    <3>1. "error" \in Kinds
          BY DEF Kinds
    <3>2. PICK between : /\ Joined(between, loop, Write("error", None))
                         /\ Joined(loop', between, Closing)
          BY <1>1, <1>3, <2>2, <3>1, EndQueue
    <3>3. Idle(Write("error", None)) /\ Idle(Closing)
          BY <1>1, <3>1, IdleTasks
    <3>4. /\ Write("error", None) # Add("encrypt") /\ Write("error", None) # Add("prefixer")
          /\ Closing # Add("encrypt") /\ Closing # Add("prefixer")
          BY <3>3 DEF Idle, Handlers, Ciphers
    <3> QED
        BY <3>2, <3>3, <3>4 DEF Joined, Idle, TasksKept
  <2> QED
      BY <2>1, <2>2
<1> QED
    BY <1>2, <1>3 DEF Types

\* no greeting or secret comes to the server,
InboxKept ==
    /\ Has(toServer', Greetings) => Has(toServer, Greetings)
    /\ One(toServer, Greetings) => One(toServer', Greetings)
    /\ Has(toServer', Secrets) => Has(toServer, Secrets)

LEMMA InboxStays == toServer' = toServer \/ toServer' = <<>> => InboxKept
BY EmptyQueue DEF InboxKept

LEMMA InboxRead ==
    ASSUME Types, toServer # <<>>, toServer' = Tail(toServer) PROVE InboxKept
BY ReadQueue DEF InboxKept, Left

LEMMA InboxSent ==
    ASSUME Types, NEW m \in Messages, m.kind \notin {"handshake", "secret"}, Send(m)
    PROVE  InboxKept
<1>1. m \notin Greetings /\ m \notin Secrets
      BY Members DEF Greetings, Secrets
<1>2. \/ toServer' = toServer
      \/ Joined(toServer', toServer, m)
      BY SendQueue DEF Types
<1> QED
    BY <1>1, <1>2, InboxStays DEF Joined, InboxKept

\* and no key or verdict comes to the client.
OutboxKept ==
    /\ Has(toClient', Keys) => Has(toClient, Keys)
    /\ One(toClient, Keys) => One(toClient', Keys)
    /\ Has(toClient', Verdicts) => Has(toClient, Verdicts)
    /\ One(toClient, Verdicts) => One(toClient', Verdicts)
    /\ \A K \in {{"encryption"}, Verdict} :
            /\ Has(toClient', Crypted(K)) => Has(toClient, Crypted(K))
            /\ Has(toClient', Plain(K)) => Has(toClient, Plain(K))
            /\ Has(toClient', Framed(K)) => Has(toClient, Framed(K))

LEMMA Forms ==
    \A K : \A m \in Messages :
        /\ m \in Crypted(K) <=> m.kind \in K /\ m.crypt
        /\ m \in Plain(K) <=> m.kind \in K /\ ~m.crypt
        /\ m \in Framed(K) <=> m.kind \in K /\ m.framed
BY DEF Crypted, Plain, Framed, Messages

LEMMA OutboxStays == toClient' = toClient \/ toClient' = <<>> => OutboxKept
BY EmptyQueue DEF OutboxKept

LEMMA OutboxRead ==
    ASSUME Types, toClient # <<>>, toClient' = Tail(toClient) PROVE OutboxKept
<1>1. Left(toClient', toClient, Head(toClient))
      BY TailQueue DEF Types
<1> QED
    BY <1>1 DEF OutboxKept, Left

LEMMA OutboxWritten ==
    ASSUME Types, NEW p \in Packets, p.kind \notin {"encryption", "answer", "incompatible"},
           toClient' = toClient \o Sent(p)
    PROVE  OutboxKept
<1>1. /\ OnWire(p) \in Messages
      /\ toClient' = toClient \/ Joined(toClient', toClient, OnWire(p))
      BY WireQueue DEF Types
<1>2. OnWire(p).kind = p.kind
      BY DEF OnWire
<1>3. OnWire(p) \notin Keys /\ OnWire(p) \notin Verdicts
      BY <1>1, <1>2, Members DEF Keys, Verdicts, Verdict
<1>4. \A K \in {{"encryption"}, Verdict} :
          OnWire(p) \notin Crypted(K) /\ OnWire(p) \notin Plain(K) /\ OnWire(p) \notin Framed(K)
      BY <1>1, <1>2, Forms DEF Verdict
<1> QED
    BY <1>1, <1>3, <1>4, OutboxStays DEF Joined, OutboxKept

\* A step that leaves all this as it was keeps the invariant.
LEMMA LegiblyKept ==
    ASSUME Legibly, PcKept, TasksKept, InboxKept, OutboxKept,
           UNCHANGED <<enableEncryption, aes, asked>>,
           client'.crypt = client.crypt, client'.framed = client.framed
    PROVE  Legibly'
<1> USE DEF Legibly
<1>1. Lone'
      BY DEF PcKept
<1>2. Greeted'
      BY DEF Greeted, PcKept, InboxKept
<1>3. OneKey'
      BY DEF OneKey, KeySent, PcKept, TasksKept, OutboxKept
<1>4. KeyPlain'
      BY DEF KeyPlain, OutboxKept
<1>5. NoKeyYet'
      BY DEF NoKeyYet, VerdictSent, PcKept, TasksKept, InboxKept, OutboxKept
<1>6. NeverKey'
      BY DEF NeverKey, Comes, PcKept, TasksKept
<1>7. OneVerdict'
      BY DEF OneVerdict, VerdictSent, PcKept, TasksKept, OutboxKept
<1>8. VerdictForm'
      BY DEF VerdictForm, OutboxKept
<1>9. CipherFirst'
      BY DEF CipherFirst, Comes, PcKept, TasksKept
<1>10. FramingLast'
      BY DEF FramingLast, Comes, PcKept, TasksKept
<1> QED
    BY <1>1, <1>2, <1>3, <1>4, <1>5, <1>6, <1>7, <1>8, <1>9, <1>10

LEMMA LegiblyInit == Init => Legibly
<1> SUFFICES ASSUME Init PROVE Legibly
    OBVIOUS
<1>1. /\ loop = <<>> /\ toServer = <<>> /\ toClient = <<>> /\ aes = {} /\ ready = {}
      /\ client.crypt = FALSE /\ client.framed = FALSE
      /\ \A t \in Threads : pc[t] = "unborn"
      BY DEF Init
<1>2. ~Begun /\ ~At(Late) /\ ~At(Keyed) /\ ~At(Judging)
      BY <1>1 DEF Begun, At, Late, Keyed, Early, Judging
<1>3. \A S, a : ~Has(<<>>, S) /\ One(<<>>, S) /\ Led(<<>>, S, a) /\ Clear(<<>>, S, a)
      BY EmptyQueue
<1> QED
    BY <1>1, <1>2, <1>3 DEF Legibly, Lone, Greeted, OneKey, KeyPlain, NoKeyYet, NeverKey,
       OneVerdict, VerdictForm, CipherFirst, FramingLast, KeySent, VerdictSent, Comes

\* The steps of the one thread.
LEMMA LegiblyThread ==
    ASSUME Types, Legibly, NEW t \in Threads, HandshakeStep(t) PROVE Legibly'
<1> USE DEF keys, fitted, threads, Goto
<1>1. /\ UNCHANGED <<enableEncryption, ready, active, toServer, toClient, client, asked, past>>
      /\ UNCHANGED aes
      BY DEF HandshakeStep, peer, CheckRsa, MakeRsa, GenerateRsa, OfferEncryption, PublishKey,
             AwaitSecret, TakeEncryption, RemoveRequest, AddHandler, CheckVersion, WriteAnswer
<1>2. InboxKept /\ OutboxKept
      BY <1>1, InboxStays, OutboxStays
<1>3. Lone /\ loop \in Seq(Tasks) /\ None \in Ids
      BY DEF Legibly, Types, Ids
<1>4. pc[t] \in Running
      BY DEF HandshakeStep, CheckRsa, MakeRsa, GenerateRsa, OfferEncryption, PublishKey,
             AwaitSecret, TakeEncryption, RemoveRequest, AddHandler, CheckVersion, WriteAnswer,
             Running, Handlers, Ciphers
<1>5. ASSUME NEW step \in (Running \cup Ended) \ {"unborn"}, pc' = [pc EXCEPT ![t] = step]
      PROVE  /\ Lone' /\ Begun /\ Begun'
             /\ At(Early) <=> pc[t] \in Early
             /\ At(Early)' <=> step \in Early
             /\ At(Keyed) <=> pc[t] \in Keyed
             /\ At(Keyed)' <=> step \in Keyed
             /\ At(Undecided) <=> pc[t] \in Undecided
             /\ At(Undecided)' <=> step \in Undecided
             /\ At(Late) <=> pc[t] \in Late
             /\ At(Late)' <=> step \in Late
             /\ At(Judging) <=> pc[t] \in Judging
             /\ At(Judging)' <=> step \in Judging
             /\ At(Running) <=> pc[t] \in Running
             /\ At(Running)' <=> step \in Running
      BY <1>3, <1>4, <1>5, Moves
<1>6. ASSUME NEW step \in (Running \cup Ended) \ {"unborn"}, pc' = [pc EXCEPT ![t] = step],
             TasksKept,
             step \in Early => pc[t] \in Early,
             step \in Keyed => pc[t] \in Keyed,
             step \in Undecided => pc[t] \in Undecided,
             client.crypt \/ (step \in Late => pc[t] \in Late),
             step \in Judging => pc[t] \in Judging
      PROVE  Legibly'
  <2>2. PcKept
        BY <1>4, <1>5, <1>6 DEF PcKept
  <2> QED
      BY <1>1, <1>2, <1>6, <2>2, LegiblyKept
<1>7. UNCHANGED loop => TasksKept
      BY <1>1, TasksStay
<1>8. CASE CheckRsa(t) \/ MakeRsa(t) \/ GenerateRsa(t) \/ OfferEncryption(t)
           \/ TakeEncryption(t) \/ RemoveRequest(t)
  <2>1. UNCHANGED loop
        BY <1>8 DEF CheckRsa, MakeRsa, GenerateRsa, OfferEncryption, TakeEncryption, RemoveRequest
  <2>2. PICK step \in Running :
            /\ pc' = [pc EXCEPT ![t] = step]
            /\ \/ pc[t] \in {"rsa", "make", "generate"} /\ step \in {"make", "generate", "offer"}
               \/ pc[t] = "offer" /\ step = "publish"
               \/ pc[t] = "take" /\ step = "remove"
               \/ pc[t] = "remove" /\ step = "decrypt"
        BY <1>8 DEF CheckRsa, MakeRsa, GenerateRsa, OfferEncryption, TakeEncryption, RemoveRequest,
           After, Running
  <2> QED
      BY <1>6, <1>7, <2>1, <2>2 DEF Early, Keyed, Judging, Undecided, Late, Running
<1>9. CASE AwaitSecret(t)
  <2>1. TasksKept
        BY <1>1, <1>7, <1>9, TasksEnqueued DEF AwaitSecret
  <2>2. PICK step \in {"dead", "done", "take"} :
            pc' = [pc EXCEPT ![t] = step] /\ (step = "take" => aes # {})
        BY <1>9 DEF AwaitSecret
  <2>3. pc[t] = "wait"
        BY <1>9 DEF AwaitSecret
  <2>4. step = "take" => client.crypt
        BY <2>2 DEF Legibly, NoKeyYet
  <2> QED
      BY <1>6, <2>1, <2>2, <2>3, <2>4 DEF Early, Keyed, Judging, Undecided, Late, Running, Ended
<1>10. \A S : pc[t] \in S => At(S)
       BY DEF At
<1>11. /\ pc[t] \in Keyed => enableEncryption
       /\ enableEncryption /\ pc[t] \in Late => client.crypt
       /\ pc[t] \in Undecided => ~VerdictSent /\ ~client.framed
       /\ pc[t] \in Early => ~KeySent /\ ~client.crypt
       /\ ~Comes("prefixer")
       BY <1>4, <1>10 DEF Legibly, NeverKey, NoKeyYet, OneVerdict, OneKey, FramingLast
<1>12. CASE PublishKey(t)
  <2>1. CASE rsa \notin Threads
    <3>1. UNCHANGED loop /\ pc' = [pc EXCEPT ![t] = "dead"]
          BY <1>12, <2>1 DEF PublishKey
    <3> QED
        BY <1>6, <1>7, <3>1 DEF Early, Keyed, Judging, Undecided, Late, Ended
  <2>2. CASE rsa \in Threads
    <3>1. /\ pc[t] = "publish" /\ pc' = [pc EXCEPT ![t] = "wait"]
          /\ Enqueue(<<Write("encryption", rsa)>>)
          BY <1>12, <2>2 DEF PublishKey
    <3>2. CASE ~active
      <4>1. UNCHANGED loop
            BY <3>1, <3>2 DEF Enqueue
      <4> QED
          BY <1>6, <1>7, <3>1, <4>1 DEF Early, Keyed, Judging, Undecided, Late, Running, Ended
    <3>3. CASE active
      <4> DEFINE x == Write("encryption", rsa)
      <4>1. x \in Tasks /\ x \in KeyTasks /\ x \notin VerdictTasks
            BY <2>2, Members, TaskTypes DEF KeyTasks, VerdictTasks, Verdict, Ids, Kinds
      <4>2. x \notin Adds /\ \A h : x # Add(h)
            BY DEF Write, Adds, Add
      <4>3. Joined(loop', loop, x)
            BY <1>3, <3>1, <3>3, <4>1, EnqueueQueue
      <4> HIDE DEF x
      <4>4. enableEncryption /\ ~KeySent /\ ~client.crypt
            BY <1>11, <3>1 DEF Early, Keyed
      <4>5. /\ Lone' /\ Begun' /\ ~At(Early)' /\ ~At(Late)' /\ ~At(Judging)'
            /\ Begun /\ At(Undecided) /\ At(Running)
        <5>1. /\ "wait" \in (Running \cup Ended) \ {"unborn"}
              /\ "wait" \notin Early /\ "wait" \notin Late /\ "wait" \notin Judging
              /\ "publish" \in Undecided /\ "publish" \in Running
              BY DEF Early, Keyed, Judging, Undecided, Late, Running, Ended
        <5> QED
            BY <1>5, <3>1, <5>1
      <4>6. Greeted'
            BY <1>1, <1>2, <4>5 DEF Legibly, Greeted, InboxKept
      <4>7. OneKey' /\ KeyPlain'
            BY <1>1, <4>1, <4>3, <4>4, <4>5 DEF Legibly, OneKey, KeyPlain, KeySent, Joined
      <4>8. NoKeyYet' /\ NeverKey'
            BY <1>1, <4>1, <4>2, <4>3, <4>4, <4>5
               DEF Legibly, NoKeyYet, NeverKey, VerdictSent, Joined
      <4>9. OneVerdict' /\ VerdictForm'
            BY <1>1, <4>1, <4>3, <4>5 DEF Legibly, OneVerdict, VerdictForm, VerdictSent, Joined
      <4>10. CipherFirst' /\ FramingLast'
            BY <1>1, <4>1, <4>2, <4>3, <4>5 DEF Legibly, CipherFirst, FramingLast, Comes, Joined
      <4> QED
          BY <4>5, <4>6, <4>7, <4>8, <4>9, <4>10 DEF Legibly
    <3> QED
        BY <3>2, <3>3 DEF Types
  <2> QED
      BY <2>1, <2>2
\* A handler goes in.
<1>13. ASSUME NEW h \in Handlers, AddHandler(t, h) PROVE Legibly'
  <2>1. CASE ~active \/ h \in linked
    <3>1. UNCHANGED loop /\ pc' = [pc EXCEPT ![t] = "dead"]
          BY <1>13, <2>1 DEF AddHandler
    <3> QED
        BY <1>6, <1>7, <3>1 DEF Early, Keyed, Judging, Undecided, Late, Ended
  <2>2. CASE active /\ h \notin linked
    <3> DEFINE x == Add(h)
    <3>1. pc[t] = h /\ pc' = [pc EXCEPT ![t] = After[h]] /\ Enqueue(<<x>>)
          BY <1>13, <2>2 DEF AddHandler
    <3>2. x \in Tasks /\ x \notin KeyTasks /\ x \notin VerdictTasks
          BY Members, TaskTypes DEF KeyTasks, VerdictTasks
    <3>3. \A g : x = Add(g) <=> h = g
          BY DEF Add
    <3>4. Joined(loop', loop, x)
          BY <1>3, <2>2, <3>1, <3>2, EnqueueQueue
    <3> HIDE DEF x
    <3>5. h \in Late
          BY DEF Handlers, Ciphers, Late
    <3>6. \/ h = "decrypt" /\ After[h] = "encrypt"
          \/ h = "encrypt" /\ After[h] = "version"
          \/ h = "defrag" /\ After[h] = "prefixer"
          \/ h = "prefixer" /\ After[h] = "done"
          BY DEF After, Handlers, Ciphers
    <3>7. After[h] \in (Running \cup Ended) \ {"unborn"}
          BY <3>6 DEF Running, Ended
    <3>8. /\ Lone' /\ Begun' /\ Begun
          /\ At(Early)' => At(Early)
          /\ At(Keyed)' => At(Keyed)
          /\ At(Undecided)' => At(Undecided)
          /\ At(Judging)' => h = "encrypt"
          /\ At(Running)' => h # "prefixer"
          /\ At(Running)
          BY <1>4, <1>5, <3>1, <3>6, <3>7 DEF Early, Keyed, Judging, Undecided, Running
    <3>9. /\ enableEncryption => client.crypt
          /\ ~enableEncryption => h # "encrypt"
          BY <1>11, <3>1, <3>5 DEF Keyed
    <3>10. Greeted'
          BY <1>1, <1>2, <3>8 DEF Legibly, Greeted, InboxKept
    <3>11. OneKey' /\ KeyPlain'
          BY <1>1, <3>2, <3>4, <3>8 DEF Legibly, OneKey, KeyPlain, KeySent, Joined
    <3>12. NoKeyYet' /\ NeverKey'
          BY <1>1, <3>2, <3>3, <3>4, <3>8, <3>9
             DEF Legibly, NoKeyYet, NeverKey, Comes, Joined
    <3>13. OneVerdict' /\ VerdictForm'
          BY <1>1, <3>2, <3>4, <3>8 DEF Legibly, OneVerdict, VerdictForm, VerdictSent, Joined
    <3>14. CipherFirst' /\ FramingLast'
          BY <1>1, <1>11, <3>2, <3>3, <3>4, <3>8
             DEF Legibly, CipherFirst, FramingLast, Comes, Joined
    <3> QED
        BY <3>8, <3>10, <3>11, <3>12, <3>13, <3>14 DEF Legibly
  <2> QED
      BY <2>1, <2>2
\* The verdict is queued.
<1>14. ASSUME NEW kind \in Verdict, pc[t] \in Judging, active, NEW queue,
              Joined(queue, loop, Write(kind, None)),
              loop' = queue \/ Joined(loop', queue, Closing),
              NEW step \in {"done", "defrag"}, pc' = [pc EXCEPT ![t] = step]
       PROVE  Legibly'
  <2> DEFINE x == Write(kind, None)
  <2>1. kind \in Kinds /\ kind # "encryption"
        BY DEF Kinds, Verdict
  <2>2. x \notin KeyTasks /\ x \in VerdictTasks /\ x \notin Adds /\ (\A h : x # Add(h))
        BY <1>3, <2>1, Members DEF KeyTasks, VerdictTasks, Write, Adds, Add
  <2>3. Idle(Closing) /\ Closing # Add("encrypt") /\ Closing # Add("prefixer")
        BY IdleTasks DEF Idle, Handlers, Ciphers
  <2> HIDE DEF x
  <2>4. /\ Joined(queue, loop, x)
        BY <1>14 DEF x
  <2>5. /\ ~VerdictSent /\ ~client.framed /\ ~Comes("prefixer")
        /\ enableEncryption => client.crypt /\ Comes("encrypt")
        BY <1>4, <1>11, <1>14 DEF Judging, Undecided, Late, Legibly, CipherFirst, At
  <2>6. /\ Lone' /\ Begun' /\ ~At(Early)' /\ ~At(Keyed)' /\ ~At(Undecided)'
        /\ ~At(Judging)' /\ Begun
        BY <1>5, <1>14 DEF Early, Keyed, Judging, Undecided, Running, Ended
  <2>7. /\ Has(loop', KeyTasks) <=> Has(loop, KeyTasks)
        /\ One(loop, KeyTasks) => One(loop', KeyTasks)
        /\ Has(loop', {Add("encrypt")}) <=> Has(loop, {Add("encrypt")})
        /\ Has(loop', {Add("prefixer")}) <=> Has(loop, {Add("prefixer")})
        /\ One(loop, VerdictTasks) /\ ~Has(loop, VerdictTasks) => One(loop', VerdictTasks)
        /\ Led(loop, VerdictTasks, Add("encrypt")) /\ Has(loop, {Add("encrypt")})
             => Led(loop', VerdictTasks, Add("encrypt"))
        /\ Clear(loop, VerdictTasks, Add("prefixer")) /\ ~Has(loop, {Add("prefixer")})
             => Clear(loop', VerdictTasks, Add("prefixer"))
        BY <1>14, <2>2, <2>3, <2>4 DEF Joined, Idle
  <2>8. Greeted'
        BY <1>1, <1>2, <2>6 DEF Legibly, Greeted, InboxKept
  <2>9. OneKey' /\ KeyPlain'
        BY <1>1, <2>6, <2>7 DEF Legibly, OneKey, KeyPlain, KeySent
  <2>10. NoKeyYet' /\ NeverKey'
        BY <1>1, <2>5, <2>6, <2>7 DEF Legibly, NoKeyYet, NeverKey, Comes
  <2>11. OneVerdict' /\ VerdictForm'
        BY <1>1, <2>5, <2>6, <2>7 DEF Legibly, OneVerdict, VerdictForm, VerdictSent
  <2>12. CipherFirst' /\ FramingLast'
        BY <1>1, <2>5, <2>6, <2>7 DEF Legibly, CipherFirst, FramingLast, Comes
  <2> QED
      BY <2>6, <2>8, <2>9, <2>10, <2>11, <2>12 DEF Legibly
<1>15. ~active /\ (CheckVersion(t) \/ WriteAnswer(t)) => UNCHANGED loop
       BY DEF CheckVersion, WriteAnswer, Enqueue
<1>16. CASE CheckVersion(t)
  <2>1. CASE Enqueue(Disconnect("incompatible")) /\ pc' = [pc EXCEPT ![t] = "done"]
    <3>1. CASE active
      <4>1. pc[t] = "version" /\ "incompatible" \in Kinds
            BY <1>16 DEF CheckVersion, Kinds
      <4>2. PICK between : /\ Joined(between, loop, Write("incompatible", None))
                           /\ Joined(loop', between, Closing)
            BY <1>3, <2>1, <3>1, <4>1, EndQueue
      <4> QED
          BY <1>14, <2>1, <3>1, <4>1, <4>2 DEF Verdict, Judging
    <3>2. CASE ~active
          BY <1>6, <1>7, <1>15, <1>16, <2>1, <3>2 DEF Early, Keyed, Judging, Undecided, Late, Ended
    <3> QED
        BY <3>1, <3>2 DEF Types
  <2>2. CASE UNCHANGED loop /\ pc' = [pc EXCEPT ![t] = "answer"]
    <3>1. pc[t] = "version"
          BY <1>16 DEF CheckVersion
    <3> QED
        BY <1>6, <1>7, <2>2, <3>1 DEF Early, Keyed, Judging, Undecided, Late, Running
  <2> QED
      BY <1>16, <2>1, <2>2 DEF CheckVersion, After
<1>17. CASE WriteAnswer(t)
  <2>1. pc[t] = "answer" /\ pc' = [pc EXCEPT ![t] = "defrag"] /\ Enqueue(<<Write("answer", None)>>)
        BY <1>17 DEF WriteAnswer, After
  <2>2. CASE active
    <3>1. Write("answer", None) \in Tasks
          BY <1>3, TaskTypes DEF Kinds
    <3>2. Joined(loop', loop, Write("answer", None))
          BY <1>3, <2>1, <2>2, <3>1, EnqueueQueue
    <3> QED
        BY <1>14, <2>1, <2>2, <3>2 DEF Verdict, Judging
  <2>3. CASE ~active
        BY <1>6, <1>7, <1>15, <1>17, <2>1, <2>3 DEF Early, Keyed, Judging, Undecided, Late, Running
  <2> QED
      BY <2>2, <2>3 DEF Types
<1> QED
    BY <1>8, <1>9, <1>12, <1>13, <1>16, <1>17 DEF HandshakeStep

\* The event loop.
LEMMA LegiblyLoop == Types /\ Legibly /\ LoopStep => Legibly'
<1> SUFFICES ASSUME Types, Legibly, LoopStep PROVE Legibly'
    OBVIOUS
<1> USE DEF keys, fitted, threads, peer, pings
<1>1. /\ UNCHANGED <<enableEncryption, client, asked>>
      /\ loop \in Seq(Tasks) /\ toServer \in Seq(Messages) /\ toClient \in Seq(Messages)
      /\ None \in Ids /\ ready \subseteq Handlers /\ enableEncryption \in BOOLEAN
      BY DEF LoopStep, Types, Ids
<1>2. Lone
      BY DEF Legibly
<1>3. loop # <<>> => Head(loop) \in Tasks /\ Left(Tail(loop), loop, Head(loop))
      BY <1>1, TailQueue
\* The channel goes.
<1>4. ASSUME Close, OutboxKept PROVE Legibly'
  <2>1. loop' = <<>> /\ ready' = {} /\ active' = FALSE /\ toServer' = <<>> /\ UNCHANGED <<pc, aes>>
        BY <1>4 DEF Close
  <2>2. PcKept /\ TasksKept /\ InboxKept
        BY <1>2, <2>1, PcStays, TasksGo, InboxStays
  <2> QED
      BY <1>1, <1>4, <2>1, <2>2, LegiblyKept
<1>5. ASSUME NEW kind \in {"success", "error"}, toClient' = toClient \o Sent(Packet(kind, None))
      PROVE  OutboxKept
  <2>1. Packet(kind, None) \in Packets /\ Packet(kind, None).kind = kind
        BY <1>1, TaskTypes DEF Packet, Kinds
  <2> QED
      BY <1>5, <2>1, OutboxWritten
<1>6. CASE Refuse
      BY <1>4, <1>5, <1>6 DEF Refuse
\* A packet is read that says nothing of a key.
<1>7. ASSUME toServer # <<>>, toServer' = Tail(toServer), OutboxKept,
             UNCHANGED <<pc, loop, ready, active, aes>>
      PROVE  Legibly'
  <2>1. PcKept /\ TasksKept /\ InboxKept
        BY <1>2, <1>7, PcStays, TasksStay, InboxRead
  <2> QED
      BY <1>1, <1>7, <2>1, LegiblyKept
<1>8. CASE ReadConnect
  <2>1. CASE ~Refuse
        BY <1>5, <1>7, <1>8, <2>1 DEF ReadConnect, Reads, Finds
  <2> QED
      BY <1>6, <2>1
<1>9. UNCHANGED toClient => OutboxKept
      BY OutboxStays
<1>10. CASE ReadPong
  <2>1. CASE ~Refuse
        BY <1>7, <1>9, <1>10, <2>1 DEF ReadPong, Reads, Finds
  <2> QED
      BY <1>6, <2>1
<1>11. CASE Misread
  <2>1. CASE ~Refuse
        BY <1>7, <1>9, <1>11, <2>1 DEF Misread
  <2> QED
      BY <1>6, <2>1
\* A secret comes from a client that has a key.
<1>12. CASE ReadSecret
  <2>1. CASE UNCHANGED <<pending, aes, threads, fitted, ready, loop, active, toServer,
                         toClient, pings, past>>
    <3>1. PcKept /\ TasksKept /\ InboxKept /\ OutboxKept
          BY <1>2, <1>9, <2>1, PcStays, TasksStay, InboxStays
    <3> QED
        BY <1>1, <2>1, <3>1, LegiblyKept
  <2>2. CASE /\ Reads("secret")
             /\ UNCHANGED <<pending, threads, fitted, ready, loop, active, toClient, pings,
                            past>>
    <3>1. /\ toServer # <<>> /\ toServer' = Tail(toServer) /\ Head(toServer).kind = "secret"
          /\ UNCHANGED <<pc, loop, ready, active, toClient>>
          BY <2>2 DEF Reads, Finds
    <3>2. PcKept /\ TasksKept /\ InboxKept /\ OutboxKept
          BY <1>2, <1>9, <3>1, PcStays, TasksStay, InboxRead
    <3>3. Head(toServer) \in Secrets /\ Left(toServer', toServer, Head(toServer))
          BY <3>1, ReadQueue, Members DEF Secrets
    <3>4. client.crypt
          BY <3>3 DEF Left, Legibly, NoKeyYet
    <3> USE DEF Legibly
    <3>5. Lone'
          BY <3>2 DEF PcKept
    <3>6. Greeted'
          BY <1>1, <3>2 DEF Greeted, PcKept, InboxKept
    <3>7. OneKey'
          BY <1>1, <3>2 DEF OneKey, KeySent, PcKept, TasksKept, OutboxKept
    <3>8. KeyPlain' /\ NoKeyYet'
          BY <1>1, <3>1, <3>4 DEF KeyPlain, NoKeyYet
    <3>9. NeverKey'
          BY <1>1, <3>2 DEF NeverKey, Comes, PcKept, TasksKept
    <3>10. OneVerdict'
          BY <1>1, <3>2 DEF OneVerdict, VerdictSent, PcKept, TasksKept, OutboxKept
    <3>11. VerdictForm'
          BY <1>1, <3>1 DEF VerdictForm
    <3>12. CipherFirst' /\ FramingLast'
          BY <1>1, <3>1, <3>2 DEF CipherFirst, FramingLast, Comes, PcKept, TasksKept
    <3> QED
        BY <3>5, <3>6, <3>7, <3>8, <3>9, <3>10, <3>11, <3>12
  <2> QED
      BY <1>6, <1>12, <2>1, <2>2, SecretRead
\* The thread starts.
<1>13. CASE ReadHandshake
  <2> DEFINE id == Head(toServer).id
             step == IF enableEncryption THEN "rsa" ELSE "version"
  <2>1. /\ toServer # <<>> /\ toServer' = Tail(toServer) /\ Head(toServer).kind = "handshake"
        /\ pc' = [pc EXCEPT ![id] = step]
        /\ UNCHANGED <<aes, loop, ready, active, toClient>>
        BY <1>13 DEF ReadHandshake, Reads, Finds, Goto
  <2> HIDE DEF id
  <2>2. /\ Head(toServer) \in Greetings /\ Left(toServer', toServer, Head(toServer))
        BY <2>1, ReadQueue, Members DEF Greetings
  <2>3. ~Begun /\ asked # {} /\ ~Has(toServer', Greetings)
        BY <2>2 DEF Left, Legibly, Greeted
  <2>4. \A u \in Threads : /\ pc[u] = "unborn" /\ pc'[u] \in {"unborn", step}
                           /\ u # id => pc'[u] = "unborn"
    <3>1. pc \in [Threads -> Running \cup Ended]
          BY DEF Types
    <3> QED
        BY <2>1, <2>3, <3>1 DEF Begun
  <2>5. /\ enableEncryption => ~At(Late)' /\ ~At(Judging)'
        /\ ~enableEncryption => ~At(Keyed)'
    <3>1. "rsa" \notin Late /\ "rsa" \notin Judging /\ "version" \notin Keyed
          /\ "unborn" \notin Late /\ "unborn" \notin Judging /\ "unborn" \notin Keyed
          BY DEF Late, Judging, Keyed, Early
    <3> QED
        BY <1>1, <2>4, <3>1 DEF At
  <2>6. InboxKept
        BY <2>1, InboxRead
  <2>7. ~KeySent /\ ~VerdictSent /\ ~client.crypt /\ ~client.framed /\ ~Comes("prefixer")
        BY <2>3 DEF Legibly, OneKey, OneVerdict, FramingLast
  <2> USE DEF Legibly
  <2>8. Lone'
        BY <2>4 DEF Lone
  <2>9. Greeted'
        BY <1>1, <2>3, <2>6 DEF Greeted, InboxKept
  <2>10. OneKey' /\ KeyPlain'
        BY <1>1, <2>1, <2>7 DEF OneKey, KeyPlain, KeySent
  <2>11. NoKeyYet' /\ NeverKey'
        BY <1>1, <2>1, <2>5, <2>6 DEF NoKeyYet, NeverKey, VerdictSent, Comes, InboxKept
  <2>12. OneVerdict' /\ VerdictForm'
        BY <1>1, <2>1, <2>7 DEF OneVerdict, VerdictForm, VerdictSent
  <2>13. CipherFirst' /\ FramingLast'
        BY <1>1, <2>1, <2>5, <2>7 DEF CipherFirst, FramingLast, Comes
  <2> QED
      BY <2>8, <2>9, <2>10, <2>11, <2>12, <2>13
<1>14. CASE RunTask
  <2>1. loop # <<>> /\ Head(loop) \in Tasks /\ Left(Tail(loop), loop, Head(loop))
        BY <1>3, <1>14 DEF RunTask
  <2>2. CASE Head(loop).op = "close"
        BY <1>4, <1>9, <1>14, <2>2 DEF RunTask
  <2>3. CASE Head(loop).op = "add"
    <3> DEFINE h == Head(loop).name
    <3>1. /\ ready' = ready \cup {h} /\ loop' = Tail(loop)
          /\ UNCHANGED <<pc, aes, active, toServer, toClient>>
          BY <1>14, <2>3 DEF RunTask
    <3>2. Head(loop) = Add(h) /\ h \in Handlers /\ Head(loop) \in Adds
          BY <2>1, <2>3 DEF Tasks, Add, Adds
    <3>3. Add(h) \notin KeyTasks /\ Add(h) \notin VerdictTasks /\ \A g : Add(h) = Add(g) <=> h = g
          BY Members DEF KeyTasks, VerdictTasks, Add
    <3> HIDE DEF h
    <3>4. Left(loop', loop, Add(h))
          BY <2>1, <3>1, <3>2
    <3>5. PcKept /\ InboxKept /\ OutboxKept
          BY <1>2, <3>1, PcStays, InboxStays, OutboxStays
    <3> USE DEF Legibly
    <3>6. Lone'
          BY <3>5 DEF PcKept
    <3>7. Greeted'
          BY <1>1, <3>5 DEF Greeted, PcKept, InboxKept
    <3>8. OneKey' /\ KeyPlain'
          BY <1>1, <3>1, <3>3, <3>4, <3>5 DEF OneKey, KeyPlain, KeySent, Left, PcKept
    <3>9. NoKeyYet'
          BY <1>1, <3>1, <3>2, <3>4, <3>5 DEF NoKeyYet, Left, PcKept
    <3>10. NeverKey'
          BY <1>1, <3>1, <3>3, <3>4, <3>5 DEF NeverKey, Comes, Left, PcKept
    <3>11. OneVerdict' /\ VerdictForm'
          BY <1>1, <3>1, <3>3, <3>4, <3>5 DEF OneVerdict, VerdictForm, VerdictSent, Left, PcKept
    <3>12. CipherFirst'
          BY <1>1, <3>1, <3>3, <3>4, <3>5 DEF CipherFirst, Comes, Left, PcKept
    <3>13. FramingLast'
          BY <1>1, <3>1, <3>3, <3>4, <3>5 DEF FramingLast, Comes, Left, PcKept
    <3> QED
        BY <3>6, <3>7, <3>8, <3>9, <3>10, <3>11, <3>12, <3>13
  <2>4. CASE Head(loop).op = "write"
    <3> DEFINE p == Head(loop).packet
    <3>1. p \in Packets
          BY <2>1, <2>4, TaskTypes
    <3>2. /\ loop' = Tail(loop) /\ toClient' = toClient \o Sent(p)
          /\ UNCHANGED <<pc, aes, ready, active, toServer>>
          BY <1>14, <2>4 DEF RunTask
    <3>3. /\ Head(loop) \in KeyTasks <=> p.kind = "encryption"
          /\ Head(loop) \in VerdictTasks <=> p.kind \in Verdict
          BY <2>1, <2>4, Members DEF KeyTasks, VerdictTasks
    <3>4. Head(loop) \notin Adds /\ (\A h : Head(loop) # Add(h))
          BY <2>4 DEF Adds, Add
    <3>5. /\ OnWire(p) \in Messages
          /\ toClient' = toClient \/ Joined(toClient', toClient, OnWire(p))
          BY <1>1, <3>1, <3>2, WireQueue
    <3>6. /\ OnWire(p).kind = p.kind
          /\ OnWire(p).crypt = ("encrypt" \in ready)
          /\ OnWire(p).framed = ("prefixer" \in ready)
          BY DEF OnWire
    <3> HIDE DEF p
    <3>7. Left(loop', loop, Head(loop))
          BY <2>1, <3>2
    <3>8. PcKept /\ InboxKept
          BY <1>2, <3>2, PcStays, InboxStays
    <3>9. CASE p.kind \notin {"encryption", "answer", "incompatible"}
      <4>1. TasksKept
            BY <3>2, <3>3, <3>4, <3>7, <3>9, TasksLeft DEF Idle, Verdict
      <4>2. OutboxKept
            BY <3>1, <3>2, <3>9, OutboxWritten
      <4> QED
          BY <1>1, <3>2, <3>8, <4>1, <4>2, LegiblyKept
    <3>10. /\ OnWire(p) \in Keys <=> p.kind = "encryption"
           /\ OnWire(p) \in Verdicts <=> p.kind \in Verdict
           BY <3>5, <3>6, Members DEF Keys, Verdicts
    <3> USE DEF Legibly
    <3>11. Lone'
           BY <3>8 DEF PcKept
    <3>12. Greeted'
           BY <1>1, <3>8 DEF Greeted, PcKept, InboxKept
\* The queue of tasks has one key or verdict less,
    <3>13. /\ Has(loop, KeyTasks) <=> p.kind = "encryption" \/ Has(loop', KeyTasks)
           /\ One(loop', KeyTasks) /\ (p.kind = "encryption" => ~Has(loop', KeyTasks))
           /\ Has(loop, VerdictTasks) <=> p.kind \in Verdict \/ Has(loop', VerdictTasks)
           /\ One(loop', VerdictTasks) /\ (p.kind \in Verdict => ~Has(loop', VerdictTasks))
           /\ Has(loop', Adds) => Has(loop, Adds)
           /\ \A h : Has(loop', {Add(h)}) <=> Has(loop, {Add(h)})
           BY <3>3, <3>4, <3>7 DEF Left, OneKey, OneVerdict
    <3>14. /\ Clear(loop', VerdictTasks, Add("prefixer"))
           /\ Led(loop, VerdictTasks, Add("encrypt")) =>
                 p.kind \notin Verdict /\ Led(loop', VerdictTasks, Add("encrypt"))
           BY <3>3, <3>4, <3>7 DEF Left, FramingLast
\* the client at most one more to read.
    <3>15. /\ Has(toClient', Keys) => Has(toClient, Keys) \/ p.kind = "encryption"
           /\ One(toClient, Keys) /\ ~(Has(toClient, Keys) /\ p.kind = "encryption")
                 => One(toClient', Keys)
           /\ Has(toClient', Verdicts) => Has(toClient, Verdicts) \/ p.kind \in Verdict
           /\ One(toClient, Verdicts) /\ ~(Has(toClient, Verdicts) /\ p.kind \in Verdict)
                 => One(toClient', Verdicts)
           BY <3>5, <3>10 DEF Joined
    <3>16. /\ p.kind = "encryption" => ready = {}
           /\ p.kind \in Verdict => /\ "prefixer" \notin ready
                                    /\ ("encrypt" \in ready) = enableEncryption
           BY <1>1, <3>13, <3>14 DEF OneKey, KeySent, NoKeyYet, FramingLast, CipherFirst,
              NeverKey, Comes
    <3>17. OneKey'
           BY <1>1, <3>8, <3>13, <3>15 DEF OneKey, KeySent, PcKept
    <3>18. OneVerdict'
           BY <1>1, <3>8, <3>13, <3>15 DEF OneVerdict, VerdictSent, PcKept
    <3>19. KeyPlain' /\ VerdictForm'
      <4>0. \A K : /\ OnWire(p) \in Crypted(K) => p.kind \in K /\ "encrypt" \in ready
                   /\ OnWire(p) \in Plain(K) => p.kind \in K /\ "encrypt" \notin ready
                   /\ OnWire(p) \in Framed(K) => p.kind \in K /\ "prefixer" \in ready
            BY <3>5, <3>6, Forms
      <4>1. /\ OnWire(p) \notin Crypted({"encryption"})
            /\ OnWire(p) \notin Framed({"encryption"})
            BY <3>16, <4>0
      <4>2. /\ OnWire(p) \notin Framed(Verdict)
            /\ enableEncryption => OnWire(p) \notin Plain(Verdict)
            /\ ~enableEncryption => OnWire(p) \notin Crypted(Verdict)
            BY <3>16, <4>0
      <4>3. \A S : OnWire(p) \notin S /\ Has(toClient', S) => Has(toClient, S)
            BY <3>5 DEF Joined
      <4> QED
          BY <1>1, <4>1, <4>2, <4>3 DEF KeyPlain, VerdictForm
    <3>20. NoKeyYet'
           BY <1>1, <3>2, <3>8, <3>13, <3>15 DEF NoKeyYet, VerdictSent, PcKept, InboxKept
    <3>21. NeverKey'
           BY <1>1, <3>2, <3>8, <3>13 DEF NeverKey, Comes, PcKept
    <3>22. CipherFirst' /\ FramingLast'
           BY <1>1, <3>2, <3>8, <3>13, <3>14 DEF CipherFirst, FramingLast, Comes, PcKept
    <3> QED
        BY <3>11, <3>12, <3>17, <3>18, <3>19, <3>20, <3>21, <3>22
  <2> QED
      BY <1>14, <2>2, <2>3, <2>4 DEF RunTask
<1> QED
    BY <1>8, <1>10, <1>11, <1>12, <1>13, <1>14 DEF LoopStep

\* The client.
LEMMA LegiblyClient ==
    Types /\ Legibly /\ ~Repeated' /\ (ClientReads \/ ClientActs) => Legibly'
<1> SUFFICES ASSUME Types, Legibly, ~Repeated', ClientReads \/ ClientActs PROVE Legibly'
    OBVIOUS
<1>1. /\ UNCHANGED <<enableEncryption, aes, pc, loop, ready, active>>
      /\ toServer \in Seq(Messages) /\ toClient \in Seq(Messages) /\ None \in Ids
      /\ client \in [crypt : BOOLEAN, framed : BOOLEAN, online : BOOLEAN, deaf : BOOLEAN]
      BY DEF ClientReads, ClientActs, ClientOnly, keys, threads, Types, Ids
<1>2. Lone /\ PcKept /\ TasksKept
      BY <1>1, PcStays, TasksStay DEF Legibly
<1>3. toClient # <<>> =>
          Head(toClient) \in Messages /\ Left(Tail(toClient), toClient, Head(toClient))
      BY <1>1, TailQueue
<1>4. \A kind \in Kinds, id \in Ids :
          InForm(kind, id) \in Messages /\ InForm(kind, id).kind = kind
      BY <1>1 DEF InForm, Messages
<1>5. ASSUME InboxKept, OutboxKept, UNCHANGED asked,
             client'.crypt = client.crypt, client'.framed = client.framed
      PROVE  Legibly'
      BY <1>1, <1>2, <1>5, LegiblyKept
<1>6. \A kind : Gets(kind) => OutboxKept /\ UNCHANGED asked
      BY OutboxRead DEF Gets
<1>7. UNCHANGED toServer => InboxKept
      BY InboxStays
\* It takes the key, of which there is one,
<1>8. CASE ClientGetsKey
  <2> DEFINE m == InForm("secret", Head(toClient).id)
  <2>1. /\ toClient # <<>> /\ toClient' = Tail(toClient) /\ Head(toClient).kind = "encryption"
        /\ UNCHANGED asked /\ Send(m) /\ client' = [client EXCEPT !.crypt = TRUE]
        BY <1>8 DEF ClientGetsKey, Gets
  <2>2. client'.crypt = TRUE /\ client'.framed = client.framed
        BY <1>1, <2>1
  <2>3. Head(toClient) \in Keys /\ Left(toClient', toClient, Head(toClient))
        BY <1>3, <2>1, Members DEF Keys
  <2>4. m \in Messages /\ m.kind = "secret"
    <3>1. Head(toClient).id \in Ids
          BY <1>3, <2>1 DEF Messages
    <3> QED
        BY <1>4, <3>1 DEF Kinds
  <2> HIDE DEF m
  <2>5. /\ Has(toServer', Greetings) => Has(toServer, Greetings)
        /\ One(toServer, Greetings) => One(toServer', Greetings)
    <3>1. m \notin Greetings
          BY <2>4, Members DEF Greetings
    <3> QED
        BY <1>1, <2>1, <2>4, <3>1, SendQueue DEF Joined, Types
  <2>6. OutboxKept
        BY <2>1, OutboxRead
  <2>7. /\ Has(toClient, Keys) /\ ~Has(toClient', Keys) /\ ~Has(loop, KeyTasks)
        /\ enableEncryption /\ Begun /\ ~At(Early)
        BY <2>3 DEF Left, Legibly, OneKey, KeySent
  <2> USE DEF Legibly
  <2>8. Lone'
        BY <1>2 DEF PcKept
  <2>9. Greeted'
        BY <1>2, <2>1, <2>5 DEF Greeted, PcKept
  <2>10. OneKey'
         BY <1>1, <1>2, <2>6, <2>7 DEF OneKey, KeySent, OutboxKept, PcKept, TasksKept
  <2>11. KeyPlain' /\ NoKeyYet' /\ NeverKey'
         BY <1>1, <2>2, <2>6, <2>7 DEF KeyPlain, NoKeyYet, NeverKey, OutboxKept
  <2>12. OneVerdict'
         BY <1>1, <1>2, <2>2, <2>6 DEF OneVerdict, VerdictSent, OutboxKept, PcKept
  <2>13. VerdictForm'
         BY <1>1, <2>6 DEF VerdictForm, OutboxKept
  <2>14. CipherFirst' /\ FramingLast'
         BY <1>1, <1>2 DEF CipherFirst, FramingLast, Comes, PcKept
  <2> QED
      BY <2>8, <2>9, <2>10, <2>11, <2>12, <2>13, <2>14
\* and the answer, of which there is one.
<1>9. CASE ClientGetsAnswer
  <2>1. /\ toClient # <<>> /\ toClient' = Tail(toClient) /\ Head(toClient).kind = "answer"
        /\ UNCHANGED asked /\ client' = [client EXCEPT !.framed = TRUE]
        BY <1>9 DEF ClientGetsAnswer, Gets
  <2>2. client'.framed = TRUE /\ client'.crypt = client.crypt
        BY <1>1, <2>1
  <2>3. Head(toClient) \in Verdicts /\ Left(toClient', toClient, Head(toClient))
        BY <1>3, <2>1, Members DEF Verdicts, Verdict
  <2>4. InboxKept
    <3> DEFINE m == [InForm("connect", None) EXCEPT !.framed = TRUE]
    <3>1. m \in Messages /\ m.kind = "connect"
          BY <1>1 DEF InForm, Messages, Kinds
    <3>2. UNCHANGED toServer \/ Send(m)
          BY <1>9 DEF ClientGetsAnswer
    <3> HIDE DEF m
    <3> QED
        BY <1>7, <3>1, <3>2, InboxSent
  <2>5. OutboxKept
        BY <2>1, OutboxRead
  <2>6. /\ Has(toClient, Verdicts) /\ ~Has(toClient', Verdicts) /\ ~Has(loop, VerdictTasks)
        /\ Begun /\ ~At(Undecided)
        /\ enableEncryption => client.crypt
        BY <2>3 DEF Left, Legibly, OneVerdict, VerdictSent, NoKeyYet
  <2> USE DEF Legibly
  <2>7. Lone'
        BY <1>2 DEF PcKept
  <2>8. Greeted'
        BY <1>2, <2>1, <2>4 DEF Greeted, PcKept, InboxKept
  <2>9. OneKey'
        BY <1>1, <1>2, <2>2, <2>5 DEF OneKey, KeySent, OutboxKept, PcKept
  <2>10. KeyPlain' /\ NoKeyYet' /\ NeverKey'
         BY <1>1, <1>2, <2>2, <2>4, <2>5, <2>6
            DEF KeyPlain, NoKeyYet, NeverKey, Comes, OutboxKept, InboxKept, PcKept
  <2>11. OneVerdict'
         BY <1>1, <1>2, <2>5, <2>6 DEF OneVerdict, VerdictSent, OutboxKept, PcKept
  <2>12. VerdictForm'
         BY <1>1, <2>5 DEF VerdictForm, OutboxKept
  <2>13. CipherFirst' /\ FramingLast'
         BY <1>1, <1>2 DEF CipherFirst, FramingLast, Comes, PcKept
  <2> QED
      BY <2>7, <2>8, <2>9, <2>10, <2>11, <2>12, <2>13
<1>10. CASE ClientGetsPing
  <2>1. InboxKept
    <3>1. InForm("pong", None) \in Messages /\ InForm("pong", None).kind = "pong"
          BY <1>1, <1>4 DEF Kinds
    <3> QED
        BY <1>10, <3>1, InboxSent DEF ClientGetsPing
  <2> QED
      BY <1>5, <1>6, <1>10, <2>1 DEF ClientGetsPing
<1>11. CASE ClientGetsOther
  <2>1. client'.crypt = client.crypt /\ client'.framed = client.framed
        BY <1>1, <1>11 DEF ClientGetsOther
  <2> QED
      BY <1>5, <1>6, <1>7, <1>11, <2>1 DEF ClientGetsOther
<1>12. CASE ClientMisreads
  <2>1. client'.crypt = client.crypt /\ client'.framed = client.framed
        BY <1>1, <1>12 DEF ClientMisreads
  <2>2. OutboxKept
        BY <1>12, OutboxRead DEF ClientMisreads
  <2> QED
      BY <1>5, <1>7, <1>12, <2>1, <2>2 DEF ClientMisreads
<1>13. CASE ClientFallsSilent
  <2>1. client'.crypt = client.crypt /\ client'.framed = client.framed
        BY <1>1, <1>13 DEF ClientFallsSilent
  <2> QED
      BY <1>5, <1>7, <1>13, <2>1, OutboxStays DEF ClientFallsSilent
\* It sends the only handshake.
<1>14. ASSUME NEW t \in Threads, ClientHandshake(t) PROVE Legibly'
  <2>1. /\ UNCHANGED <<toClient, client>> /\ asked' = asked \cup {t} /\ t \notin asked
        /\ Send(InForm("handshake", t)) /\ active
        BY <1>14 DEF ClientHandshake
  <2>2. asked = {}
        BY <2>1 DEF Repeated
  <2>3. ~Begun /\ ~Has(toServer, Greetings) /\ One(toServer, Greetings)
        BY <2>2 DEF Legibly, Greeted
  <2>4. /\ InForm("handshake", t) \in Messages /\ InForm("handshake", t) \notin Secrets
    <3>1. "handshake" \in Kinds /\ t \in Ids
          BY DEF Kinds, Ids
    <3> QED
        BY <1>4, <3>1, Members DEF Secrets
  <2>5. Joined(toServer', toServer, InForm("handshake", t))
        BY <1>1, <2>1, <2>4, SendQueue DEF Types
  <2>6. One(toServer', Greetings) /\ (Has(toServer', Secrets) => Has(toServer, Secrets))
        BY <2>3, <2>4, <2>5 DEF Joined
  <2> USE DEF Legibly
  <2>7. Lone' /\ ~Begun'
        BY <1>2, <2>3 DEF PcKept
  <2>8. Greeted'
        BY <2>1, <2>6, <2>7 DEF Greeted
  <2>9. OneKey' /\ KeyPlain'
        BY <1>1, <1>2, <2>1 DEF OneKey, KeyPlain, KeySent, PcKept
  <2>10. NoKeyYet' /\ NeverKey'
         BY <1>1, <1>2, <2>1, <2>6 DEF NoKeyYet, NeverKey, VerdictSent, Comes, PcKept
  <2>11. OneVerdict' /\ VerdictForm'
         BY <1>1, <1>2, <2>1 DEF OneVerdict, VerdictForm, VerdictSent, PcKept
  <2>12. CipherFirst' /\ FramingLast'
         BY <1>1, <1>2 DEF CipherFirst, FramingLast, Comes, PcKept
  <2> QED
      BY <2>7, <2>8, <2>9, <2>10, <2>11, <2>12
<1> QED
    BY <1>8, <1>9, <1>10, <1>11, <1>12, <1>13, <1>14 DEF ClientReads, ClientActs

LEMMA LegibleStep == Types /\ LegibleInv /\ [Next]_vars => LegibleInv'
<1> SUFFICES ASSUME Types, LegibleInv, [Next]_vars, ~Repeated' PROVE Legibly'
    BY DEF LegibleInv
<1>1. asked \subseteq asked'
      BY DEF Next, vars, peer, HandshakeStep, LoopStep, DropChannel, Tick, ClientReads, ClientActs,
         ClientGetsKey, ClientGetsAnswer, ClientGetsPing, ClientGetsOther, Gets, ClientMisreads,
         ClientFallsSilent, ClientHandshake
<1>2. Legibly
      BY <1>1 DEF LegibleInv, Repeated
<1>3. Lone
      BY <1>2 DEF Legibly
<1>4. CASE DropChannel
  <2>1. /\ UNCHANGED <<enableEncryption, aes, asked, client, pc>> /\ toServer' = <<>>
        /\ toClient' = <<>> /\ loop' = <<>> /\ ready' = {} /\ active' = FALSE
        BY <1>4 DEF DropChannel, Close, threads, peer
  <2>2. PcKept /\ TasksKept /\ InboxKept /\ OutboxKept
        BY <1>3, <2>1, PcStays, TasksGo, InboxStays, OutboxStays
  <2> QED
      BY <1>2, <2>1, <2>2, LegiblyKept
<1>5. CASE Tick
  <2>1. UNCHANGED <<enableEncryption, aes, asked, client, pc, ready, active, toServer, toClient>>
        BY <1>5 DEF Tick, keys, threads, peer
  <2>2. TasksKept
    <3>1. \/ UNCHANGED loop
          \/ Enqueue(Disconnect("error"))
          \/ Enqueue(<<Write("ping", None)>>)
          BY <1>5 DEF Tick
    <3>2. "ping" \in Kinds /\ None \in Ids
          BY DEF Kinds, Ids
    <3> QED
        BY <2>1, <3>1, <3>2, TasksStay, TasksEnqueued
  <2>3. PcKept /\ InboxKept /\ OutboxKept
        BY <1>3, <2>1, PcStays, InboxStays, OutboxStays
  <2> QED
      BY <1>2, <2>1, <2>2, <2>3, LegiblyKept
<1>6. CASE UNCHANGED vars
  <2>1. UNCHANGED <<enableEncryption, aes, asked, client, pc, loop, ready, active, toServer,
                    toClient>>
        BY <1>6 DEF vars, keys, threads, peer
  <2>2. PcKept /\ TasksKept /\ InboxKept /\ OutboxKept
        BY <1>3, <2>1, PcStays, TasksStay, InboxStays, OutboxStays
  <2> QED
      BY <1>2, <2>1, <2>2, LegiblyKept
<1> QED
    BY <1>2, <1>4, <1>5, <1>6, LegiblyThread, LegiblyLoop, LegiblyClient DEF Next

\* What the client reads next of a handshake is in the form it expects.
LEMMA LegibleHead == Types /\ LegibleInv => HandshakeLegible
<1> SUFFICES ASSUME Types, Legibly, toClient # <<>>,
                    Head(toClient).kind \in {"encryption", "answer", "incompatible"}
             PROVE  ClientLegible(Head(toClient))
    BY DEF LegibleInv, HandshakeLegible
<1> DEFINE m == Head(toClient)
<1>1. /\ m \in Messages
      /\ \A S : m \in S => Has(toClient, S)
  <2>1. m \in Messages /\ Left(Tail(toClient), toClient, m)
        BY TailQueue DEF Types
  <2> QED
      BY <2>1 DEF Left
<1>2. /\ m.crypt \in BOOLEAN /\ m.framed \in BOOLEAN
      /\ client.crypt \in BOOLEAN /\ client.framed \in BOOLEAN /\ enableEncryption \in BOOLEAN
      BY <1>1 DEF Messages, Types
<1> HIDE DEF m
<1>3. CASE m.kind = "encryption"
  <2>1. m \in Keys
        BY <1>1, <1>3, Members DEF Keys
  <2>2. m.crypt = FALSE /\ m.framed = FALSE
        BY <1>1, <1>2, <1>3, Forms DEF Legibly, KeyPlain
  <2>3. client.crypt = FALSE /\ client.framed = FALSE
        BY <1>1, <1>2, <2>1 DEF Legibly, OneKey, KeySent, NoKeyYet
  <2> QED
      BY <2>2, <2>3 DEF ClientLegible, m
<1>4. CASE m.kind \in Verdict
  <2>1. m \in Verdicts
        BY <1>1, <1>4, Members DEF Verdicts
  <2>2. m.crypt = enableEncryption /\ m.framed = FALSE
        BY <1>1, <1>2, <1>4, Forms DEF Legibly, VerdictForm
  <2>3. client.crypt = enableEncryption /\ client.framed = FALSE
        BY <1>1, <1>2, <2>1 DEF Legibly, OneVerdict, VerdictSent, NoKeyYet, NeverKey
  <2> QED
      BY <2>2, <2>3 DEF ClientLegible, m
<1> QED
    BY <1>3, <1>4 DEF m, Verdict

\* The key, the answer and the refusal of a version reach the client of one
\* handshake in the form it can read, whatever the order in which the handshake
\* thread adds handlers (PacketHandler lines 93, 94 and 107 to 114), writes (lines
\* 80, 99 and 105) and the event loop runs these tasks.
THEOREM HandshakeIsLegible == Spec => []HandshakeLegible
<1>1. Init => LegibleInv
      BY LegiblyInit DEF LegibleInv
<1> QED
    BY TypesInit, TypesStep, <1>1, LegibleStep, LegibleHead, PTL DEF Spec

-----------------------------------------------------------------------------
(* The keys of the ciphers.                                                *)

\* The types of what the ciphers depend on.
KeyTypes ==
    /\ pending \in Ids
    /\ pc \in [Threads -> Running \cup Ended]
    /\ got \in [Threads -> Ids]
    /\ cipher \in [Ciphers -> Ids]
    /\ past \in Past

\* As long as no handshake was read while another was under way,
Alone ==
    ~past.overlapped =>
        \A t, u \in Threads : pc[t] \in Running /\ pc[u] \in Running => t = u

\* the secret that ended the wait stays until it is taken,
SecretStays ==
    ~past.overlapped /\ active => \A t \in Threads : pc[t] = "take" => pending \in aes

\* and what was taken has a key.
TakenHasKey ==
    ~past.overlapped /\ active =>
        \A t \in Threads : pc[t] \in {"remove", "decrypt", "encrypt"} => got[t] \in aes

ClosedIsEmpty == ~active => linked = {}

KeyInv ==
    KeyTypes /\ Alone /\ SecretStays /\ TakenHasKey /\ ClosedIsEmpty /\ CipherHasKey

LEMMA KeyInit == Init => KeyInv
<1> SUFFICES ASSUME Init PROVE KeyInv
    OBVIOUS
<1>1. KeyTypes
      BY DEF Init, KeyTypes, Ids, Past, Ended, Ciphers
<1>2. \A t \in Threads : pc[t] \notin Running \cup {"take", "remove", "decrypt", "encrypt"}
      BY DEF Init, Running
<1> QED
    BY <1>1, <1>2 DEF Init, KeyInv, Alone, SecretStays, TakenHasKey, ClosedIsEmpty,
       CipherHasKey

\* What happens to the invariant when the threads stay where they are, keys and
\* handlers at most go with the channel, and secrets come in.
LEMMA Kept ==
    ASSUME KeyInv, past' \in Past, past'.overlapped = past.overlapped,
           UNCHANGED <<pc, got>>, cipher' = cipher \/ cipher' = Used, aes \subseteq aes',
           \/ UNCHANGED <<pending, linked, active>>
           \/ pending' = None /\ linked' = {} /\ ~active'
    PROVE  KeyInv'
<1>1. KeyTypes'
  <2>1. Used \in [Ciphers -> Ids]
        BY DEF KeyInv, KeyTypes, Used, Ids
  <2> QED
      BY <2>1 DEF KeyInv, KeyTypes, Ids
<1>2. Alone'
      BY DEF KeyInv, Alone
<1>3. SecretStays' /\ TakenHasKey' /\ ClosedIsEmpty'
      BY DEF KeyInv, SecretStays, TakenHasKey, ClosedIsEmpty
\* A cipher that has a key is not worn out by its use.
<1>4. CipherHasKey'
  <2> SUFFICES ASSUME ~past.overlapped, NEW h \in Ciphers \cap linked'
               PROVE  cipher'[h] \in aes'
      BY DEF CipherHasKey
  <2>1. h \in linked /\ cipher[h] \in aes
        BY DEF KeyInv, CipherHasKey
  <2>2. Used[h] = cipher[h]
        BY <2>1 DEF KeyInv, KeyTypes, Used
  <2> QED
      BY <2>1, <2>2
<1> QED
    BY <1>1, <1>2, <1>3, <1>4 DEF KeyInv

LEMMA KeyThread ==
    ASSUME KeyInv, NEW t \in Threads, HandshakeStep(t) PROVE KeyInv'
<1> USE DEF keys, fitted, threads, Goto
<1>1. KeyTypes /\ Alone /\ SecretStays /\ TakenHasKey /\ ClosedIsEmpty /\ CipherHasKey
      BY DEF KeyInv
<1>2. UNCHANGED <<active, past>>
      BY DEF HandshakeStep
<1>3. pc[t] \in Running
      BY DEF HandshakeStep, CheckRsa, MakeRsa, GenerateRsa, OfferEncryption, PublishKey,
             AwaitSecret, TakeEncryption, RemoveRequest, AddHandler, CheckVersion, WriteAnswer,
             Running, Handlers, Ciphers
<1>4. \A u \in Threads : ~past.overlapped /\ u # t => pc[u] \notin Running
      BY <1>1, <1>3 DEF Alone
\* It suffices to look at this thread, for the others do not run.
<1>5. ASSUME NEW step \in Running \cup Ended, pc' = [pc EXCEPT ![t] = step], UNCHANGED aes,
             pending' \in Ids, got' \in [Threads -> Ids], cipher' \in [Ciphers -> Ids],
             ~past.overlapped /\ active /\ step = "take" => pending' \in aes,
             ~past.overlapped /\ active /\ step \in {"remove", "decrypt", "encrypt"} =>
                 got'[t] \in aes,
             ~active => linked' = {},
             CipherHasKey'
      PROVE  KeyInv'
  <2>1. KeyTypes'
        BY <1>1, <1>2, <1>5 DEF KeyTypes
  <2>2. \A u \in Threads : u # t => pc'[u] = pc[u]
        BY <1>1, <1>5 DEF KeyTypes
  <2>3. pc'[t] = step
        BY <1>1, <1>5 DEF KeyTypes
  <2>4. Alone'
        BY <1>2, <1>4, <2>2 DEF Alone
  <2>5. SecretStays'
        BY <1>2, <1>4, <1>5, <2>2, <2>3 DEF SecretStays, Running
  <2>6. TakenHasKey'
        BY <1>2, <1>4, <1>5, <2>2, <2>3 DEF TakenHasKey, Running
  <2> QED
      BY <1>2, <1>5, <2>1, <2>4, <2>5, <2>6 DEF KeyInv, ClosedIsEmpty
<1>6. CASE CheckRsa(t) \/ MakeRsa(t) \/ GenerateRsa(t) \/ OfferEncryption(t)
           \/ PublishKey(t) \/ CheckVersion(t) \/ WriteAnswer(t)
  <2>1. PICK step \in (Running \cup Ended) \ {"take", "remove", "decrypt", "encrypt"} :
            pc' = [pc EXCEPT ![t] = step]
        BY <1>6 DEF CheckRsa, MakeRsa, GenerateRsa, OfferEncryption, PublishKey, CheckVersion,
                    WriteAnswer, After, Running, Ended
  <2>2. UNCHANGED <<aes, got, linked, cipher>> /\ pending' \in {pending, t}
        BY <1>6 DEF CheckRsa, MakeRsa, GenerateRsa, OfferEncryption, PublishKey, CheckVersion,
                    WriteAnswer
  <2>3. CipherHasKey'
        BY <1>1, <1>2, <2>2 DEF CipherHasKey
  <2> QED
      BY <1>1, <1>5, <2>1, <2>2, <2>3 DEF KeyTypes, Ids, ClosedIsEmpty
<1>7. CASE AwaitSecret(t)
  <2>1. PICK step \in {"dead", "done", "take"} : /\ pc' = [pc EXCEPT ![t] = step]
                                                 /\ step = "take" => pending \in aes
        BY <1>7 DEF AwaitSecret
  <2>2. UNCHANGED <<pending, aes, got, linked, cipher>>
        BY <1>7 DEF AwaitSecret
  <2>3. CipherHasKey'
        BY <1>1, <1>2, <2>2 DEF CipherHasKey
  <2> QED
      BY <1>1, <1>5, <2>1, <2>2, <2>3 DEF KeyTypes, ClosedIsEmpty, Running, Ended
<1>8. CASE TakeEncryption(t)
  <2>1. /\ pc[t] = "take" /\ pc' = [pc EXCEPT ![t] = "remove"]
        /\ got' = [got EXCEPT ![t] = pending]
        /\ UNCHANGED <<pending, aes, linked, cipher>>
        BY <1>8 DEF TakeEncryption
  <2>2. got' \in [Threads -> Ids] /\ got'[t] = pending
        BY <1>1, <2>1 DEF KeyTypes
  <2>3. CipherHasKey'
        BY <1>1, <1>2, <2>1 DEF CipherHasKey
  <2> QED
      BY <1>1, <1>5, <2>1, <2>2, <2>3 DEF KeyTypes, ClosedIsEmpty, SecretStays, Running
<1>9. CASE RemoveRequest(t)
  <2>1. /\ pc[t] = "remove" /\ pc' = [pc EXCEPT ![t] = "decrypt"]
        /\ pending' = None
        /\ UNCHANGED <<got, aes, linked, cipher>>
        BY <1>9 DEF RemoveRequest, After
  <2>2. CipherHasKey'
        BY <1>1, <1>2, <2>1 DEF CipherHasKey
  <2> QED
      BY <1>1, <1>5, <2>1, <2>2 DEF KeyTypes, ClosedIsEmpty, TakenHasKey, Running, Ids
<1>10. ASSUME NEW h \in Handlers, AddHandler(t, h)
       PROVE  KeyInv'
  <2>1. pc[t] = h /\ UNCHANGED <<pending, aes, got>>
        BY <1>10 DEF AddHandler
  <2>2. CASE active /\ h \notin linked
    <3>1. /\ linked' = linked \cup {h}
          /\ cipher' = [k \in Ciphers |-> IF k = h THEN got[t] ELSE cipher[k]]
          /\ pc' = [pc EXCEPT ![t] = After[h]]
          BY <1>10, <2>2 DEF AddHandler
    <3>2. cipher' \in [Ciphers -> Ids]
          BY <1>1, <3>1 DEF KeyTypes
    <3>3. /\ After[h] \in (Running \cup Ended) \ {"take", "remove", "decrypt"}
          /\ After[h] = "encrypt" => h = "decrypt"
          BY DEF After, Handlers, Ciphers, Running, Ended
    <3>4. ~past.overlapped /\ h \in Ciphers => got[t] \in aes
          BY <1>1, <2>1, <2>2 DEF TakenHasKey, Ciphers
    <3>5. CipherHasKey'
          BY <1>1, <1>2, <2>1, <3>1, <3>4 DEF CipherHasKey
    <3> QED
        BY <1>1, <1>5, <2>1, <2>2, <3>1, <3>2, <3>3, <3>4, <3>5 DEF KeyTypes, Ciphers
  <2>3. CASE ~active \/ h \in linked
    <3>1. UNCHANGED <<linked, cipher>> /\ pc' = [pc EXCEPT ![t] = "dead"]
          BY <1>10, <2>3 DEF AddHandler
    <3>2. CipherHasKey'
          BY <1>1, <1>2, <2>1, <3>1 DEF CipherHasKey
    <3> QED
        BY <1>1, <1>5, <2>1, <3>1, <3>2 DEF KeyTypes, ClosedIsEmpty, Ended
  <2> QED
      BY <2>2, <2>3
<1> QED
    BY <1>6, <1>7, <1>8, <1>9, <1>10 DEF HandshakeStep

LEMMA KeyLoop == KeyInv /\ LoopStep => KeyInv'
<1> SUFFICES ASSUME KeyInv, LoopStep PROVE KeyInv'
    OBVIOUS
<1> USE DEF keys, fitted, threads
<1>1. KeyTypes
      BY DEF KeyInv
<1>2. past \in Past
      BY <1>1 DEF KeyTypes
<1>3. \A n \in 0 .. 2 : Min2(n + 1) \in 0 .. 2
      BY DEF Min2
<1>4. CASE RunTask
  <2>1. past' \in Past /\ past'.overlapped = past.overlapped
        BY <1>2, <1>3, <1>4 DEF RunTask, Past
  <2> QED
      BY <1>2, <1>4, <2>1, Kept DEF RunTask, Close
<1>5. CASE Refuse
      BY <1>2, <1>5, Kept DEF Refuse, Close
<1>6. CASE ReadHandshake
  <2>1. /\ UNCHANGED <<pending, aes, got, linked, cipher, active>>
        /\ past' = [past EXCEPT !.overlapped = @ \/ UnderWay]
        BY <1>6 DEF ReadHandshake, Reads, Finds
  <2> DEFINE id == Head(toServer).id
  <2>2. PICK step \in {"rsa", "version"} : pc' = [pc EXCEPT ![id] = step]
        BY <1>6 DEF ReadHandshake, Goto
  <2> HIDE DEF id
  <2>3. KeyTypes'
        BY <1>1, <1>2, <2>1, <2>2 DEF KeyTypes, Past, Running
  <2>4. past'.overlapped = (past.overlapped \/ UnderWay)
        BY <1>2, <2>1 DEF Past
  <2>5. \A u \in Threads : pc'[u] = pc[u] \/ (u = id /\ pc'[u] \in {"rsa", "version"})
        BY <1>1, <2>2 DEF KeyTypes
  <2>6. Alone'
        BY <2>4, <2>5 DEF Alone, UnderWay
  <2>7. SecretStays' /\ TakenHasKey' /\ ClosedIsEmpty' /\ CipherHasKey'
        BY <1>2, <2>1, <2>4, <2>5 DEF KeyInv, SecretStays, TakenHasKey, ClosedIsEmpty, CipherHasKey
  <2> QED
      BY <2>3, <2>6, <2>7 DEF KeyInv
<1>7. CASE ReadSecret
  <2>1. CASE UNCHANGED <<pending, aes, threads, fitted, ready, loop, active, toServer,
                         toClient, pings, past>>
        BY <1>2, <2>1, Kept
  <2>2. CASE /\ Reads("secret")
             /\ aes' = aes \/ (request # None /\ aes' = aes \cup {request})
             /\ UNCHANGED <<pending, threads, fitted, ready, loop, active, toClient, pings,
                            past>>
        BY <1>2, <2>2, Kept
  <2> QED
      BY <1>5, <1>7, <2>1, <2>2, SecretRead
<1>8. CASE ReadConnect
  <2>1. CASE ~Refuse
    <3>1. past' \in Past /\ past'.overlapped = past.overlapped
          BY <1>2, <1>8, <2>1 DEF ReadConnect, Past, Settled
    <3> QED
        BY <1>2, <1>8, <2>1, <3>1, Kept DEF ReadConnect, Reads, Finds
  <2> QED
      BY <1>5, <2>1
<1>9. CASE ReadPong
      BY <1>2, <1>5, <1>9, Kept DEF ReadPong, Reads, Finds
<1>10. CASE Misread
  <2>1. CASE Refuse
        BY <1>5, <2>1
  <2>2. CASE ~Refuse
    <3>1. /\ UNCHANGED <<pending, aes, pc, got, linked, cipher, active>>
          /\ past' \in Past /\ past'.overlapped = past.overlapped
          BY <1>2, <1>3, <1>10, <2>2 DEF Misread, Past, Settled, Unframed
    <3> QED
        BY <1>2, <3>1, Kept
  <2> QED
      BY <2>1, <2>2
<1> QED
    BY <1>4, <1>6, <1>7, <1>8, <1>9, <1>10 DEF LoopStep

LEMMA KeyStep == KeyInv /\ [Next]_vars => KeyInv'
<1> SUFFICES ASSUME KeyInv, [Next]_vars PROVE KeyInv'
    OBVIOUS
<1> USE DEF keys, fitted, threads
<1>0. past \in Past
      BY DEF KeyInv, KeyTypes
<1>1. ASSUME NEW t \in Threads, HandshakeStep(t) PROVE KeyInv'
      BY <1>1, KeyThread
<1>2. CASE LoopStep
      BY <1>2, KeyLoop
<1>3. CASE DropChannel
      BY <1>0, <1>3, Kept DEF DropChannel, Close
<1>4. CASE Tick
  <2>1. past' \in Past /\ past'.overlapped = past.overlapped
        BY <1>0, <1>4 DEF Tick, Past
  <2> QED
      BY <1>4, <2>1, Kept DEF Tick
<1>5. CASE ClientReads
  <2>1. past' \in Past /\ past'.overlapped = past.overlapped
    <3>1. \A n \in 0 .. 2 : Min2(n + 1) \in 0 .. 2
          BY DEF Min2
    <3> QED
        BY <1>0, <1>5, <3>1 DEF ClientReads, ClientGetsKey, ClientGetsAnswer, ClientGetsPing,
           ClientGetsOther, ClientMisreads, Past
  <2> QED
      BY <1>5, <2>1, Kept DEF ClientReads, ClientOnly
<1>6. CASE ClientActs
      BY <1>0, <1>6, Kept DEF ClientActs, ClientOnly, ClientFallsSilent, ClientHandshake
<1>7. CASE UNCHANGED vars
      BY <1>0, <1>7, Kept DEF vars
<1> QED
    BY <1>1, <1>2, <1>3, <1>4, <1>5, <1>6, <1>7 DEF Next

\* A cipher of the pipeline has the client's key unless handshakes overlapped
\* (PacketHandler.handleHandshakeC2S lines 82 to 94): the secret that ends the spin
\* is still there when the thread takes it, or the channel has gone.
THEOREM CiphersHaveKeys == Spec => []CipherHasKey
<1>1. KeyInv => CipherHasKey
      BY DEF KeyInv
<1> QED
    BY KeyInit, KeyStep, <1>1, PTL DEF Spec

-----------------------------------------------------------------------------
(* The forms of the two sides, for any number of handshakes.               *)

AnswerTasks == Writes({"answer"})
Answers == Carry({"answer"})
Bare == Plain({"answer"})
Hello(t) == [kind : {"handshake"}, id : {t}, crypt : BOOLEAN, framed : BOOLEAN]

\* A thread that has its ciphers, if it puts any in.
Placing == {"version", "answer", "defrag", "prefixer"}

Answered == Has(loop, AnswerTasks) \/ Has(toClient, Answers) \/ client.framed

\* A thread that a packet is to start has not started,
Fresh ==
    \A t \in Threads :
        /\ One(toServer, Hello(t))
        /\ Has(toServer, Hello(t)) => t \in asked /\ pc[t] = "unborn"
        /\ t \notin asked => pc[t] = "unborn"

\* a handler takes part, or will, if and only if it is in the pipeline,
Linking ==
    \A h \in Handlers :
        /\ Comes(h) => h \in linked
        /\ active /\ h \in linked => Comes(h)

\* no cipher is without encryption,
NoCiphers ==
    ~enableEncryption =>
        /\ \A h \in Ciphers : h \notin linked
        /\ ~At(Keyed)
        /\ ~Has(loop, KeyTasks)
        /\ ~Has(toClient, Keys)
        /\ ~client.crypt

\* both are there before a thread goes beyond them,
CiphersIn ==
    enableEncryption /\ active =>
        /\ At({"encrypt"}) => "decrypt" \in linked
        /\ At(Placing) \/ Answered => \A h \in Ciphers : h \in linked

\* an answer is encrypted then, and read with a key,
AnswerForm ==
    enableEncryption =>
        /\ "encrypt" \in ready \/ Led(loop, AnswerTasks, Add("encrypt"))
        /\ ~Has(toClient, Bare)
        /\ client.framed => client.crypt

\* and the framing follows it.
FramingIn ==
    active =>
        /\ Answered => "defrag" \in linked \/ At({"defrag"})
        /\ "defrag" \in linked => "prefixer" \in linked \/ At({"prefixer"})

AgreeInv == Fresh /\ Linking /\ NoCiphers /\ CiphersIn /\ AnswerForm /\ FramingIn

LEMMA AgreeInit == Init => AgreeInv
<1> SUFFICES ASSUME Init PROVE AgreeInv
    OBVIOUS
<1>1. /\ loop = <<>> /\ toServer = <<>> /\ toClient = <<>> /\ linked = {} /\ ready = {}
      /\ client.crypt = FALSE /\ client.framed = FALSE /\ asked = {}
      /\ \A t \in Threads : pc[t] = "unborn"
      BY DEF Init
<1>2. ~At(Keyed) /\ ~At(Placing) /\ ~At({"encrypt"})
      BY <1>1 DEF At, Keyed, Early, Placing
<1>3. \A S, a : ~Has(<<>>, S) /\ One(<<>>, S) /\ Led(<<>>, S, a)
      BY EmptyQueue
<1> QED
    BY <1>1, <1>2, <1>3 DEF AgreeInv, Fresh, Linking, NoCiphers, CiphersIn, AnswerForm,
       FramingIn, Answered, Comes

\* No packet that starts a thread comes in, and no thread starts.
LEMMA FreshKept ==
    ASSUME Fresh, asked' = asked,
           \A t \in Threads : pc[t] = "unborn" => pc'[t] = "unborn",
           \/ toServer' = toServer \/ toServer' = <<>>
           \/ \E x : Left(toServer', toServer, x)
           \/ \E x : Joined(toServer', toServer, x) /\ \A t : x \notin Hello(t)
    PROVE  Fresh'
<1>1. ASSUME NEW t \in Threads
      PROVE  /\ One(toServer, Hello(t)) => One(toServer', Hello(t))
             /\ Has(toServer', Hello(t)) => Has(toServer, Hello(t))
  <2>1. CASE toServer' = toServer
        BY <2>1
  <2>2. CASE toServer' = <<>>
        BY <2>2, EmptyQueue
  <2>3. ASSUME NEW x, Left(toServer', toServer, x)
        PROVE  /\ One(toServer, Hello(t)) => One(toServer', Hello(t))
               /\ Has(toServer', Hello(t)) => Has(toServer, Hello(t))
        BY <2>3 DEF Left
  <2>4. ASSUME NEW x, Joined(toServer', toServer, x), x \notin Hello(t)
        PROVE  /\ One(toServer, Hello(t)) => One(toServer', Hello(t))
               /\ Has(toServer', Hello(t)) => Has(toServer, Hello(t))
        BY <2>4 DEF Joined
  <2> QED
      BY <2>1, <2>2, <2>3, <2>4
<1> QED
    BY <1>1 DEF Fresh

\* No answer or key comes to the client,
NoneSaid == \A S \in {Keys, Answers, Bare} : Has(toClient', S) => Has(toClient, S)

LEMMA SaidStays == toClient' = toClient \/ toClient' = <<>> => NoneSaid
BY EmptyQueue DEF NoneSaid

LEMMA SaidRead ==
    ASSUME Types, toClient # <<>>, toClient' = Tail(toClient) PROVE NoneSaid
<1>1. Left(toClient', toClient, Head(toClient))
      BY TailQueue DEF Types
<1> QED
    BY <1>1 DEF NoneSaid, Left

LEMMA SaidElse ==
    ASSUME Types, NEW p \in Packets, p.kind \notin {"encryption", "answer"},
           toClient' = toClient \o Sent(p)
    PROVE  NoneSaid
<1>1. /\ OnWire(p) \in Messages
      /\ toClient' = toClient \/ Joined(toClient', toClient, OnWire(p))
      BY WireQueue DEF Types
<1>2. OnWire(p).kind = p.kind
      BY DEF OnWire
<1>3. OnWire(p) \notin Keys /\ OnWire(p) \notin Answers /\ OnWire(p) \notin Bare
      BY <1>1, <1>2, Members, Forms DEF Keys, Answers, Bare
<1> QED
    BY <1>1, <1>3, SaidStays DEF Joined, NoneSaid

\* and no answer or handler into the queue of tasks.
NoneQueued ==
    /\ Has(loop', KeyTasks) => Has(loop, KeyTasks) \/ enableEncryption
    /\ Has(loop', AnswerTasks) => Has(loop, AnswerTasks)
    /\ \A h \in Handlers : Has(loop', {Add(h)}) <=> Has(loop, {Add(h)})
    /\ Led(loop, AnswerTasks, Add("encrypt")) => Led(loop', AnswerTasks, Add("encrypt"))

Other(x) ==
    /\ x \in KeyTasks => enableEncryption
    /\ x \notin AnswerTasks
    /\ \A h \in Handlers : x # Add(h)

LEMMA OtherTasks ==
    /\ \A kind \in Kinds, id \in Ids :
            kind # "answer" /\ (kind = "encryption" => enableEncryption) => Other(Write(kind, id))
    /\ Other(Closing)
<1>1. ASSUME NEW kind \in Kinds, NEW id \in Ids, kind # "answer",
             kind = "encryption" => enableEncryption
      PROVE  Other(Write(kind, id))
  <2>1. \A h : Write(kind, id) # Add(h)
        BY DEF Write, Add
  <2>2. Write(kind, id) \notin AnswerTasks
        BY <1>1, Members DEF AnswerTasks
  <2>3. Write(kind, id) \in KeyTasks => enableEncryption
        BY <1>1, Members DEF KeyTasks
  <2> QED
      BY <2>1, <2>2, <2>3 DEF Other
<1>2. \A h : Closing # Add(h)
      BY DEF Closing, Add
<1>3. Closing \notin AnswerTasks /\ Closing \notin KeyTasks
      BY Members DEF AnswerTasks, KeyTasks
<1> QED
    BY <1>1, <1>2, <1>3 DEF Other

LEMMA QueuedStays == loop' = loop => NoneQueued
BY DEF NoneQueued

LEMMA QueuedJoined ==
    ASSUME NEW x, Other(x), Joined(loop', loop, x) PROVE NoneQueued
<1>1. Led(loop, AnswerTasks, Add("encrypt")) => Led(loop', AnswerTasks, Add("encrypt"))
      BY DEF Other, Joined
<1>2. \A h \in Handlers : Has(loop', {Add(h)}) <=> Has(loop, {Add(h)})
      BY DEF Other, Joined
<1> QED
    BY <1>1, <1>2 DEF Other, Joined, NoneQueued

LEMMA QueuedOther ==
    ASSUME Types, NEW kind \in Kinds, NEW id \in Ids, kind # "answer",
           kind = "encryption" => enableEncryption, Enqueue(<<Write(kind, id)>>)
    PROVE  NoneQueued
<1>1. CASE active
  <2>1. Joined(loop', loop, Write(kind, id))
        BY <1>1, EnqueueQueue, TaskTypes DEF Types
  <2> QED
      BY <2>1, OtherTasks, QueuedJoined
<1>2. CASE ~active
      BY <1>2, QueuedStays DEF Enqueue
<1> QED
    BY <1>1, <1>2

LEMMA QueuedEnd ==
    ASSUME Types, NEW reason \in {"error", "incompatible"}, Enqueue(Disconnect(reason))
    PROVE  NoneQueued
<1>1. reason \in Kinds /\ None \in Ids /\ loop \in Seq(Tasks)
      BY DEF Kinds, Ids, Types
<1>2. CASE active
  <2>1. PICK between : /\ Joined(between, loop, Write(reason, None))
                       /\ Joined(loop', between, Closing)
        BY <1>1, <1>2, EndQueue
  <2>2. Other(Write(reason, None)) /\ Other(Closing)
        BY <1>1, OtherTasks
  <2>3. \A S : Has(loop', S) <=> Has(loop, S) \/ Write(reason, None) \in S \/ Closing \in S
        BY <2>1 DEF Joined
  <2>4. Led(loop, AnswerTasks, Add("encrypt")) => Led(loop', AnswerTasks, Add("encrypt"))
    <3>1. Led(loop, AnswerTasks, Add("encrypt")) => Led(between, AnswerTasks, Add("encrypt"))
          BY <2>1, <2>2 DEF Joined, Other
    <3> QED
        BY <2>1, <2>2, <3>1 DEF Joined, Other
  <2>5. \A h \in Handlers : Has(loop', {Add(h)}) <=> Has(loop, {Add(h)})
        BY <2>2, <2>3 DEF Other
  <2> QED
      BY <2>2, <2>3, <2>4, <2>5 DEF Other, NoneQueued
<1>3. CASE ~active
      BY <1>3, QueuedStays DEF Enqueue
<1> QED
    BY <1>2, <1>3

\* A step of the event loop, the timer or the client that puts nothing in.
LEMMA AgreeKept ==
    ASSUME AgreeInv, Fresh', UNCHANGED <<enableEncryption, pc>>, NoneSaid,
           client'.crypt = client.crypt, client'.framed = client.framed,
           \/ UNCHANGED <<linked, ready, active>> /\ NoneQueued
           \/ loop' = <<>> /\ linked' = {} /\ ready' = {} /\ active' = FALSE
    PROVE  AgreeInv'
<1> USE DEF AgreeInv
<1>1. /\ Has(toClient', Keys) => Has(toClient, Keys)
      /\ Has(toClient', Answers) => Has(toClient, Answers)
      /\ Has(toClient', Bare) => Has(toClient, Bare)
      BY DEF NoneSaid
<1>2. \A S : At(S)' <=> At(S)
      BY DEF At
<1>3. CASE UNCHANGED <<linked, ready, active>> /\ NoneQueued
  <2>1. Answered' => Answered
        BY <1>1, <1>3 DEF Answered, NoneQueued
  <2>2. Linking'
    <3>1. \A h \in Handlers : Comes(h)' <=> Comes(h)
          BY <1>3 DEF Comes, NoneQueued
    <3> QED
        BY <1>3, <3>1 DEF Linking
  <2>3. NoCiphers'
        BY <1>1, <1>2, <1>3 DEF NoCiphers, NoneQueued
  <2>4. CiphersIn'
        BY <1>2, <1>3, <2>1 DEF CiphersIn
  <2>5. AnswerForm'
        BY <1>1, <1>3 DEF AnswerForm, NoneQueued
  <2>6. FramingIn'
        BY <1>2, <1>3, <2>1 DEF FramingIn
  <2> QED
      BY <2>2, <2>3, <2>4, <2>5, <2>6
<1>4. CASE loop' = <<>> /\ linked' = {} /\ ready' = {} /\ active' = FALSE
  <2>1. \A S, a : ~Has(loop', S) /\ Led(loop', S, a)
        BY <1>4, EmptyQueue
  <2>2. Linking'
        BY <1>4, <2>1 DEF Linking, Comes
  <2>3. NoCiphers'
        BY <1>1, <1>2, <1>4, <2>1 DEF NoCiphers
  <2>4. CiphersIn' /\ FramingIn'
        BY <1>4 DEF CiphersIn, FramingIn
  <2>5. AnswerForm'
        BY <1>1, <2>1 DEF AnswerForm
  <2> QED
      BY <2>2, <2>3, <2>4, <2>5
<1> QED
    BY <1>3, <1>4

LEMMA AgreeThread ==
    ASSUME Types, AgreeInv, NEW t \in Threads, HandshakeStep(t) PROVE AgreeInv'
<1> USE DEF AgreeInv, keys, fitted, threads, Goto
<1>1. UNCHANGED <<enableEncryption, ready, active, toServer, toClient, client, asked>>
      BY DEF HandshakeStep, peer
<1>2. pc[t] \in Running /\ pc \in [Threads -> Running \cup Ended] /\ loop \in Seq(Tasks)
      BY DEF HandshakeStep, CheckRsa, MakeRsa, GenerateRsa, OfferEncryption, PublishKey,
             AwaitSecret, TakeEncryption, RemoveRequest, AddHandler, CheckVersion, WriteAnswer,
             Running, Handlers, Ciphers, Types
<1>3. ASSUME NEW step, pc' = [pc EXCEPT ![t] = step]
      PROVE  /\ \A S : At(S)' => At(S) \/ step \in S
             /\ \A S : step \in S => At(S)'
             /\ \A S : At(S) => At(S)' \/ pc[t] \in S
             /\ Fresh'
  <2>1. pc'[t] = step /\ \A u \in Threads : u # t => pc'[u] = pc[u]
        BY <1>2, <1>3
  <2>2. \A u \in Threads : pc[u] = "unborn" => pc'[u] = "unborn"
        BY <1>2, <2>1 DEF Running
  <2>3. Fresh'
        BY <1>1, <2>2, FreshKept
  <2> QED
      BY <2>1, <2>3 DEF At
<1>4. \A S : Has(toClient', S) <=> Has(toClient, S)
      BY <1>1
\* A step that neither puts a handler in nor answers.
<1>5. ASSUME NEW step, pc' = [pc EXCEPT ![t] = step], UNCHANGED linked, NoneQueued,
             pc[t] \notin {"defrag", "prefixer"}, step # "encrypt",
             step \in Keyed => pc[t] \in Keyed,
             step \in Placing => pc[t] \in Placing
      PROVE  AgreeInv'
  <2>1. /\ At(Keyed)' => At(Keyed)
        /\ At({"encrypt"})' => At({"encrypt"})
        /\ At(Placing)' => At(Placing)
        /\ At({"defrag"}) => At({"defrag"})'
        /\ At({"prefixer"}) => At({"prefixer"})'
    <3>1. \A S : pc[t] \in S => At(S)
          BY DEF At
    <3> QED
        BY <1>3, <1>5, <3>1
  <2>2. Answered' => Answered
        BY <1>1, <1>5 DEF Answered, NoneQueued
  <2>3. Linking'
    <3>1. \A h \in Handlers : Comes(h)' <=> Comes(h)
          BY <1>1, <1>5 DEF Comes, NoneQueued
    <3> QED
        BY <1>1, <1>5, <3>1 DEF Linking
  <2>4. NoCiphers'
        BY <1>1, <1>5, <2>1 DEF NoCiphers, NoneQueued
  <2>5. CiphersIn'
        BY <1>1, <1>5, <2>1, <2>2 DEF CiphersIn
  <2>6. AnswerForm'
        BY <1>1, <1>5 DEF AnswerForm, NoneQueued
  <2>7. FramingIn'
        BY <1>1, <1>5, <2>1, <2>2 DEF FramingIn
  <2> QED
      BY <1>3, <1>5, <2>3, <2>4, <2>5, <2>6, <2>7
<1>6. CASE CheckRsa(t) \/ MakeRsa(t) \/ GenerateRsa(t) \/ OfferEncryption(t)
           \/ TakeEncryption(t) \/ RemoveRequest(t)
  <2>1. UNCHANGED <<loop, linked>>
        BY <1>6 DEF CheckRsa, MakeRsa, GenerateRsa, OfferEncryption, TakeEncryption, RemoveRequest
  <2>2. PICK step \in {"make", "generate", "offer", "publish", "remove", "decrypt"} :
            pc' = [pc EXCEPT ![t] = step]
        BY <1>6 DEF CheckRsa, MakeRsa, GenerateRsa, OfferEncryption, TakeEncryption, RemoveRequest,
           After
  <2>3. pc[t] \in {"rsa", "make", "generate", "offer", "take", "remove"}
        BY <1>6 DEF CheckRsa, MakeRsa, GenerateRsa, OfferEncryption, TakeEncryption, RemoveRequest
  <2>4. pc[t] \in Keyed /\ pc[t] \notin {"defrag", "prefixer"}
        /\ step \notin Placing /\ step # "encrypt"
        BY <2>2, <2>3 DEF Keyed, Early, Placing
  <2> QED
      BY <1>5, <2>1, <2>2, <2>4, QueuedStays
<1>7. CASE PublishKey(t)
  <2>1. pc[t] = "publish" /\ UNCHANGED linked
        BY <1>7 DEF PublishKey
  <2>2. enableEncryption
    <3>1. At(Keyed)
          BY <2>1 DEF At, Keyed, Early
    <3> QED
        BY <3>1 DEF NoCiphers
  <2>3. NoneQueued
        BY <1>7, <2>2, QueuedOther, QueuedStays DEF PublishKey, Ids, Kinds
  <2>4. PICK step \in {"wait", "dead"} : pc' = [pc EXCEPT ![t] = step]
        BY <1>7 DEF PublishKey
  <2>5. pc[t] \in Keyed /\ step \notin Placing
        BY <2>1 DEF Keyed, Early, Placing
  <2> QED
      BY <1>5, <2>1, <2>3, <2>4, <2>5
<1>8. CASE AwaitSecret(t)
  <2>1. pc[t] = "wait" /\ UNCHANGED linked
        BY <1>8 DEF AwaitSecret
  <2>2. NoneQueued
        BY <1>8, QueuedEnd, QueuedStays DEF AwaitSecret
  <2>3. PICK step \in {"dead", "take", "done"} : pc' = [pc EXCEPT ![t] = step]
        BY <1>8 DEF AwaitSecret
  <2>4. pc[t] \in Keyed /\ step \notin Placing
        BY <2>1 DEF Keyed, Early, Placing
  <2> QED
      BY <1>5, <2>1, <2>2, <2>3, <2>4
<1>9. CASE CheckVersion(t)
  <2>1. pc[t] = "version" /\ UNCHANGED linked
        BY <1>9 DEF CheckVersion
  <2>2. NoneQueued
        BY <1>9, QueuedEnd, QueuedStays DEF CheckVersion
  <2>3. PICK step \in {"answer", "done"} : pc' = [pc EXCEPT ![t] = step]
        BY <1>9 DEF CheckVersion, After
  <2>4. pc[t] \in Placing /\ step \notin Keyed
        BY <2>1 DEF Keyed, Early, Placing
  <2> QED
      BY <1>5, <2>1, <2>2, <2>3, <2>4
\* The answer is queued behind the ciphers and announces the framing.
<1>10. CASE WriteAnswer(t)
  <2> DEFINE x == Write("answer", None)
  <2>1. /\ pc[t] = "answer" /\ pc' = [pc EXCEPT ![t] = "defrag"] /\ UNCHANGED linked
        /\ Enqueue(<<x>>)
        BY <1>10 DEF WriteAnswer, After
  <2>2. x \in Tasks /\ x \in AnswerTasks /\ x \notin KeyTasks /\ \A h : x # Add(h)
    <3>1. x \in Tasks
          BY TaskTypes DEF Kinds, Ids
    <3>2. "answer" \in Kinds /\ None \in Ids
          BY DEF Kinds, Ids
    <3>3. x \in AnswerTasks /\ x \notin KeyTasks
          BY <3>2, Members DEF AnswerTasks, KeyTasks
    <3>4. \A h : x # Add(h)
          BY DEF Write, Add
    <3> QED
        BY <3>1, <3>3, <3>4
  <2>3. \/ active /\ Joined(loop', loop, x)
        \/ ~active /\ loop' = loop
        BY <1>2, <2>1, <2>2, EnqueueQueue DEF Enqueue, Types
  <2> HIDE DEF x
  <2>4. At(Placing) /\ "defrag" \notin Keyed /\ "answer" # "encrypt"
        BY <2>1 DEF At, Placing, Keyed, Early
  <2>5. /\ At(Keyed)' => At(Keyed)
        /\ At({"encrypt"})' => At({"encrypt"})
        /\ At({"defrag"})'
        /\ At({"prefixer"}) => At({"prefixer"})'
    <3>1. /\ At(Keyed)' => At(Keyed) \/ "defrag" \in Keyed
          /\ At({"encrypt"})' => At({"encrypt"}) \/ "defrag" \in {"encrypt"}
          /\ "defrag" \in {"defrag"} => At({"defrag"})'
          /\ At({"prefixer"}) => At({"prefixer"})' \/ "answer" \in {"prefixer"}
          BY <1>3, <2>1
    <3> QED
        BY <2>4, <3>1
  <2>6. Linking'
    <3>1. \A h \in Handlers : Comes(h)' <=> Comes(h)
          BY <1>1, <2>2, <2>3 DEF Comes, Joined
    <3> QED
        BY <1>1, <2>1, <3>1 DEF Linking
  <2>7. NoCiphers'
        BY <1>1, <1>4, <2>1, <2>2, <2>3, <2>5 DEF NoCiphers, Joined
  <2>8. CiphersIn'
        BY <1>1, <2>1, <2>4, <2>5 DEF CiphersIn
  <2>9. AnswerForm'
    <3>1. enableEncryption /\ active => Comes("encrypt")
          BY <2>4 DEF CiphersIn, Linking, Handlers, Ciphers
    <3>2. enableEncryption => "encrypt" \in ready \/ Led(loop', AnswerTasks, Add("encrypt"))
          BY <2>3, <3>1 DEF AnswerForm, Comes, Joined
    <3> QED
        BY <1>1, <1>4, <3>2 DEF AnswerForm
  <2>10. FramingIn'
        BY <1>1, <2>1, <2>5 DEF FramingIn
  <2> QED
      BY <1>3, <2>1, <2>6, <2>7, <2>8, <2>9, <2>10
\* A handler goes into the pipeline, or was there, or the pipeline has gone.
<1>11. ASSUME NEW h \in Handlers, AddHandler(t, h)
       PROVE  AgreeInv'
  <2>1. pc[t] = h
        BY <1>11 DEF AddHandler
  <2>2. CASE active /\ h \notin linked
    <3>1. /\ linked' = linked \cup {h}
          /\ pc' = [pc EXCEPT ![t] = After[h]]
          /\ Enqueue(<<Add(h)>>)
          BY <1>11, <2>2 DEF AddHandler
    <3>2. Joined(loop', loop, Add(h))
          BY <1>2, <2>2, <3>1, EnqueueQueue, TaskTypes
    <3>3. /\ Add(h) \notin AnswerTasks /\ Add(h) \notin KeyTasks
          /\ \A g : Add(h) = Add(g) <=> h = g
          BY Members DEF AnswerTasks, KeyTasks, Add
    <3>4. /\ \A S \in {KeyTasks, AnswerTasks} : Has(loop', S) <=> Has(loop, S)
          /\ \A g : Has(loop', {Add(g)}) <=> Has(loop, {Add(g)}) \/ g = h
          /\ Led(loop, AnswerTasks, Add("encrypt")) => Led(loop', AnswerTasks, Add("encrypt"))
          BY <3>2, <3>3 DEF Joined
    <3>5. Answered' <=> Answered
          BY <1>1, <3>4 DEF Answered
    <3>6. /\ h = "decrypt" => After[h] = "encrypt"
          /\ h = "encrypt" => After[h] = "version"
          /\ h = "defrag" => After[h] = "prefixer"
          /\ h = "prefixer" => After[h] = "done"
          /\ h \in {"decrypt", "encrypt", "defrag", "prefixer"}
          BY DEF After, Handlers, Ciphers
    <3>7. Linking'
      <4>1. \A g \in Handlers : Comes(g)' <=> Comes(g) \/ g = h
            BY <1>1, <3>4 DEF Comes
      <4> QED
          BY <1>1, <3>1, <4>1 DEF Linking
    <3>8. NoCiphers'
      <4> SUFFICES ASSUME ~enableEncryption PROVE NoCiphers'
          BY <1>1 DEF NoCiphers
      <4>1. ~At(Keyed)
            BY DEF NoCiphers
      <4>2. h \notin Ciphers
            BY <2>1, <4>1 DEF At, Keyed, Ciphers
      <4>3. After[h] \notin Keyed
            BY <3>6, <4>2 DEF Keyed, Early, Ciphers
      <4>4. ~At(Keyed)'
            BY <1>3, <3>1, <4>1, <4>3
      <4> QED
          BY <1>1, <1>4, <3>1, <3>4, <4>2, <4>4 DEF NoCiphers
    <3>9. CiphersIn'
      <4> SUFFICES ASSUME enableEncryption PROVE CiphersIn'
          BY <1>1 DEF CiphersIn
      <4>1. At({"encrypt"})' => "decrypt" \in linked'
        <5>1. At({"encrypt"})' => At({"encrypt"}) \/ After[h] = "encrypt"
              BY <1>3, <3>1
        <5>2. After[h] = "encrypt" => h = "decrypt"
              BY <3>6
        <5> QED
            BY <2>2, <3>1, <5>1, <5>2 DEF CiphersIn
      <4>2. At(Placing)' => At(Placing) \/ h = "encrypt"
        <5>1. At(Placing)' => At(Placing) \/ After[h] \in Placing
              BY <1>3, <3>1
        <5>2. CASE h = "decrypt"
              BY <3>6, <5>1, <5>2 DEF Placing
        <5>3. CASE h \in {"defrag", "prefixer"}
              BY <2>1, <5>3 DEF At, Placing
        <5> QED
            BY <3>6, <5>2, <5>3
      <4>3. h = "encrypt" => "decrypt" \in linked
            BY <2>1, <2>2 DEF At, CiphersIn
      <4> QED
          BY <2>2, <3>1, <3>5, <4>1, <4>2, <4>3 DEF CiphersIn, Ciphers
    <3>10. AnswerForm'
          BY <1>1, <1>4, <3>4 DEF AnswerForm
    <3>11. FramingIn'
      <4>1. At({"defrag"}) => At({"defrag"})' \/ h = "defrag"
            BY <1>3, <2>1, <3>1
      <4>2. At({"prefixer"}) => At({"prefixer"})' \/ h = "prefixer"
            BY <1>3, <2>1, <3>1
      <4>3. h = "defrag" => At({"prefixer"})'
            BY <1>3, <3>1, <3>6
      <4> QED
          BY <2>2, <3>1, <3>5, <4>1, <4>2, <4>3 DEF FramingIn
    <3> QED
        BY <1>3, <3>1, <3>7, <3>8, <3>9, <3>10, <3>11
  <2>3. CASE ~active \/ h \in linked
    <3>1. UNCHANGED <<linked, loop>> /\ pc' = [pc EXCEPT ![t] = "dead"]
          BY <1>11, <2>3 DEF AddHandler
    <3>2. "dead" \notin Keyed /\ "dead" \notin Placing
          BY DEF Keyed, Early, Placing
    <3>3. /\ At(Keyed)' => At(Keyed)
          /\ At({"encrypt"})' => At({"encrypt"})
          /\ At(Placing)' => At(Placing)
          /\ At({"defrag"}) => At({"defrag"})' \/ h = "defrag"
          /\ At({"prefixer"}) => At({"prefixer"})' \/ h = "prefixer"
      <4>1. /\ At(Keyed)' => At(Keyed) \/ "dead" \in Keyed
            /\ At({"encrypt"})' => At({"encrypt"}) \/ "dead" \in {"encrypt"}
            /\ At(Placing)' => At(Placing) \/ "dead" \in Placing
            /\ At({"defrag"}) => At({"defrag"})' \/ h \in {"defrag"}
            /\ At({"prefixer"}) => At({"prefixer"})' \/ h \in {"prefixer"}
            BY <1>3, <2>1, <3>1
      <4> QED
          BY <3>2, <4>1
    <3>4. Answered' <=> Answered
          BY <1>1, <3>1 DEF Answered
    <3>5. Linking' /\ NoCiphers'
          BY <1>1, <1>4, <3>1, <3>3 DEF Linking, NoCiphers, Comes
    <3>6. CiphersIn'
          BY <1>1, <3>1, <3>3, <3>4 DEF CiphersIn
    <3>7. AnswerForm'
          BY <1>1, <1>4, <3>1 DEF AnswerForm
    <3>8. FramingIn'
          BY <1>1, <2>3, <3>1, <3>3, <3>4 DEF FramingIn
    <3> QED
        BY <1>3, <3>1, <3>5, <3>6, <3>7, <3>8
  <2> QED
      BY <2>2, <2>3
<1> QED
    BY <1>6, <1>7, <1>8, <1>9, <1>10, <1>11 DEF HandshakeStep

LEMMA AgreeLoop == Types /\ AgreeInv /\ LoopStep => AgreeInv'
<1> SUFFICES ASSUME Types, AgreeInv, LoopStep PROVE AgreeInv'
    OBVIOUS
<1> USE DEF keys, fitted, threads, peer, pings
<1>1. /\ UNCHANGED <<enableEncryption, client, asked>>
      /\ loop \in Seq(Tasks) /\ toServer \in Seq(Messages) /\ toClient \in Seq(Messages)
      /\ None \in Ids /\ pc \in [Threads -> Running \cup Ended]
      BY DEF LoopStep, Types, Ids
<1>2. Fresh
      BY DEF AgreeInv
\* The channel goes.
<1>3. ASSUME Close, NoneSaid PROVE AgreeInv'
  <2>1. /\ loop' = <<>> /\ linked' = {} /\ ready' = {} /\ active' = FALSE /\ toServer' = <<>>
        /\ UNCHANGED pc
        BY <1>3 DEF Close
  <2>2. Fresh'
        BY <1>1, <1>2, <2>1, FreshKept
  <2> QED
      BY <1>1, <1>3, <2>1, <2>2, AgreeKept
<1>4. ASSUME NEW kind \in {"success", "error"}, toClient' = toClient \o Sent(Packet(kind, None))
      PROVE  NoneSaid
  <2>1. Packet(kind, None) \in Packets /\ Packet(kind, None).kind = kind
        BY <1>1, TaskTypes DEF Packet, Kinds
  <2> QED
      BY <1>4, <2>1, SaidElse
<1>5. UNCHANGED toClient => NoneSaid
      BY SaidStays
<1>6. CASE Refuse
      BY <1>3, <1>4, <1>6 DEF Refuse
\* A packet is read that starts no thread.
<1>7. ASSUME toServer # <<>>, toServer' = Tail(toServer), NoneSaid,
             UNCHANGED <<pc, loop, linked, ready, active>>
      PROVE  AgreeInv'
  <2>1. Left(toServer', toServer, Head(toServer))
        BY <1>7, ReadQueue
  <2>2. Fresh'
        BY <1>1, <1>2, <1>7, <2>1, FreshKept
  <2> QED
      BY <1>1, <1>7, <2>2, QueuedStays, AgreeKept
<1>8. CASE ReadConnect
  <2>1. CASE ~Refuse
        BY <1>4, <1>7, <1>8, <2>1 DEF ReadConnect, Reads, Finds
  <2> QED
      BY <1>6, <2>1
<1>9. CASE ReadPong
  <2>1. CASE ~Refuse
        BY <1>5, <1>7, <1>9, <2>1 DEF ReadPong, Reads, Finds
  <2> QED
      BY <1>6, <2>1
<1>10. CASE Misread
  <2>1. CASE ~Refuse
        BY <1>5, <1>7, <1>10, <2>1 DEF Misread
  <2> QED
      BY <1>6, <2>1
<1>11. CASE ReadSecret
  <2>1. CASE UNCHANGED <<pending, aes, threads, fitted, ready, loop, active, toServer,
                         toClient, pings, past>>
    <3>1. Fresh'
          BY <1>1, <1>2, <2>1, FreshKept
    <3> QED
        BY <1>1, <1>5, <2>1, <3>1, QueuedStays, AgreeKept
  <2>2. CASE /\ Reads("secret")
             /\ UNCHANGED <<pending, threads, fitted, ready, loop, active, toClient, pings,
                            past>>
        BY <1>5, <1>7, <2>2 DEF Reads, Finds
  <2> QED
      BY <1>6, <1>11, <2>1, <2>2, SecretRead
\* A thread starts, which had not.
<1>12. CASE ReadHandshake
  <2> DEFINE id == Head(toServer).id
             step == IF enableEncryption THEN "rsa" ELSE "version"
  <2>1. /\ toServer # <<>> /\ toServer' = Tail(toServer) /\ Head(toServer).kind = "handshake"
        /\ pc' = [pc EXCEPT ![id] = step]
        /\ UNCHANGED <<loop, linked, ready, active, toClient>>
        BY <1>12 DEF ReadHandshake, Reads, Finds, Goto
  <2>2. Head(toServer) \in Messages /\ Left(toServer', toServer, Head(toServer))
        BY <2>1, ReadQueue
  <2>3. Head(toServer) \in Hello(id)
        BY <2>1, <2>2 DEF Hello, Messages
  <2> HIDE DEF id
  <2>4. id \in Threads => /\ id \in asked /\ pc[id] = "unborn"
                          /\ ~Has(toServer', Hello(id))
        BY <1>2, <2>2, <2>3 DEF Fresh, Left
  <2>5. \A u \in Threads : pc'[u] = IF u = id THEN step ELSE pc[u]
        BY <1>1, <2>1
  <2>6. Fresh'
    <3>1. \A u \in Threads : /\ One(toServer', Hello(u))
                             /\ Has(toServer', Hello(u)) => Has(toServer, Hello(u))
          BY <1>2, <2>2 DEF Fresh, Left
    <3> QED
        BY <1>1, <1>2, <2>4, <2>5, <3>1 DEF Fresh
  <2>7. \A S : /\ At(S)' => At(S) \/ step \in S
               /\ At(S) => At(S)' \/ "unborn" \in S
        BY <2>4, <2>5 DEF At
  <2>8. /\ At(Keyed)' => At(Keyed) \/ step \in Keyed
        /\ At({"encrypt"})' => At({"encrypt"}) \/ step \in {"encrypt"}
        /\ At(Placing)' => At(Placing) \/ step \in Placing
        /\ At({"defrag"}) => At({"defrag"})' \/ "unborn" \in {"defrag"}
        /\ At({"prefixer"}) => At({"prefixer"})' \/ "unborn" \in {"prefixer"}
        BY <2>7
  <2>9. Answered' <=> Answered
        BY <1>1, <2>1 DEF Answered
  <2> USE DEF AgreeInv
  <2>10. Linking' /\ AnswerForm' /\ FramingIn'
         BY <1>1, <2>1, <2>8, <2>9 DEF Linking, Comes, AnswerForm, FramingIn
  <2>11. NoCiphers'
    <3>1. "version" \notin Keyed
          BY DEF Keyed, Early
    <3> QED
        BY <1>1, <2>1, <2>8, <3>1 DEF NoCiphers
  <2>12. CiphersIn'
    <3>1. "rsa" \notin Placing
          BY DEF Placing
    <3> QED
        BY <1>1, <2>1, <2>8, <2>9, <3>1 DEF CiphersIn
  <2> QED
      BY <2>6, <2>10, <2>11, <2>12
<1>13. CASE RunTask
  <2>1. loop # <<>> /\ Head(loop) \in Tasks /\ Left(Tail(loop), loop, Head(loop))
        BY <1>1, <1>13, TailQueue DEF RunTask
  <2>2. CASE Head(loop).op = "close"
        BY <1>3, <1>5, <1>13, <2>2 DEF RunTask
  <2>3. ASSUME loop' = Tail(loop), UNCHANGED <<pc, linked, active, toServer>>
        PROVE  /\ Fresh' /\ \A S : At(S)' <=> At(S)
               /\ Left(loop', loop, Head(loop))
        BY <1>1, <1>2, <2>1, <2>3, FreshKept DEF At
\* A handler of the pipeline takes part from now on.
  <2>4. CASE Head(loop).op = "add"
    <3> DEFINE h == Head(loop).name
    <3>1. /\ ready' = ready \cup {h} /\ loop' = Tail(loop)
          /\ UNCHANGED <<pc, linked, active, toServer, toClient>>
          BY <1>13, <2>4 DEF RunTask
    <3>2. Head(loop) = Add(h) /\ h \in Handlers
          BY <2>1, <2>4 DEF Tasks, Add
    <3>3. /\ Add(h) \notin KeyTasks /\ Add(h) \notin AnswerTasks
          /\ \A g : Add(h) = Add(g) <=> h = g
          BY Members DEF KeyTasks, AnswerTasks, Add
    <3> HIDE DEF h
    <3>4. Fresh' /\ (\A S : At(S)' <=> At(S)) /\ Left(loop', loop, Add(h))
          BY <2>3, <3>1, <3>2
    <3>5. /\ \A S \in {KeyTasks, AnswerTasks} : Has(loop', S) <=> Has(loop, S)
          /\ \A g : Comes(g)' <=> Comes(g)
          BY <3>1, <3>3, <3>4 DEF Left, Comes
    <3>6. Answered' <=> Answered
          BY <1>1, <3>1, <3>5 DEF Answered
    <3> USE DEF AgreeInv
    <3>7. Linking' /\ NoCiphers'
          BY <1>1, <3>1, <3>4, <3>5 DEF Linking, NoCiphers
    <3>8. CiphersIn' /\ FramingIn'
          BY <1>1, <3>1, <3>4, <3>6 DEF CiphersIn, FramingIn
    <3>9. AnswerForm'
      <4>1. Led(loop, AnswerTasks, Add("encrypt"))
                => Led(loop', AnswerTasks, Add("encrypt")) \/ h = "encrypt"
            BY <3>3, <3>4 DEF Left
      <4> QED
          BY <1>1, <3>1, <4>1 DEF AnswerForm
    <3> QED
        BY <3>4, <3>7, <3>8, <3>9
\* A packet goes out in the form of now.
  <2>5. CASE Head(loop).op = "write"
    <3> DEFINE p == Head(loop).packet
    <3>1. p \in Packets
          BY <2>1, <2>5, TaskTypes
    <3>2. /\ loop' = Tail(loop) /\ toClient' = toClient \o Sent(p)
          /\ UNCHANGED <<pc, linked, ready, active, toServer>>
          BY <1>13, <2>5 DEF RunTask
    <3>3. /\ Head(loop) \in KeyTasks <=> p.kind = "encryption"
          /\ Head(loop) \in AnswerTasks <=> p.kind = "answer"
          /\ \A h : Head(loop) # Add(h)
          BY <2>1, <2>5, Members DEF KeyTasks, AnswerTasks, Add
    <3>4. /\ OnWire(p) \in Messages
          /\ toClient' = toClient \/ Joined(toClient', toClient, OnWire(p))
          BY <1>1, <3>1, <3>2, WireQueue
    <3>5. OnWire(p).kind = p.kind /\ OnWire(p).crypt = ("encrypt" \in ready)
          BY DEF OnWire
    <3> HIDE DEF p
    <3>6. Fresh' /\ (\A S : At(S)' <=> At(S)) /\ Left(loop', loop, Head(loop))
          BY <2>3, <3>2
    <3>7. /\ OnWire(p) \in Keys <=> p.kind = "encryption"
          /\ OnWire(p) \in Answers <=> p.kind = "answer"
          /\ OnWire(p) \in Bare => p.kind = "answer" /\ "encrypt" \notin ready
      <4>1. \A K : OnWire(p) \in Plain(K) => p.kind \in K /\ "encrypt" \notin ready
            BY <3>4, <3>5, Forms
      <4>2. /\ OnWire(p) \in Keys <=> p.kind = "encryption"
            /\ OnWire(p) \in Answers <=> p.kind = "answer"
            BY <3>4, <3>5, Members DEF Keys, Answers
      <4> QED
          BY <4>1, <4>2 DEF Bare
    <3>8. /\ Has(loop, KeyTasks) <=> p.kind = "encryption" \/ Has(loop', KeyTasks)
          /\ Has(loop, AnswerTasks) <=> p.kind = "answer" \/ Has(loop', AnswerTasks)
          /\ \A h : Has(loop', {Add(h)}) <=> Has(loop, {Add(h)})
          /\ Led(loop, AnswerTasks, Add("encrypt")) =>
                p.kind # "answer" /\ Led(loop', AnswerTasks, Add("encrypt"))
          BY <3>3, <3>6 DEF Left
    <3>9. /\ Has(toClient', Keys) => Has(toClient, Keys) \/ p.kind = "encryption"
          /\ Has(toClient', Answers) => Has(toClient, Answers) \/ p.kind = "answer"
          /\ Has(toClient', Bare) =>
                Has(toClient, Bare) \/ (p.kind = "answer" /\ "encrypt" \notin ready)
          BY <3>4, <3>7 DEF Joined
    <3>10. Answered' => Answered
          BY <1>1, <3>8, <3>9 DEF Answered
    <3> USE DEF AgreeInv
    <3>11. Linking'
          BY <3>2, <3>8 DEF Linking, Comes
    <3>12. NoCiphers'
          BY <1>1, <3>2, <3>6, <3>8, <3>9 DEF NoCiphers
    <3>13. CiphersIn' /\ FramingIn'
          BY <1>1, <3>2, <3>6, <3>10 DEF CiphersIn, FramingIn
    <3>14. AnswerForm'
          BY <1>1, <3>2, <3>8, <3>9 DEF AnswerForm
    <3> QED
        BY <3>6, <3>11, <3>12, <3>13, <3>14
  <2> QED
      BY <1>13, <2>2, <2>4, <2>5 DEF RunTask
<1> QED
    BY <1>8, <1>9, <1>10, <1>11, <1>12, <1>13 DEF LoopStep

LEMMA AgreeClient == Types /\ AgreeInv /\ (ClientReads \/ ClientActs) => AgreeInv'
<1> SUFFICES ASSUME Types, AgreeInv, ClientReads \/ ClientActs PROVE AgreeInv'
    OBVIOUS
<1>1. /\ UNCHANGED <<enableEncryption, pc, loop, linked, ready, active>>
      /\ toServer \in Seq(Messages) /\ toClient \in Seq(Messages) /\ None \in Ids
      /\ client \in [crypt : BOOLEAN, framed : BOOLEAN, online : BOOLEAN, deaf : BOOLEAN]
      BY DEF ClientReads, ClientActs, ClientOnly, keys, threads, fitted, Types, Ids
<1>2. Fresh /\ NoneQueued
      BY <1>1, QueuedStays DEF AgreeInv
<1>3. toClient # <<>> =>
          Head(toClient) \in Messages /\ Left(Tail(toClient), toClient, Head(toClient))
      BY <1>1, TailQueue
<1>4. \A kind \in Kinds, id \in Ids :
          InForm(kind, id) \in Messages /\ InForm(kind, id).kind = kind
      BY <1>1 DEF InForm, Messages
\* What it sends to go on with starts no thread.
<1>5. ASSUME UNCHANGED asked,
             \/ UNCHANGED toServer
             \/ \E m \in Messages : m.kind # "handshake" /\ Send(m)
      PROVE  Fresh'
  <2>1. CASE UNCHANGED toServer
        BY <1>1, <1>2, <1>5, <2>1, FreshKept
  <2>2. ASSUME NEW m \in Messages, m.kind # "handshake", Send(m)
        PROVE  Fresh'
    <3>1. \A t : m \notin Hello(t)
          BY <2>2 DEF Hello
    <3>2. toServer' = toServer \/ Joined(toServer', toServer, m)
          BY <2>2, SendQueue DEF Types
    <3> QED
        BY <1>1, <1>2, <1>5, <3>1, <3>2, FreshKept
  <2> QED
      BY <1>5, <2>1, <2>2
<1>6. ASSUME Fresh', NoneSaid, client'.crypt = client.crypt, client'.framed = client.framed
      PROVE  AgreeInv'
      BY <1>1, <1>2, <1>6, AgreeKept
<1>7. \A kind : Gets(kind) => NoneSaid /\ UNCHANGED asked
      BY SaidRead DEF Gets
\* There is a key to take only with encryption;
<1>8. CASE ClientGetsKey
  <2>1. /\ toClient # <<>> /\ toClient' = Tail(toClient) /\ Head(toClient).kind = "encryption"
        /\ UNCHANGED asked /\ Send(InForm("secret", Head(toClient).id))
        /\ client' = [client EXCEPT !.crypt = TRUE]
        BY <1>8 DEF ClientGetsKey, Gets
  <2>2. client'.crypt = TRUE /\ client'.framed = client.framed
        BY <1>1, <2>1
  <2>3. Fresh'
    <3>1. Head(toClient).id \in Ids
          BY <1>3, <2>1 DEF Messages
    <3> QED
        BY <1>4, <1>5, <2>1, <3>1 DEF Kinds
  <2>4. enableEncryption
    <3>1. Head(toClient) \in Keys
          BY <1>3, <2>1, Members DEF Keys
    <3> QED
        BY <1>3, <2>1, <3>1 DEF Left, AgreeInv, NoCiphers
  <2>5. NoneSaid
        BY <2>1, SaidRead
  <2>6. Answered' => Answered
        BY <1>1, <2>2, <2>5 DEF Answered, NoneSaid
  <2>7. \A S : At(S)' <=> At(S)
        BY <1>1 DEF At
  <2> USE DEF AgreeInv
  <2>8. Linking' /\ NoCiphers'
        BY <1>1, <2>4 DEF Linking, NoCiphers, Comes
  <2>9. CiphersIn' /\ FramingIn'
        BY <1>1, <2>6, <2>7 DEF CiphersIn, FramingIn
  <2>10. AnswerForm'
        BY <1>1, <2>2, <2>5 DEF AnswerForm, NoneSaid
  <2> QED
      BY <2>3, <2>8, <2>9, <2>10
\* the answer is in the form that the client has,
<1>9. CASE ClientGetsAnswer
  <2> DEFINE m == [InForm("connect", None) EXCEPT !.framed = TRUE]
  <2>1. /\ toClient # <<>> /\ toClient' = Tail(toClient) /\ Head(toClient).kind = "answer"
        /\ Head(toClient).crypt = client.crypt
        /\ UNCHANGED asked
        /\ \/ UNCHANGED toServer
           \/ Send(m)
        /\ client' = [client EXCEPT !.framed = TRUE]
        BY <1>9 DEF ClientGetsAnswer, Gets, ClientLegible
  <2>2. client'.framed = TRUE /\ client'.crypt = client.crypt
        BY <1>1, <2>1
  <2>3. m \in Messages /\ m.kind = "connect"
        BY <1>1 DEF InForm, Messages, Kinds
  <2> HIDE DEF m
  <2>4. Fresh'
    <3>1. m.kind # "handshake"
          BY <2>3
    <3>2. \/ UNCHANGED toServer
          \/ \E n \in Messages : n.kind # "handshake" /\ Send(n)
          BY <2>1, <2>3, <3>1
    <3> QED
        BY <1>5, <2>1, <3>2
  <2>5. Head(toClient) \in Answers /\ (~Head(toClient).crypt => Head(toClient) \in Bare)
    <3>1. Head(toClient) \in Answers
          BY <1>3, <2>1, Members DEF Answers
    <3>2. ~Head(toClient).crypt => Head(toClient) \in Plain({"answer"})
          BY <1>3, <2>1, Forms
    <3> QED
        BY <3>1, <3>2 DEF Bare
  <2>6. Answered /\ (~Has(toClient, Bare) => client.crypt)
        BY <1>3, <2>1, <2>5 DEF Left, Answered
  <2>7. NoneSaid
        BY <2>1, SaidRead
  <2>8. \A S : At(S)' <=> At(S)
        BY <1>1 DEF At
  <2> USE DEF AgreeInv
  <2>9. Linking'
        BY <1>1 DEF Linking, Comes
  <2>10. NoCiphers'
         BY <1>1, <2>2, <2>7, <2>8 DEF NoCiphers, NoneSaid
  <2>11. CiphersIn' /\ FramingIn'
         BY <1>1, <2>6, <2>8 DEF CiphersIn, FramingIn
  <2>12. AnswerForm'
         BY <1>1, <2>2, <2>6, <2>7 DEF AnswerForm, NoneSaid
  <2> QED
      BY <2>4, <2>9, <2>10, <2>11, <2>12
\* and the rest changes no form.
<1>10. CASE ClientGetsPing
  <2>1. /\ UNCHANGED <<asked, client>> /\ NoneSaid /\ Send(InForm("pong", None))
        BY <1>7, <1>10 DEF ClientGetsPing
  <2>2. Fresh'
        BY <1>1, <1>4, <1>5, <2>1 DEF Kinds
  <2> QED
      BY <1>6, <2>1, <2>2
<1>11. CASE ClientGetsOther
  <2>1. /\ UNCHANGED <<asked, toServer>> /\ NoneSaid
        /\ client' \in {client, [client EXCEPT !.online = TRUE]}
        BY <1>7, <1>11 DEF ClientGetsOther
  <2> QED
      BY <1>1, <1>5, <1>6, <2>1
<1>12. CASE ClientMisreads
  <2>1. /\ UNCHANGED <<asked, toServer>> /\ toClient # <<>> /\ toClient' = Tail(toClient)
        /\ \E deaf \in BOOLEAN : client' = [client EXCEPT !.deaf = deaf]
        BY <1>12 DEF ClientMisreads
  <2> QED
      BY <1>1, <1>5, <1>6, <2>1, SaidRead
<1>13. CASE ClientFallsSilent
  <2>1. /\ UNCHANGED <<asked, toServer, toClient>>
        /\ client' = [client EXCEPT !.deaf = TRUE]
        BY <1>13 DEF ClientFallsSilent
  <2> QED
      BY <1>1, <1>5, <1>6, <2>1, SaidStays
\* Each handshake is for a thread of its own.
<1>14. ASSUME NEW t \in Threads, ClientHandshake(t) PROVE AgreeInv'
  <2> DEFINE m == InForm("handshake", t)
  <2>1. /\ t \notin asked /\ asked' = asked \cup {t} /\ Send(m)
        /\ UNCHANGED <<toClient, client>>
        BY <1>14 DEF ClientHandshake
  <2>2. m \in Messages /\ m \in Hello(t) /\ \A u : u # t => m \notin Hello(u)
    <3>1. t \in Ids /\ "handshake" \in Kinds
          BY DEF Ids, Kinds
    <3> QED
        BY <1>1, <1>4, <3>1 DEF InForm, Hello
  <2> HIDE DEF m
  <2>3. toServer' = toServer \/ Joined(toServer', toServer, m)
        BY <2>1, <2>2, SendQueue DEF Types
  <2>4. pc[t] = "unborn" /\ ~Has(toServer, Hello(t))
        BY <1>2, <2>1 DEF Fresh
  <2>5. ASSUME NEW u \in Threads
        PROVE  /\ One(toServer', Hello(u))
               /\ Has(toServer', Hello(u)) => Has(toServer, Hello(u)) \/ u = t
        BY <1>2, <2>2, <2>3, <2>4 DEF Fresh, Joined
  <2>6. Fresh'
        BY <1>1, <1>2, <2>1, <2>4, <2>5 DEF Fresh
  <2> QED
      BY <1>6, <2>1, <2>6, SaidStays
<1> QED
    BY <1>8, <1>9, <1>10, <1>11, <1>12, <1>13, <1>14 DEF ClientReads, ClientActs

LEMMA AgreeStep == Types /\ AgreeInv /\ [Next]_vars => AgreeInv'
<1> SUFFICES ASSUME Types, AgreeInv, [Next]_vars PROVE AgreeInv'
    OBVIOUS
<1> USE DEF keys, fitted, threads, peer
<1>1. Fresh
      BY DEF AgreeInv
<1>2. CASE DropChannel
  <2>1. /\ loop' = <<>> /\ linked' = {} /\ ready' = {} /\ active' = FALSE
        /\ toServer' = <<>> /\ toClient' = <<>>
        /\ UNCHANGED <<enableEncryption, pc, client, asked>>
        BY <1>2 DEF DropChannel, Close
  <2>2. Fresh' /\ NoneSaid
        BY <1>1, <2>1, FreshKept, SaidStays
  <2> QED
      BY <2>1, <2>2, AgreeKept
<1>3. CASE Tick
  <2>1. /\ UNCHANGED <<enableEncryption, pc, linked, ready, active, toServer, toClient,
                       client, asked>>
        /\ \/ UNCHANGED loop
           \/ Enqueue(Disconnect("error"))
           \/ Enqueue(<<Write("ping", None)>>)
        BY <1>3 DEF Tick
  <2>2. Fresh' /\ NoneSaid
        BY <1>1, <2>1, FreshKept, SaidStays
  <2>3. NoneQueued
    <3>1. "ping" \in Kinds /\ None \in Ids
          BY DEF Kinds, Ids
    <3> QED
        BY <2>1, <3>1, QueuedStays, QueuedEnd, QueuedOther
  <2> QED
      BY <2>1, <2>2, <2>3, AgreeKept
<1>4. CASE UNCHANGED vars
  <2>1. UNCHANGED <<enableEncryption, pc, loop, linked, ready, active, toServer, toClient,
                    client, asked>>
        BY <1>4 DEF vars
  <2>2. Fresh' /\ NoneSaid /\ NoneQueued
        BY <1>1, <2>1, FreshKept, SaidStays, QueuedStays
  <2> QED
      BY <2>1, <2>2, AgreeKept
<1> QED
    BY <1>2, <1>3, <1>4, AgreeThread, AgreeLoop, AgreeClient DEF Next

LEMMA AgreeAtEnd == Types /\ AgreeInv => FormsAgree
<1> SUFFICES ASSUME Types, AgreeInv, active, Settled, client.framed
             PROVE  ready = IF client.crypt THEN Handlers ELSE Handlers \ Ciphers
    BY DEF FormsAgree
<1> USE DEF AgreeInv
<1>1. \A S : At(S) => \E u \in Threads : pc[u] \in S /\ pc[u] \in Ended
      BY DEF At, Settled
<1>2. ~At({"defrag"}) /\ ~At({"prefixer"})
      BY <1>1 DEF Ended
<1>3. \A h \in Handlers : h \in ready <=> h \in linked
  <2>1. \A h : Comes(h) <=> h \in ready
        BY EmptyQueue DEF Comes, Settled
  <2> QED
      BY <2>1 DEF Linking
<1>4. "defrag" \in ready /\ "prefixer" \in ready
      BY <1>2, <1>3 DEF FramingIn, Answered, Handlers
<1>5. \A h \in Ciphers : h \in Handlers /\ (h \in ready <=> client.crypt)
  <2>1. CASE enableEncryption
        BY <1>3, <2>1 DEF CiphersIn, AnswerForm, Answered, Handlers
  <2>2. CASE ~enableEncryption
        BY <1>3, <2>2 DEF NoCiphers, Handlers
  <2> QED
      BY <2>1, <2>2
<1>6. ready \subseteq Handlers /\ Handlers = Ciphers \cup {"defrag", "prefixer"}
      BY DEF Types, Handlers
<1> QED
    BY <1>4, <1>5, <1>6 DEF Ciphers

\* When the threads have ended and their tasks have run, the pipeline writes the form
\* that a client with an answer writes (PacketHandler.handleHandshakeC2S lines 58 to
\* 115), whatever the client repeated and whichever thread fell at which handler.
THEOREM SidesAgree == Spec => []FormsAgree
BY TypesInit, TypesStep, AgreeInit, AgreeStep, AgreeAtEnd, PTL DEF Spec

=============================================================================
