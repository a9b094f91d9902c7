# TotalComputers in TLA+

TotalComputers is a Bukkit plugin that puts working computers into a Minecraft
world: a wall of maps is a screen, clicks on it are touches, and behind it runs
"TotalOS" with windows and applications.  A computer is drawn by the server
itself or by a *client*, a separate program that connects with a token and
renders remotely.  This directory holds TLA+ models of the parts of the plugin
where threads, messages and failures meet, TLC configurations that check them on
small instances, and TLAPS proofs of the main results for every size.

Paths below are relative to `src/src/main/java/com/jnngl/`.

## 1. Inventory

### Threads

| thread | what it runs |
|---|---|
| main (Bukkit) | commands, player events, the tick of each computer that drains inputs |
| async pool | the frames of each computer, one started per tick, free to overlap |
| netty event loops | the handlers of client connections |
| bind threads | one per `/tcmp client bind`, spinning in `RemoteOS.requestCreation` |
| timers | one `Timer` per request (10 s), one per connection (pings, 15 s) |
| handshake, login, chat threads | short-lived or listening threads |
| browser starters and browser processes | one thread and one process of its own per browser window, which meet in an RMI registry |

Almost no state is locked: `requested` in RemoteOS and `threads` in TotalOS are
the two structures behind `synchronized`.  Everything else is a plain map or field
used by several threads.

### Components

* **Token registry** (`server/Server.java`, `server/PacketHandler.java`, the
  token command and `playerLeave` of `totalcomputers/TotalComputers.java`).
  State: unbound and bound tokens, channel to token, player to token.
  Operations: draw, reset, leave, reload, bind, give back on disconnect; unregistering
  waits 500 ms in its middle.  Shared by main thread and netty.  Correct when: a
  token always stands for its player, a player's token is never lost, a dead
  token stays dead, a player can reconnect.
* **Remote computers** (`totalcomputers/system/RemoteOS.java`).  State: pending
  requests, id counter, name to id, id to object.  Operations: request, answer,
  timeout, destroy (unbind, remove, disconnect).  Correct when: the table holds
  pending requests only, answers reach their request, a computer is hosted once,
  every bind command ends.
* **Framing and VarInt** (`server/PacketDefragmentation.java`,
  `PacketLengthPrefixer.java`, `BufUtils.java`).  State: a buffer and the bytes
  it lacks.  Correct when: packets come out whole, in order, once, wherever TCP
  cuts; ints survive coding.
* **Application launch and frames** (`totalcomputers/system/TotalOS.java`,
  `system/desktop/ApplicationHandler.java`, the frame task of
  `TotalComputers.initComputer`).  State: the static `current`, each computer's
  list of system threads.  Correct when: a click opens its application on its
  computer, once per running frame at most, and surely in the end.
* **Handshake, encryption, pings** (`server/PacketHandler.java`).  State: the
  server's key pair, the pending encryption, the pipeline's handlers, the count
  of unanswered pings.  Each handshake packet starts a thread that waits for the
  client's secret and rebuilds the pipeline; a timer pings and counts.  Correct
  when: no cipher works without a key, a client can read what it is sent, no
  thread waits for ever, a silent client is dropped and a live one stays.
* **OS lifecycle and state screens** (`TotalOS.turnOn/turnOff/invokeBSoD`,
  `system/states`, `system/BSoD.java`, the error count of the frame task).
  State: on or off, the one state that is shown, the Desktop that windows open
  on, the count of failed frames.  Written by touches, frames and login threads.
  Correct when: windows open on the Desktop that is shown, a computer that is off
  shows nothing, errors that go on end in a blue screen.
* **Web browser processes** (`src/Web Browser`: `WebBrowser.java`,
  `RemoteBrowser.java`, `BrowserImpl_Native.java`, `native/impl.cpp`).  State: a
  window's server and whether it is initialised, the processes, the registry that
  the first process hosts.  Correct when: a window gets its own process, its
  process ends with it, and opening one ends whatever fails.
* **Input queue and motion capture** (`TotalComputers.processInput`, the tick of a
  computer, the first 400 lines).  State: queued clicks, the player whose touch
  is being handled (`executors`), captured players (`targets`, `locked`), saved
  hotbar slots (`slots`, `slotsToRestore`, `drop`).  An application starts and
  stops captures from within a touch; commands, dismounts, quits, returns,
  removed computers and reloads end them.  Correct when: the maps agree, nobody
  acts for another player, and a player gets her items back.
* **Computer registry and ownership** (`create`, `remove`, `players.yml`).
  Correct when: free computers and owned ones add up, over crashes.
* **Window manager** (`system/states/Desktop.java`, `WindowApplication.java`).
  Correct when: a closed window is gone and one window has the focus.
* **File system** (links, associations, task bar), **chat** (`system/Server.java`),
  **packet codecs**, **packet senders**, **widgets**, **applications and
  emulators**, **native code**: see section 8.

### Interactions

`/tcmp client bind` starts a bind thread that reads the token registry, sends
through the client's channel and waits for `handleResponse` on that channel's
event loop.  A lost channel runs `channelInactive`: it gives the token back, then
destroys the client's remote computers.  A reset does the same from the main
thread by disconnecting the channel.  A touch goes from the queue to the client
or to `processTouch`, which reaches `ApplicationHandler.open` through the static
`TotalOS.current`; the frame tasks of all computers write that field as well.

`PROJECT.json` lists the hazards, each at its line, with the properties that
watch it or the reason why none does yet.

## 2. Modules

| module | models | state and actions |
|---|---|---|
| `Tokens` | token registry | the four maps as functions to a value or `None`; the main thread and each channel's handler as a program counter with the Java locals; an action per call of a map of `Server`, which no lock guards; `unregisterToken` is written once, for every thread; implements `TokenRegistry`, where a token is valid while it is registered or in a thread's hands |
| `TokenRegistry` | what the registry promises | who holds which token, whom it was given to, which tokens are valid, who uses them, for their owner or for nobody |
| `Tokens_proofs` | | theorems on `Tokens`, the refinement included |
| `RemoteCreation` | RemoteOS | a request stands for its thread, its timer and its object; ids keep their width (`IdCount` of them, 65536 in the code) and sign |
| `RemoteCreation_proofs` | | theorems on `RemoteCreation` |
| `VarInt` | BufUtils | recursive functions for powers of two, for writing, for size and for the value a reader has after each byte; a definition for reading that yields value, bytes used, or the failure |
| `PacketStream` | what framing promises | packets sent, packets received, open |
| `Framing` | defragmentation over a byte stream | one action per packet, per TCP segment, per round of `decode`; implements `PacketStream` with `received <- out` |
| `Framing_proofs` | | theorems on `VarInt` and `Framing`: ints are read back at any width, the refinement for all lengths |
| `Handshake` | handshake threads, pipeline, event loop and ping timer of one channel | a thread's program counter with the Encryption it took; the event loop, cut between its accesses to the pending encryption; handlers that are linked and those that take part already; the tasks that threads queue for the event loop; two message queues; the client as far as the server meets it |
| `Handshake_proofs` | | theorems on `Handshake`, with lemmas on queues |
| `Launch` | from a click to a window | main thread in `processTouch`, frame threads in `renderFrame`, which may fail before and after the removal of what ran, the shared `current`; implements `TaskList` |
| `TaskList` | what a computer's list of tasks promises | where each task was put, which wait, which have run and linger, how often each has run; a frame that fails runs a part of them |
| `Launch_proofs` | | theorems on `Launch` |
| `Lifecycle` | one computer from off to blue screen | the state that is shown; touches of the main thread cut at its writes; frames cut between reading and writing the count; login threads that construct, register and show a Desktop |
| `Lifecycle_proofs` | | theorems on `Lifecycle` |
| `Browser` | browser windows and their processes | for each window its life, its thread, its process and its server; the registry as a map from names; closing cut at the call; a frame between its checks and its calls; crashes, and a restart of the server |
| `Browser_proofs` | | theorems on `Browser` |
| `Capture` | input queue and motion capture | the maps as functions from computers and Player objects; one action per handler, a tick cut into its touches, each of which may close a window or fail; quits and returns as the game's own steps between the handlers |
| `Capture_proofs` | | theorems on `Capture` |
| `MC*` | | instances for TLC; `MCTokensReset` adds a history of what clients were told |

Definitions whose comment starts with "Slip" are deliberate faults: the operator
of the same name with one mistake in it.  No specification uses them; put in
place of the right one they show that a property can fail.

### Abstractions

* One call of a `HashMap` or `ArrayList` is atomic, and two calls are two steps
  wherever another thread can come between.  What concurrent modification does to
  the inside of a map is left out.  So is the exception that
  `unregisterToken`'s loop over `channel2token` may throw when another thread
  writes that map during it: the loop is one step.
* A null pointer ends what the thread was doing: a handler is left there, the game
  drops the command or event.  A thread that finds an entry gone may have read it
  as present a step before.
* Each connection has a thread of its own.  Netty gives one event loop to
  several; that has fewer interleavings.
* A random token is one that was never drawn (the code redraws on a match with
  a current token; a match with a retired one is ignored as improbable).
* The 500 ms and 10 s waits have no clock: the step after the wait may come at
  any time.  So every order that timing could produce is covered.  The pings are the
  exception, see the handshake below.
* A connection is a model value; a message is lost with its connection.
* A byte is a digit and a continue bit.  A task is the click it comes from.
* A client is not part of the repository: it answers at most once, with the id
  it was sent, at any time or never.
* A Player object is a player and the number of her session: the game makes a new
  object at each join, the plugin's maps keep the old one, and only what is kept
  by name lasts.  The three slots of the hotbar hold either her own items or what
  a capture put there.
* The game's part of a capture is external: it takes a player off her arrow when
  the arrow is removed, when she is put on another, and when she leaves, after it
  saved her; each reports a dismount.
* A key pair, a secret and an `Encryption` are named after the handshake thread
  that made them; the ciphers themselves are taken as given, but for one that was used before it had a key, which
  the code keeps and which stays broken.  Between two pings, 15 s, a
  client that hears has time to answer: the count of unanswered pings is raised by the timer
  and lowered by the event loop, and the two do not meet, since a pong that is more than a
  second late ends the channel.  A client sends no pong it was not asked for.  Netty is external: a handler added from
  another thread is linked at once and takes part by a task of the event loop;
  writes from other threads are tasks too.
* A Desktop is named after the login thread that makes it; a blue screen is what
  a click on it does: nothing yet, a restart, or nothing ever (`stuck`).
* A browser process is named after its window.  A process may crash at any time;
  a call to one that has gone fails.
* An application that is opened out of a frame (a command of the terminal), and a
  window that a frame closes, are left out of `Launch` and `Capture`.
* A history variable records what a property excepts: `past` in `Handshake`,
  `twice` and `late` in `Lifecycle`, `met` and `npe` in `Browser`, `mislaid` in
  `Capture`, `stray` in `RemoteCreation`, `left` and `disturbed` in `Launch`; `told` in
  `MCTokensReset` records what a property speaks of.
* One cleanup of a token's lost connection at a time: in `RemoteCreation` a
  second disconnect of the token waits for the first one's handler.

## 3. Runs

| run | question | instance | states |
|---|---|---|---|
| `tokens` | do owners agree, is no token lost, does the registry implement `TokenRegistry`, can a player reconnect | 2 players, 2 tokens, 2 channels, up to symmetry | 316,918 |
| `tokens_reset` | is a reset token dead (**no**) | 1 player, 2 tokens, 1 channel | stops |
| `remote` | requests pending only, do answers match, is a lost client cleaned up, does every bind thread end | 2 requests, 2 tokens, 2 names, 2 connections in all; 3 ids, none used or all but one | 861,844 |
| `remote_twice` | is a computer hosted once (**no**) | 2 tokens, 1 name | stops |
| `framing` | is the stream reliable, is all delivered, is reading the inverse of writing | 3 packets of length 0, 1, 4, 16; all 5-bit ints in 2-bit digits | 20,756 |
| `framing_cut` | can any cut be handled (**no**) | 2 packets | stops |
| `launch` | is each click's task run, and where; do the tasks implement `TaskList` | 2 computers, 3 frames, 2 clicks; frames fail | 202,474 |
| `capture` | do the maps agree, is nobody disturbed, are the items kept | 2 players, one may leave and return; 2 computers; 2 clicks wait | 753,694 |
| `capture_release` | can a captured player release herself (**no**) | 1 player, 2 computers | stops |
| `handshake` | do ciphers have keys, can the client read, do threads end, is a silent client dropped and a live one served | 1 channel, 2 handshakes, with and without encryption | 202,554 |
| `browser` | does a window talk to its own process, do processes and threads end | 3 windows, 2 names, 2 runs of the server, 1 frame | 152,904 |
| `lifecycle` | which Desktop is shown, is a computer that is off dark, do errors show | 2 frames, 2 logins | 755,712 |

"Stops" marks the runs that end at a counterexample (section 5).

Why the bounds are enough for what is asked:

* Tokens: the overlap of interest is one command with the handler of one
  connection, while a second connection takes the token over; a second player is
  there to be confused with the first; two tokens are one each, or a reset of one
  player.  Two channels are a connection and its successor, or two clients that race
  for one token.  All its properties are safety properties, and players, tokens and
  channels are interchangeable, so symmetry is sound.
* RemoteCreation: an answer can only be misdirected between two requests of one
  token, and a name only be taken twice by two; two connections are one of each token, or
  one lost and a second of the same.  With
  `IdCount = 4` there are three ids (the code has 65535), and `FirstIds` says how many
  were given out to computers long gone: none, or all but one.  So two requests find ids enough, or
  read the same id, or the second finds none; negative ids are among them.  Liveness does not
  allow for symmetry, so the first request, its name and the first token are given.
* Framing: a 2-bit digit gives prefixes of 1, 2 and 3 bytes to lengths below 32,
  the classes a 7-bit digit gives to lengths below 2^21; three packets put one
  between a cut predecessor and a cut successor.  2-bit digits in 5 bits do not
  divide evenly, as 7 does not divide 32: the last digit is used in part, which
  is where an off-by-one hides.  The proofs cover any widths and lengths.
* Capture: the two computers are what one player needs to be captured twice, the
  two players to disturb each other; two clicks make a tick with a touch before
  and one after a failure, and let one of a past session wait behind one of the
  present.  Only the player who leaves gets to both screens: the other needs one
  to be in the way.  The proofs cover the rest.
* Launch: two frames of one computer are the overlap, a frame of another
  computer is the one that writes `current` for it; two clicks let one task wait
  while another runs.  `MaxWindows = 1` ends the failures of frames that run a task again
  and again; frames that do not fail have no bound.  `FirstClick` is the first
  of the two, for want of symmetry.
* Handshake: one thread is the handshake, a second one the repeated handshake
  that overlaps it; two pings and a third are what the timer counts.
* Browser: two windows of one run share the registry that one of them hosts; the
  third, of the next run, has the name of a first one.
* Lifecycle: two frames lose each other's count, two logins show two Desktops.
  `Delay = 20` makes one frame a second, so that three failures are enough; the
  proofs cover any delay.

Deadlock is not checked: commands, connections and requests are bounded, so those
models stop when they are used up; in `Capture` a server without a player waits,
in `Lifecycle` a blue screen that is stuck may be the end.

## 4. Properties

Safety, in `Tokens`: `OwnerAgreement` (a registered token stands for the player it
was drawn for, or for nobody), `TokenNotLost` (a player's token is registered or in the
hands of a thread that will register it or replace it, also when threads fail half-way
on a null pointer), `ReconnectPossible`, and `RegistryPromise`, which is the
specification of `TokenRegistry`.

Nobody is Java's null: `bindToken` asks whether it has the token and then gets the player of
it, and another thread may take the entry between the two.  The token is then bound for null, and
the client is disconnected by the null pointer that follows; its
`channelInactive` fails on the same null, so the token stays bound, for nobody.
`OwnerAgreement` says that such a client is dropped.

`RegistryPromise` says that tokens are given once; that clients use valid ones only, for
their owners or for nobody; that no token ends while a player has it or a client uses it;
and that one that has ended does so for ever.  A token mostly ends at the last step of the
command that takes it from its player; one that a connection was using then may end
later, or be registered again and stay valid: what `tokens_reset` finds is never
mended.  `GoneForever` (no run lists it, the proof shows it) says of the maps what the promise says of the registry: a
retired token that is in no map and in no handler's hands never comes back.
A reload forgets who has which token, and the maps do not, so that a token can outlive its
player's knowledge of it.

`ReconnectPossible` says that the handler of a lost connection, once it is over, has
not left the connection's token bound to it.  Three cases are excepted because the
code leaves it bound: a client that connected twice, of which only the second token is
known; one whose entry in `channel2token` was taken by an `unregisterToken` that began
before the client bound the token; one that was bound for nobody.
In `RemoteCreation`: `RequestPending`, `AnswersMatch`, `CleanedUp`.  `RequestPending` excepts
a request that found no free id: the exception it throws leaves its place in the
table, and the token's later commands hear "Request has already been sent." for
ever.  It says too that a request that waits in its place has a timer to end the wait.
`AnswersMatch` asks that no request of the token timed out: the answer
carries no request, so after a timeout a late one is taken for the next, and the
model shows it.  So it is the property of the answers in time; it does not catch two
requests that read one id, whose answers are equal.  `CleanedUp` says which computers may stay bound to a connection that
is gone, with the history variable `stray`: one that its bind thread registers after
the cleanup has collected, the rest of a cleanup that fails (on a computer without a
token, or one destroyed meanwhile), those of a token that a reset took away before
the handler looked for it.  The token's next cleanup gets to them.
In `Framing`: `RoundTrip`, and `FramesAreReliable`, which is the specification of
`PacketStream`; `NothingHeldBack` (no run lists it, the proof shows it) says that all
packets have come out when all bytes have been read.
In `Launch`: `RanTasksLeave`, `OpensHere`, and `TasksAreListed`, which is the
specification of `TaskList`: a task is put once and waits until it is run; what has
run may be run again until it leaves, what has not run never leaves (`TaskNotLost`, which
the proof uses), and nothing runs once it has left.  A frame runs all tasks of its computer,
unless one of them throws or there is no memory for the image (TotalOS.java 209 and 213):
then it has run some and removes none.  `RanTasksLeave` says who is to
remove a task that has run and is listed still: a frame between its two synchronized blocks,
or, when a frame failed that had run it (`left`), whichever frame of the computer gets there next.
`OpensHere` excludes the
touches during which some frame wrote `current`; without that exception it fails,
since `current` is one field for all computers.  What it shows is that values
left behind in `current` by early returns and exceptions never matter.
In `Capture`: `CapturesAgree`, `ExecutorWillReturn`, `ItemsKept`, `DropWhileSaved`
and the action property `OthersUndisturbed`: no touch takes the capture of another
player over, and a touch ends one only by closing a window of the computer (an emulator's
`onClose` calls `forceStopCapture`), which lets her go altogether: she is locked no more
and has her items back.  The two on items exclude, through the
history variable `mislaid`, players who were captured twice at once and players
whose items were saved at a reload: in both cases the code loses them.
`CapturesAgree` says, with the first of these exceptions, that a player is locked to
the one computer that captures her: what `capture_release` shows takes a second
capture, whatever else happens.

In `Handshake`: `CipherHasKey` excepts handshakes that overlap, and so the entry of the
pending encryption that one replaces for the other; `HandshakeLegible`
a client that repeats its handshake (it may be sent an answer in a form it no
longer, or not yet, reads); `DroppedForSilence` counts pings that one of the sides
could not read, since the framing is not in place when the answer goes out.
`FormsAgree` (no run lists it, the proof shows it) says that the two sides write the
same form once the handshakes are over, with no exception.
In `Browser`: `OwnSession` allows a process of an earlier run of the server that
still holds the name; `FailsOnlyClosed` says when a frame may meet a null server.
In `Lifecycle`: `OneDesktop` excepts a login begun while another was under way
(two taps on "sign in"), `DarkWhenOff` a thread that was about to show a state when
the computer was turned off.  In both cases the model shows what the exception is
for: a Desktop on which no window opens, a login screen or Desktop on a computer
that is off.

Liveness: `WaitingEnds`, `AllDelivered`, `TasksRun`;
`ThreadsEnd`, `SilentIsDropped` and `Connects` of `Handshake`; `ProcessEnds` and
`StartersEnd` of `Browser`; `ErrorsShown` of `Lifecycle`.  `WaitingEnds` has one
exception, which the code has too: the timer of a request takes its place away, another
command of the token takes that place before the first one's thread looks, finds no free id
(RemoteOS.java 105) and leaves its place taken; the first thread then waits for ever for that
place to be free.  `TasksRun` excepts a computer of which frames fail again and
again while they run tasks; frames that fail while they draw do not matter.  `Connects` names what may
keep a patient client from being served: a connect packet that arrives before the
framing, which the pipeline cannot read, and a pong sent just before it, which the
framing takes for a length.  `ProcessEnds` asks that the window met its process
before it closed, and excepts a crash of the server before the process is told and an
older process found in the last moment; a window closed sooner leaves its process
running.  `ClosedIsGone` (proved, in no run) says that a window is not closed before.
`ErrorsShown` asks for a blue screen only when frames are drawn at least once a
second: with a delay of more than 20 ticks `20 / delay` is zero, the division by it
fails inside the catch block, and no blue screen comes.

### Fairness

Weak fairness of what a scheduler runs once it is runnable: the steps of a
bind thread, of an armed timer, of TCP delivery and `decode`, of a touch that has begun,
of a frame.  Nothing that a player or a client is free not
to do is fair: commands, connects, disconnects, answers, clicks.  The
timer is a step that comes eventually; `Timer` and the Bukkit scheduler keep
calling after an exception in the frame, which `initComputer` catches.  In
`Handshake` the threads, the event loop, the timer and the reading of a client that
hears are fair; starting a handshake, leaving and falling silent are not.  In
`Browser` the starters, the processes and the main thread's step after a click are
fair; the timeout of a starter is strongly fair, since it is enabled again and again
while the loop turns and 15 seconds do pass.  Opening, closing and crashing are not
fair.  In `Lifecycle` every thread is fair and no touch is.  `Tokens` and
`Capture` state no fairness: no property of theirs asks that anything happen.

## 5. Where the code disagrees with itself

* `tokens_reset`: a reset of a bound token ends with the old token registered
  again.  The client is told "Token was reset" and disconnected; its `channelInactive`
  finds the token bound still, because the reset waits 500 ms before it removes it, and
  when the reset has removed the token and given the player a new one, `unboundToken`
  registers the old one anew.
* `remote_twice`: two bind commands with different tokens pass the name check
  together; both create a remote computer though the second should hear "This
  computer is already clientbound."
* `capture_release`: a player who touches a second computer while a first captures
  her is captured by both; "/tcmp release" frees her from the second, then knows of
  no capture, and the first keeps her.  The message she got names that command as
  the way out.  Her saved items were replaced by those of the first capture.
* `framing_cut`: the class for "tcp fragmentation" fails when a segment ends
  inside the length prefix.

## 6. Proofs

`tlapm` checks, for any sets of players, tokens and channels (assuming only that
`None` is none of them):

* `Typing`, `Ownership`: `Spec => []TypeOK`, `Spec => []OwnerAgreement`.  The
  invariant is not inductive alone: a handler that has read the token and player
  writes them later, so what it holds in its locals has to be right.  `IInv` adds
  `HandlerLocals` (a handler at work holds a token and that token's owner, or nobody),
  `MainLocals` (the main thread unregisters the token its player has) and
  `TokenOwners` (a player's token was drawn for her).  Most steps move a thread on, end
  its method, or leave it by a null pointer, and take entries away at most (`Shrinks`): three lemmas say
  that `IInv` survives these (`MoveInv`, `EndInv`, `FailInv`), whatever the step is.
* `NotLost`: `Spec => []TokenNotLost`, on top of `IInv`.  `OwnLocals` (a step changes
  the locals of its thread only) and `KeptByOthers` reduce it to the tokens that are registered
  and the one the thread has; `DistinctTokens`
  (two players have two tokens) makes a command for one player harmless to
  the other.
* `NoReturn`: `Spec => GoneForever`, from `IInv`.
* `Reconnects`: `Spec => []ReconnectPossible`.  `ClosingInv` says what a handler that closes its
  connection relies on: the connection leads to the token it works on or to none, and once it
  is past its removal the token is not bound to this connection.  No other thread
  binds a token to it (`CloseByOthers`).
* `KeepsPromise`: `Spec => RegistryPromise`, the refinement of `TokenRegistry`, from
  `IInv` and `TokenNotLost`.  A token is valid while it is registered or in some thread's
  hands (`ValidMeans`), so a removal ends nothing: it is in hand until it is written somewhere
  else (`UnregisterPromise`, `HandlerPromise`).  It ends at the last step of
  a command (`CommandEnds`), or when a handler lets go of a token that another thread took
  from it; `OneLapses` says that no player has it then.

and for any sets of computers, clicks and frames (assuming that every frame has a
computer and `None` is not one):

* `Typing`, `NoTaskLost`, `RanTasksGo`, `OpenedHere` of `Launch_proofs`.  The
  induction needs that a task waits only at the computer it was put
  (`TasksHere`), that what a frame will remove has run and is of its computer
  (`FinishedHere`), that a click is used once (`FreshClicks`), what the main
  thread relies on between setting `current` and reading it (`TouchState`), and that
  what a failed frame left has run and is listed (`LeftStays`).
* `ListsTasks` of `Launch_proofs`: `Spec => TasksAreListed`, the refinement of
  `TaskList`, from the same invariant.  What a computer holds is its `threads`
  (`TasksOfComputer`); a click puts a task (`OpenPuts`), the first synchronized block
  runs all of them, or some when it fails (`RunsTasks`), the second takes away some that have run
  (`FrameRemoves`), and everything else is a stutter (`StutterListed`).

and for any players, computers, spots, sessions and length of the queue (assuming
that `None` is none of them, players are no computers, and at least one session):

* `Typing`, `ExecutorsReturn` of `Capture_proofs`.  `IInv` adds
  `HandledHere` (a tick handles the touches of its own computer, so that clearing
  them takes no touch from another's executor) and `LeavingInBound`.
* `ItemsStay`, `DropsMatch`: with `ItemsInv` on top of `IInv`.  It says where a
  player's items are at each stage (`OwnItems`: in her slots or saved by the capture
  while she is there, in her saved inventory or saved by name from her quit to her
  return), that saved slots belong to a locked player (`SlotsLocked`), and that
  the plugin knows nothing of a Player object of a session to come
  (`UnbornUnknown`).
* `LockedAgrees`: `Spec => []CapturesAgree`.  One direction is part of `IInv`; the other
  needs `OnceInv` on top of `ItemsInv`: nobody captures a Player object that the game
  has not made (`TargetsBorn`), so that a player who joins again is free.
* `Undisturbed`: `Spec => OthersUndisturbed`, from `LockedIsTarget`, since a
  forced stop may end a second capture through the dismount it causes; the same
  invariant shows that it leaves nobody half captured.

and for any requests, tokens, names, connections and any even number of ids:

* `Typing`, `PlacesArePending` of `RemoteCreation_proofs`.  `PendingInv` adds that a
  request that has not begun has no token and any other has one; `PlaceTimed`, that the
  timer of a request that waits in its place has not run out.  Nothing is
  assumed of the number of ids, so it also holds when they run out.
* `AnswersFit`: `Spec => []AnswersMatch`.  That answers fit follows from who holds
  the token's place while an answer is on its way.  `AnswerInv` says it of the tokens
  of which no request timed out: the client answers the request the token has
  (`AnswersAsked`), a request keeps its place until its answer (`PlaceKept`), who has
  lost it has its id and token set (`AnswerSet`); and of all, that the ids of hosted
  computers are their own (`HostedHere`) and a timer that ran out left its mark
  (`TimedOutByTimer`).
* `CleanupReaches`: `Spec => []CleanedUp`.  `CleanupInv` adds to `AnswerInv` that a
  RemoteOS has its own request's token or none (`OwnToken`), so that the cleanup
  finds it, and that each hosted computer of a lost connection is stray, to be
  collected or to be destroyed (`Reached`).

and for any number of handshakes of a channel:

* `CiphersHaveKeys` of `Handshake_proofs`.  `KeyInv` follows the key from the secret
  to the cipher: without an overlap one thread is at work (`Alone`), the secret that
  ended its wait stays (`SecretStays`), and what it took has a key (`TakenHasKey`); a
  closed channel has no handlers (`ClosedIsEmpty`), so what a thread does after the
  channel ended does no harm.
* `Typing`: by `Types`, which bounds what the queues of tasks and messages hold.
  The lemmas on queues (`AppendQueue`, `TailQueue`: what an entry that joins or leaves
  does to `Has`, `One`, `Led` and `Clear`, which say that an entry is in, is alone in,
  comes first in, or is absent from a queue) carry all the proofs of this module.
  `SecretRead` says what each step of the event loop does with the secret it reads, the null
  pointer of an entry that went away included, and `UsedTypes` what becomes of a cipher
  that is used without a key.
* `OnlySilentDropped`: `Spec => []DroppedForSilence`.  `PingInv` says that at most one
  ping and one pong are under way, that a ping the server counts as unhandled is under
  way, is answered, or is lost (`Counted`), and that a closed channel sends none.
* `HandshakeIsLegible`: `Spec => []HandshakeLegible`.  `LegibleInv` holds while the
  client has sent one handshake: one thread is at work (`Lone`), the key is sent once and
  in plain form before anything else (`OneKey`, `KeyPlain`), there is one verdict in the
  form the pipeline gives it (`OneVerdict`, `VerdictForm`), the tasks that install the
  ciphers are queued ahead of it (`CipherFirst`) and the framing behind it
  (`FramingLast`).
* `SidesAgree`: `Spec => []FormsAgree`, for a client that repeats its handshake too, and
  threads that overlap.  `AgreeInv` says that each packet starts a thread of its own
  (`Fresh`); that a handler takes part, or is queued to, if and only if it is in the
  pipeline (`Linking`); that no thread gets beyond the ciphers without both being in,
  whichever thread put them there (`CiphersIn`), so that an answer follows the task of
  the cipher and is encrypted (`AnswerForm`); that a thread which answered, or another
  that was faster, is about to put the framing in or has (`FramingIn`); and that without
  encryption none of the first part happens (`NoCiphers`).

and for any windows, names, frames and runs of the server (assuming that the windows
of one run have different names):

* `Typing` of `Browser_proofs`, with `Unspawned`, which relates a window's thread to
  its process.
* `TalksToItsOwn`: the registry knows a process by its session's name
  (`NamesOfSessions`), and neither processes nor threads are ahead of the run
  (`Runs`).
* `ClosedProcessEnded`: `Spec => []ClosedIsGone`, the safety half of `ProcessEnds`: a
  window that met its process is closed only when that process has ended.  `MetInv` says
  what becomes of it on the way: it has its own process for a server until it tells the
  process to close, and waits for the one it told (`ProcessOf`).
* `OnlyClosedFail`: whatever a frame draws has a server, or had one until its window
  was closed (`Drawable`).

and for any frames and logins and any delay:

* `Typing`, `WindowsOnShownDesktop`, `StaysDark` of `Lifecycle_proofs`.  `DesktopInv`
  adds that a login no other one overlaps is alone, shows nothing before its last
  step, and shows what it registered; `DarkInv` that a computer turned off in time has
  no thread left that shows a state.

and for packets of any lengths, any number of them and any cuts:

* `FramesReliable` of `Framing_proofs`: `Framing` implements `PacketStream`, step by
  step.  The invariant `IInv` says where the bytes of the packets to come are:
  between two packets, what is in the segment and on the wire is what the sender
  wrote from the next packet on; inside a packet, it is the rest of the packet and
  what follows it.  `Split` does the work: two ways of cutting the same bytes agree.
  What it needs of the prefixes, that each is read back whatever follows it and that no
  part of one is (`Codec`), is `PrefixesAreRead`, from the next theorem.
* `NothingStays`: `Spec => []NothingHeldBack`, the safety half of `AllDelivered`, from
  the same invariant: inside a packet a byte is lacking (`InPacket`), between two packets
  the next one has a byte at least, that of its length (`FrameHasBytes`).
* `ReadsBack`: `RoundTripBefore(Seq(AllBytes))`, and so `Spec => []RoundTrip`.  TLC reads
  5-bit ints back with at most one byte behind them; the theorem is for digits and
  ints of any width, 7 and 32 among them, and any bytes behind.  The library's induction
  theorems take a predicate as a parameter, which the provers here cannot fill in.
  `Descent` and `Ascent` say the same of sets, which they can; both follow from the
  well-foundedness of `<` on the naturals.  `Recursion` follows from them: a definition
  by recursion over numbers has a solution, so that `Pow2`, `WriteVarInt`,
  `SizeofVarInt` and `Value` satisfy the equations they are defined by (`Pow2Def`,
  `WriteDef`, `SizeDef`, `ValueDef`).  The rest is by induction over the int:
  what is written is its digits, as many as `SizeofVarInt` says, and only the last has
  no continue bit (`WritesDigits`); they are no more than the rounds a reader makes
  (`EnoughRounds`); and its sum over them is the int (`ValueOfDigits`).

Only model-checked: the liveness properties of section 4, since fairness and ENABLED are
beyond the prover.  Every invariant and action property of a passing run, and the three
refinements, are theorems as well.

## 7. Plan

Done, in this order: `Tokens`, `RemoteCreation`, `VarInt` and `Framing`, `Launch`,
`Capture`, `Handshake`, `Browser`, `Lifecycle`; the proofs of each safety property.
What is left, most important first:

1. `RemoteServer`: `Tokens` and `RemoteCreation` composed over one connection
   table, so that binding, reset and cleanup meet, with touches that are sent to a
   computer while it is destroyed.
2. onDisable and the server's stop, which loses `slotsToRestore`, in `Capture`.
3. `Ownership`: create and remove over two files with a crash between.
4. `WindowManager`, `FileLinks`, `Chat`: sequential or small.

Abstract specifications worth stating: a computer that is served by exactly one
renderer; a `TokenRegistry` in which a reset ends the token, which the code does not
implement.

## 8. Not modelled, and why

Packet codecs and the packet table are fixed copies of fields.  Packet senders are
reflection on Minecraft's classes.  Widgets and overlays are drawing and hit tests.
Applications (but for the browser's processes), emulators and media players are
programs on top of the system.  The cryptography of the handshake is taken as given.

Parts of the modelled components that are left out: the frame buffers and touches of
a remote computer; strings and byte arrays of packets; the picture, the keys and the
resizing of a browser window; the packets of a captured player; overlays and the way
between the setup screens.  Left out as well: what Java's maps do when two threads change
them at once, applications that a frame opens, windows that a frame closes, and pongs
that a client sends unasked (clients are programs of their own).  The computers' registry, the window manager, file links
and the chat are in the plan.

The program's own logic is Java, and the models' map refers to it, but for
`native/impl.cpp` of the browser.  Nearly all of the repository's C and C++ is not its
logic: `src/src/awt.cpp`, `src/include/awt.h` and `src/nativeTest` wrap each class of
the Java library in a C++ class whose methods look a Java method up and call it, with
no decision and no state but the wrapped reference; the VirtualBox header and the
headers of the Chromium Embedded Framework are generated or third-party declarations.
So the share of the native lines that the map covers is near zero, and says nothing of
the share of the behaviour that is modelled.
