# A verification project for NetEventServiceSolution

The repository is a small family of TCP programs for a VR arcade, written in
C++ over libevent and Boost, and one C# client. A library, `NetEventService`,
carries all of them; on it stand a host controller (which seat does a visitor
get?), an agent on each VR host, scene servers (who is where in a scene?) and a
center server between scenes. This directory holds TLA+ models of its core,
TLC configurations that check them on small instances, and proofs checked by
the TLA+ proof system. Every definition is translated from the source;
`PROJECT.json` names the lines of each one.

## 1. Inventory

| component | state it keeps | operations | hard behaviour | correct when |
|---|---|---|---|---|
| **NetEventServer** (`NetEventService/NetEventServer.cpp`) | `m_Channels` (link id -> Channel), one queue of accepted connections per receiver thread, the send queue, four mutexes | `listener_cb`, `notify_cb`, `CreateChannel`, `conn_readcb`, `conn_eventcb`, `Close`, `Send`, `sender_thread_task`, `Init`/`Start`/`Stop` | accepting thread, receiver threads, sender threads and the application share the table; link ids are reused; callbacks hold locks | ids unique, every connection and every end of one reported once and to the right client, nobody touches a freed Channel, `Send` returns |
| **Channel** (`Channel.cpp`) | socket, bufferevent, link id, used flag | `DoRead`, `ReadPackage`, `CloseSocket`, `SendData` | runs under the bufferevent's lock; gives the id back before it reports the end | packages carry the link id of their client |
| **ChannelManager** | the queue of free link ids | `Init`, `GetFreeID`, `ReleaseID` | called from several receivers | an id is never given out twice |
| **MessageQueueAB** (`MessageQueue.cpp`) | two deques and which is current | `Push`, `Swap`, then `GetCount`/`GetMsg` without a lock | network threads push while the application reads the other deque unlocked | FIFO, no read past the end, messages lost only at the limit |
| **CommonMsgQueue** | a bounded queue, two condition variables | `put`, `force_put`, `get` (polling and blocking) | one `notify_one` per operation; overtaking and spurious wakeups; the size test is `==` | bound kept, no lost wakeup |
| **Package framing** (`DynamicBuffer.h`, `Message.h`, `MessageBuffer.cs`) | byte buffers | `Push`, `Pop`, `ReadPackage`, `WriteBody` | packages cut anywhere; lengths from the wire | packages out = packages in |
| **NetEventClient** | connection, event loop thread, one shared `m_msgPack` | `Connect`, callbacks, `Send`, `Disconnect`, destructor | three threads share `m_msgPack`; tear-down while the loop runs | packages are whole, unless threads interfere |
| **VRHostController** (+ `RemoteClientManager`, `CSVFile`) | the vector of clients, the seat table, a file of seats per day | handlers for connect, disconnect, seat number, user id, recycling; start | capsules ask while hosts connect, report and leave; restart; the file | a seat has one user at a time, also after a restart; hosts come back; everyone is answered |
| **VRClientAgent** | `RecycleFlag` and `UserID` in an ini file, the connection | connect/retry, `HandleMessage`, `HandleDeviceStatus` | retries with a 1 s limit, flag shared with another program | the controller learns of the end of each session |
| **CapsuleClient** (C#) | one connection | `RequestSeatNumber` | waits without limit | gets an answer |
| **VRSceneServer** (`PlayerManager`, `SvcTimer`) | players with transforms, a link to the center server | handlers, presence messages, timer broadcast | timer thread and message loop share a mutex that is held during `Send`, which may block | everybody in a scene sees everybody else |
| **VRCenterServer** | the scene servers | `HandleNetEvent`, `AddUser`, `DeleteUser`, `ForwardMsgToOtherSceneServers` | users come and go between messages; `Send` overwrites the link id of the message it forwards, and may block | messages reach every other scene once, and never come back |
| **VRHostControllerUI** | the controller and the thread in its `Run()` | start and stop buttons, a timer that shows the hosts, log messages | stop waits for threads that wait for it; it deletes what threads share; starts that fail half way | what is deleted is no longer used, the stop returns, the list is of one moment |
| VRTestClient (C++) | the seats it knows of | tells its seat when greeted, moves, asks to be seen outside | | its list of seats is right (only its message loop is modelled, as the clients of a scene) |
| SLog, ConfigReader, factories | none of interest | | | not modelled: wrappers of library code |

**How they interact.** Programs talk over TCP links; a program sees its links
through NetEventServer: events `link_connected`, packages and
`link_disconnected` arrive in a MessageQueueAB, filled by the receiver threads
and drained by the application's loop; `Send` puts messages into a
CommonMsgQueue that the sender threads poll. Inside the library the accepting
thread hands a connection to a receiver through a queue and one byte on a
socket pair. A VR host's agent tells the controller its seat number; a capsule
tells it a user id and is answered with a seat number; the agent is told the
user id.

**What is hard to test** is listed, line by line, under `hazards` in
`PROJECT.json`, with the properties that watch it, or why none does yet.

## 2. The modules

| module | models | abstract / detailed |
|---|---|---|
| `LossyFifo` | what a message queue promises: one FIFO that may drop its oldest messages when full, and a reader that collects what has arrived | abstract |
| `MessageQueueAB` | the two deques, `Push` in two steps (append, trim), `Swap` in its order of assignments, the application's unlocked loop | implements `LossyFifo` (refinement mapping `Fifo`, property `ImplementsFifo`) |
| `CommonMsgQueue` | `put`, `force_put`, both `get`s with explicit wait sets; `notify_one` wakes any waiter, and waiters may wake by themselves | |
| `ChannelManager` | the pool, as operators over a variable | instantiated by `NetEventServer` |
| `NetEventServer` | accepting thread, receiver threads, sender threads and the application over the table of Channels | uses `ChannelManager` |
| `VRHostController` | controller, agents, capsules, the file and the network between them | |
| `VRSceneServer` | the message loop and the timer of a scene server over the list of players, its clients and the link to the center server | composes `CommonMsgQueue` |
| `PackageStream` | one direction of a connection, byte by byte: the ignored result of `send`, the buffer, the loop of `ReadPackage`/`read_pack`, the loop of the capsule | |
| `VRHostControllerUI` | the dialog's buttons and timer, what `Start` creates, `Run()`, the event loops, the senders, and `Stop` from wait to wait | |
| `VRCenterServer` | the center server and the NetEventClients of several scene servers | |
| `MCNetEventServer` | symmetry and the below-capacity specification for TLC | |
| `MCVRHostController` | symmetry, and the properties of `hosts` under their conditions | |
| `*_proofs` | theorems | |

The two queues are checked by themselves. The event queue appears in
`NetEventServer` and `VRSceneServer` as a plain sequence with the FIFO behaviour
that `LossyFifo` states (its limit of messages is far above what the bounds let
happen). The send queue is a bounded sequence whose `put` waits for room in
`NetEventServer`, and `CommonMsgQueue` itself, wait set and all, in
`VRSceneServer`.

**NetEventServer.** A receiver thread runs one callback at a time; the position
inside it is the record `rx[r]` (`pc`, the connection and the id it works on).
A callback is cut into steps where another thread can see or change something:
taking a byte, popping a connection (`PopConn`), taking an id (`AllocID`),
testing the slot (`CheckSlot`), filling it (`Install`), reporting
(`Announce`), enabling the callbacks (`Enable`); for the end of a connection
`EventCb`, `CloseChannel`, `Release`, `Report`, `Delete`, `ClearSlot`, the last
ones while `m_channel_mtx` is held. `m_Channels` maps an id to the connection
whose Channel the pointer points to, and a deleted Channel is remembered as
such, so that a read through a stale pointer is visible. `CheckSlot` reads the
used flag of a freed Channel as either value: that read is undefined. (The code
reads the slot twice; see section 6.) `Put`
and `Sender` are the application's `Send` and the sender threads. A client is a
model value; it connects once, sends packages (`MaxData` bounds how many the
clients send together) and hangs up when it likes.

**VRHostController.** Every handler of the controller runs to its end on one
thread, so it is one action: `HandleConnected`, `HandleDisconnected`,
`HandleSeatNum`, `HandleUserID`/`RefuseUserID`, `HandleRecycle`. The
`RemoteClientManager` functions are operators on the vector of clients. An
agent stands for its host's seat number, a capsule for its user, and a link is
a party with the number of its connection. What a party sent before it hung up
still reaches the controller; what was on its way to it is gone. What a party
sends stays in order. What the controller sends it need not: the sender threads
take a message and send it in two steps, so any message on its way to a party may
be the next it gets (`Gets`). `overtaken` remembers the links on which a user id
came before an older one. Messages of different links meet in any order. `Restart`
is the orderly stop and start of the dialog's buttons, between two handlers and
within one day (the table has one file per day): links are gone, the table is
read from the file before the server listens. `SessionEnds` stands for the VR
application on the host, which is not in the repository: it sets `RecycleFlag`.
It is seen only through the agent's ini file.

**VRSceneServer.** Two threads, `"app"` (`Run()`) and `"timer"`, share the vector
of players and the mutex of `PlayerManager`. A handler is cut where the other
thread can come in: where it waits for `m_Mutex` and at every `put` of a message.
`pc[t]` is the place in the handler and the client it works for, `todo[t]` the
messages its loop has still to put; the next step of the handler comes after the
last of them. `Send(t)` is `CommonMsgQueue!Put`, which may put the thread to
sleep, with the mutex or without it, as in the code. Handlers that keep the mutex
while they send (`SendUserInfoList`, `SendMsg`, the timer) end in a step of their
own (`Unlock`, `TimerUnlocks`); the others take and release it in one step, before
the first `put`. `buffer` holds the transforms the timer collected for one type of
user. Links are named after clients, which connect once; a client's seat number
and user id are the client. A sender thread takes a message (`TakeMessage`,
`CommonMsgQueue!Poll`) and sends it later (`DoSend`), so that one of several may
overtake another; `taken` is what they have taken and not sent, and `overtaken`
remembers which client was told about which other in the wrong order, for nothing
in the code keeps two messages to one client apart. What a client knows follows the
message loop of `VRTestClient`. A user list too long for one message is not modelled.
The link to the center server is made once; after it is lost, what is sent to it is
swallowed.

**PackageStream.** A byte is the number of its package and its position in it, so
that a reader that looks for a header in the wrong place finds something that is
not one (`Desynchronised`), and what the application gets can be compared with
what was sent. `Send` takes what the socket has room for and forgets the rest,
like `Channel::SendData`; `Read` takes any number of bytes up to the size of the
reader's array. `ReadPackage` is one turn of the loop of `Channel::ReadPackage` and
`NetEventClient::read_pack`, which are the same; `SkipOther` and `TakeAnswer` are
those of the capsule, which pops before the body is there, so that `Size()` can be
negative. The lengths are constants, scaled down in the run. Lengths are read
off the package that a header belongs to, so a length that no program of the
repository sends does not occur.

**VRHostControllerUI.** Each thread has a place in `pc`. Between two waits `Stop`,
the destructor of `VRHostController` and the handler of the button run through:
`JoinRun`, `JoinDispatch`, `FreeBase`, `JoinReceiver`, `JoinSenders` are the waits, in
the order of the code. `deleted` holds which of the shared objects are gone, and a
thread that uses one of them afterwards is recorded in `misused`; after that the
process may crash at any moment (`Crash`), or go on. Libevent forgets a
`loopbreak` that comes before the loop began: `EnterLoop` clears it, and
`lostBreak` remembers. A start may fail before it has threads (`"failed"`), or
have all of them but no client manager (`"no manager"`, an empty name in the
configuration); in both cases the dialog's timer then goes through a null pointer
(`TimerNoManager`). `VRHostControllerMain.cpp`, which starts the controller without
a dialog, never stops it.

**VRCenterServer.** A message is the pair of a scene server and the thread that
sends it; a package has a head and a body, each named after the message it was
written for. `WriteHeader`, `WriteBody` and `Send` are the steps of
`NetEventClient::Send` on the shared `m_msgPack`, `ReadPack` and `PushPack` those of
`read_pack`. `shared` remembers where two of them overlapped. In the center server
a forward is one step per user (`ForwardMsg`), each of which may wait for room in
the send queue; `m_linkid` is the field that `Send` overwrites. Its sender threads
take and send in two steps (`TakeMessage`, `DoSend`), so that messages overtake each
other. What a torn package does to the framing of its link and the reuse of link ids
are left out.

## 3. The runs

| run | instance | what it shows |
|---|---|---|
| `queue` | 2 network threads, limit 3, 5 pushes | `TypeOK`, `NeverPastTheEnd`, refinement of `LossyFifo` (order, no duplicates, only the oldest is dropped and only at the limit), and `EventuallyDelivered`: no message is left in a deque nobody reads |
| `send` | 3 threads that put, 1 that force-puts, 1 poller, 2 blocking getters, size 2 | `TypeOK` (with the bound, although the code tests `==`), `NoLostPutWakeup`, `NoLostGetWakeup`: as many threads are awake as there are places, or messages, for those that wait |
| `server_full` | 2 receivers, 1 id, 2 clients, each sends at most one message, 2 senders | what holds even when two receivers fight for one id: `LinkIdsUnique`, `SendsOnLiveChannel`, `ClosesItsOwnChannel`, and the liveness properties `EveryClientServed`, `HangUpFreesLink`, `SendReturns` |
| `server_roomy` | 2 receivers, 3 ids, 4 clients, data, no sender thread, never full | `NotifiedQueueNotEmpty` (`front()` without a test for empty) and, below the limit only, `ConnectedIsInTable`, `OneClientPerLink`, `DataFromOwnClient`, `DisconnectIsReported`, `FreshIdNotInUse` |
| `server_ghost` | 2 receivers, 1 id, 2 clients | **violated**: finding 1 |
| `hosts` | 1 host whose link breaks, 2 capsules, 1 restart | `SeatExclusiveUnlessLost`, `RebuiltUnlessLost`, `AgentKnowsUnlessRestarted`, `NeverItsOwnHost` |
| `hosts_live` | 1 host, 2 capsules | `EveryAskAnswered`, `RecycledHostIsFreed` |
| `hosts_unknown` | 1 host, 2 capsules | **violated**: finding 2 |
| `scene` | 2 clients, one may leave and one may be external, a send queue of one place, 2 senders | `PresenceRightUnlessOvertaken`, `BatchIsCurrent`, and the liveness properties `SendReturns`, `EventsHandled`, `MoveReachesAll` |
| `stream` | 3 packages of 0 to 3 bytes after a header of 2, a socket of 7 bytes, reads of up to 4, a buffer limit of 4 | `OutAsSent`, `StaysInSync`, `BufferBounded`, and the liveness property `AllArrive` |
| `stop` | 2 receivers, 2 senders, a send queue of one place, 2 starts, 2 events per start | `OnlyReceiversUseDeleted`, `ListIsOfOneMoment`, and the liveness property `StopReturns` |
| `center` | 3 scene servers, a message from a message loop and one from a timer, one may leave, a send queue of one place, 2 senders | `OnceToEachOther`, `WholeUnlessShared`, and the liveness property `ReachesOthers` |

**Bounds.** The deques are limited to 3 so that five pushes overflow them,
with the reader inside its loop; six or more pushes only repeat this. Three
putters over two places are the smallest case in which a putter overtakes a
woken one while another still sleeps, two getters the same on the other side,
and the `force_put` thread adds what it does to both. One link id
for two clients makes reuse immediate, which is the dangerous case;
two clients over it are enough for the liveness of a hang-up against the next
owner, and two senders for one of them to hold the table while the other waits;
four clients over three ids is the smallest never-full server in which ids
come round again with two receivers at work. It has no sender threads, which
could only delay `Close`, and room in the send queue for every reply instead. In the controller, one host and
two capsules already compete; the host connects twice, so that its old link may
end after the new one is handled, before and after a restart. In the
scene, a send queue of one place (`m_maxSize`) blocks both threads at almost every
message; `MaxActs` bounds hang-ups, moves, requests, messages of the center server and the
loss of its link together, and two of them are enough for a move between the two
passes of the timer, a change of type between a move and its broadcast, and a
broadcast of the center server against the timer; with `BatchMax` 1 two movers
already overflow a message. In the stream, three packages let one be cut or
empty with another before and after it; a read holds parts of two packages, a
package takes several reads, and the offset passes the buffer limit in every
position. In the dialog, the second start shows what a stop leaves behind; two
events fill the send queue of one place, with a client that is added and one that
is deleted. Two senders, in both servers, are the fewest of which one can overtake
the other. In the center, three scene servers are the fewest for which "all others"
is more than one; two messages that cross make threads meet in an
`m_msgPack`. `CHECK_DEADLOCK FALSE`
stands where the system may come to rest: every client, capsule or
agent has used up its connections, nobody has to send or click, and a process may
have crashed. In the queue
modules pushing or polling never ends, and deadlock is checked.
`CommonMsgQueue` is checked for safety only: a blocked `put` may sleep for ever
if a `force_put` takes each place that is freed (nothing in the repository calls
`force_put`), so that `Send` returns is checked where the queue is used, in
`server_full`, `scene` and `stop`.

**Fairness.** Weak fairness on the loops that never stop: the
application's `Run()`, the receivers' event loops, `sender_thread_task`, the
agent's service loop, a capsule's `Receive`, and the message loop, the timer and the
senders of a scene server: one of them takes the next message, and the oldest one
taken is sent some time (`DoSend(1)`), however often it is overtaken. The same in the
center server. A thread inside a critical
section or a callback goes on (weak fairness on its next step). `Swap` waits for a
mutex that pushes take again and again (strong fairness). The
mutex of `PlayerManager` needs only weak fairness in the model: a timer handler
that finds nothing to send changes nothing and is left out, so neither thread
takes it for ever. Strong fairness also
stands in two places of `NetEventServer`: a thread that waits for
`m_channel_mtx`, which others take and release again and again, gets it in the
end (`CloseChannel`, `Lookup`), and an event loop that goes from callback to
callback comes to a socket that stays ready (`EventCb`). In the other modules
too the threads run (the loops of events, `Run`, senders, `Stop` between its waits,
`HandleNetEvent`, the network threads of clients) and bytes on their way arrive.
Clients, capsules, sessions, pushes, breaks, restarts and clicks have no fairness:
nobody has to connect, ask, hang up or fail. Nothing forces a spurious wakeup.

**What the properties do not say.** At the connection limit with two receivers
`ConnectedIsInTable`, `OneClientPerLink`, `DataFromOwnClient`,
`DisconnectIsReported` and `FreshIdNotInUse` do not hold; `server_ghost` shows
one of these. `RebuiltFromTable` and `SeatExclusive` hold across restarts and
not across broken links of an agent to a running controller, whose seat table in
memory is filled at the start only: a seat given out since is not bound again when
the agent comes back, and may be given to a second user. Hence the condition
`lost = {}` of `SeatExclusiveUnlessLost` and `RebuiltUnlessLost`. An answer on its
way to an agent is lost in a restart, hence `AgentKnowsUnlessRestarted`. Receivers
do use the event queue, the pool of ids and their base after `Stop` has deleted
them, and `StopReturns` says nothing of what follows; `OnlyReceiversUseDeleted`
says that nobody else does and that they use nothing else. Packages that follow a
cut one may be noise (`OutAsSent` speaks of those before it), and a capsule whose
answer arrives in pieces may fail (`AllArrive` allows that, `StaysInSync` says it is
the only reason). Where two threads are in one `m_msgPack` at the same time packages
are torn; `WholeUnlessShared` says that there is no other way. Two senders may swap
the news that a player has come and that it has left, and a client then keeps a
player who is gone: `PresenceRightUnlessOvertaken` speaks of the clients to which this
has not happened with this player, and says that nothing else goes wrong. Likewise an
agent that is told two users in the wrong order is exempt from
`AgentKnowsUnlessRestarted`. A transform that was swapped shows an old position until
the next move; `MoveReachesAll` only asks that a position is seen some time.

## 4. Findings

1. `server_ghost`: at the connection limit `Close` can clear the slot of the
   *next* client of a link id, because the id is given back
   (`Channel.cpp:116`) before the slot is cleared (`NetEventServer.cpp:276`) and
   `CreateChannel` takes no lock on the table. That client's disconnection is
   never reported and its id never comes back.
2. `hosts_unknown`: a connected capsule that has not named its user yet counts
   as a free VR host (`RemoteClient.cpp:15`, `RemoteClientManager.cpp:195`)
   and can be allocated to another user, who is told seat -1.

## 5. The proofs

Checked by `tlapm` for every value of the constants under the named
assumptions of each module: limits and the number of receiver threads at least
1, finite sets of threads for `CommonMsgQueue`, and null values (`NoConn`,
`NoThread`) outside the sets they stand beside.

* `MessageQueueAB_proofs`: `TypeCorrect` and `ReaderSafe`. The type invariant
  is not enough for the second: the inductive invariant adds (`ReaderInv`) that
  the deque the reader holds is never the current one, so that pushes go to the
  other, and that what it counted at the start of its loop is still the length
  of that deque.
* `CommonMsgQueue_proofs`: `BoundKept`, `PutWakeupsKept`, `GetWakeupsKept`. The
  two wakeup invariants are inductive together with the types. The work is in
  the counting: a notify moves one thread from the wait set to the woken set,
  a put that goes through takes one out, and each must match the change in the
  length of the queue; lemmas about the cardinality of these sets are stated
  once and cited.
* `NetEventServer_proofs`: `UniqueLinks` (property `LinkIdsUnique`) and
  `TableConsistent`. `LinkIdsUnique` by itself is not inductive: an id may be
  in the hands of a receiver and in no table. The inductive invariant says
  where every id is: in the pool, in the hand of one receiver
  (`HandInv`, between `AllocID` and `Install`), or on one open or closing
  connection (`TableInv`, `CloseInv`); that no two of these overlap
  (`PoolInv`); and that a connection is waiting in at most one queue
  (`QueueInv`), so that two receivers never install the same one.

  The other half of the module is about threads that meet in the table without a
  common lock. `NotifiedFinds`: bytes and connections are counted against each
  other, and the connection goes in first (`NotifyInv`). `SendsAlive` and
  `ClosesOwn` (properties `SendsOnLiveChannel`, `ClosesItsOwnChannel`): a Channel
  whose socket is open is armed at one receiver or in the hands of one
  (`PlaceInv`), no other Channel is in its slot, and one whose socket is closed is
  in a slot only while a receiver is closing it (`SlotInv`); that receiver and a
  sender are never inside `m_channel_mtx` together (`MutexInv`), so what a sender
  finds stays as it found it (`SenderInv`).

  The third part is about a server with an id to spare: the theorems are of
  `RoomySpec`, the specification of the run `server_roomy`, in which a step is taken
  only if fewer clients than ids are outstanding after it (`BelowCapacity`). They need
  it: `server_ghost` is the same server without the condition, and there a client's
  end is not reported. `TableKept`, `EndsReported`, `FreshSlot`, `OneEach` and
  `DataOwn` (`ConnectedIsInTable`, `DisconnectIsReported`, `FreshIdNotInUse`,
  `OneClientPerLink`, `DataFromOwnClient`) come from one inductive invariant
  (`Roomy`). Its first half says of the table what `SlotInv` could not, that a Channel
  in use *is* in its slot and a new id's slot is empty (`OwnSlot`). The danger is the
  id that `Close` returns to the pool before it clears the slot. It is the last in
  the pool until then (`GivenBack`), so it can be taken out only if it is the only
  one; but no id is lost (`Complete`), so there are as many ids in the pool as are on
  no client, and a receiver that asks for one finds two (`TwoLeft`, by cardinality).
  The second half (`Chain`) is about time, for the application reads the events long
  after they happened: on each link the events, read in order from the clients the
  application has listed, are of one connection after the other, each ended before
  the next begins, and the last is the one that is in the table now (`Current`).
* `PackageStream_proofs`: `BufferStaysBounded` (property `BufferBounded`), for any
  lengths, number of packages and way of cutting. The bound needs that a reader
  only waits with less than a package in its buffer (`Unread`), and that needs
  that every byte is one of a package that was sent, whose length the reader looks
  up (`Sent`), which lemmas show of the operators that cut and join bytes.
  `HandsOverAsSent` (`OutAsSent`) and `ReadersStayInSync` (`StaysInSync`) say what
  the unread bytes are: in the buffer from the offset on, and after them on the
  wire, whole packages in the order in which they were sent (`Blocks`), up to the
  first one that was cut; the C++ reader always stands at the start of one of them
  (`CppHead`), and the capsule too, although it may have popped bytes that have not
  arrived yet (`CapsuleHead`).
* `VRHostControllerUI_proofs`: `StopWaits` (property `OnlyReceiversUseDeleted`), for
  any number of threads, starts and events. The inductive invariant follows
  `Stop`: how far it is tells which threads have ended (`Progress`), and what
  may be deleted by then (`Deletion`). `ListIsConsistent` (the action property
  `ListIsOfOneMoment`) adds that the timer holds the mutex for as long as it is in
  the list (`ListHoldsMutex`), which no other thread's step takes from it.
* `VRCenterServer_proofs`: `GetsOnce` (`OnceToEachOther`) and `GetsWholeMessages`
  (`WholeUnlessShared`), for any scene servers, whichever send, come or leave,
  any send queue and any number of senders. A message for `s` is at one place only: an
  event still to be forwarded to `s`, the send queue or the hands of a sender, the
  link, or `s` itself (`Once`). That a
  forward does not put it there twice needs that no user is listed twice
  (`Joined`); that a new message is unlike those on their way needs that each of
  these is the whole message of a sender that is done with it (`Traced`), as long
  as no second thread was in the sender's `m_msgPack` (`Clients`). A message comes
  back to nobody because each turn of the loop compares with the copy of the link
  id (`NotBack`).
* `VRHostController_proofs`: `NotItself` (the action property `NeverItsOwnHost`),
  from the order in which a link's messages arrive and from no client being listed
  twice (`Listed`). `SeatsOne` and `SeatsRebuilt` (`SeatExclusiveUnlessLost`,
  `RebuiltUnlessLost`), for any hosts, capsules, connections and restarts: neither is
  inductive, nor are both together. Whoever has a seat, or is being told it, must be
  whom the controller has for it, in its list or, until the host has reported after
  a restart, in the table, and the last line of the seat in the file must say so
  (`Seating`); a host must be freed once per session and report once per connection,
  and before any user is given to it there (`Steady`), for a second report would
  bind it to an old line. `AgentsKnow` (`AgentKnowsUnlessRestarted`) needs in
  addition that there is no table of old users before the first restart (`Knowing`),
  and that a message taken out of turn changes the last user id on its way only if it is
  itself a user id behind another, which is what `overtaken` remembers.
* `VRSceneServer_proofs`: `SendsStill` (`BatchIsCurrent`) and `EveryoneKnows`
  (`PresenceRightUnlessOvertaken`), for any clients, whichever leave or are external,
  any send queue and any number of senders. The first rests on the mutex, which is
  the timer's for as long as it has anything to send, although the message loop
  unlocks it too (`Held`). The second speaks of rest only, and rest says nothing of how one got there; the invariant
  (`Presence`) says of every state what each client *will* know once all that is on
  its way to it has arrived, first what the senders have taken, then what is in the send
  queue, then what the application has still to put (`Will`): already all who are there
  and nobody else, unless the client has still to be sent its list of users. Only the
  last message that names a player decides about it; a message that is sent out of turn
  leaves that as it is, unless it overtakes one about the same player. That the list of
  players agrees with who is there, but for events not yet handled, is `Listed`;
  that nobody who has not connected is known anywhere, `Alive`.
* `MessageQueueAB_proofs` also proves the refinement: `Refinement` (property
  `ImplementsFifo`) shows that each step of the two deques is a step of
  `LossyFifo` or a stutter. An append above the limit is the FIFO's push that drops
  the oldest, the trim is a stutter; `Swap` collects. The mapping needs the type
  invariant, `ReaderInv`, and that the serial numbers in use are those pushed so
  far (`UsedInv`).

The assumptions are those named in the modules: besides the above, that `Nothing`
is neither a scene server nor a message in `VRCenterServer`, and that null values
are apart from the sets of clients, hosts and capsules. None of them limits the
number of threads, senders among them, of clients, messages or restarts; what a
program does on one thread of its own (a message loop, a timer, the dialog) is one
thread in its model too. One thing is narrower than the code: `VRSceneServer` and
`VRCenterServer` name links after their clients, which connect once, so that a link id
is not reused there.

**Only model-checked.** Liveness under fairness is beyond the proof system
(`EventuallyDelivered`, `EveryClientServed`, `HangUpFreesLink`, the two `SendReturns`,
`EveryAskAnswered`, `RecycledHostIsFreed`, `EventsHandled`, `MoveReachesAll`,
`AllArrive`, `StopReturns`, `ReachesOthers`).
Every invariant and every action property of a passing run has a theorem. Facts by
induction over data (what a recursive definition computes for every input) are out
of reach too; the modules therefore use no recursive operators.

## 6. What is not modelled, and the plan

All components with logic of their own are modelled, most of them but for
configuration. What is left out, and why:

* `NetEventClient::Disconnect`, `clear` and the destructor. The service loop of an
  agent calls them on every reconnect (`ServiceMain.cpp:96-103`: `Disconn()`, then
  `delete g_pClientAgent`): the event base and the queue are freed before the network
  thread, which may still be in its loop, is joined. What that thread then does is
  undefined, and no model of it would say more than that; `VRHostController` replaces
  the old client by the new one in one step. The hazard is listed, without a property.
* The second read of the slot in `CreateChannel` (`NetEventServer.cpp:501` reads
  `m_Channels[cid]` for NULL and again for the flag, without the lock): a `Close` that
  clears the slot in between makes it a call on a null pointer. Below the connection
  limit the slot is empty (`FreshIdNotInUse`) and this cannot happen; at the limit the
  model leaves it out.
* The one-second limit of an agent's connection attempt: the agent tries again, in
  the model as in the code; that an attempt given up may still succeed later is
  not modelled.
* The event queue's limit in the server: the bounds stay below it, and the loss of
  a `link_disconnected` at the limit is a hazard without a property.
* A crash between two steps of a handler of the controller, and the day's change
  of the seat file: the modelled restart is that of the dialog.
* A processor count of one, for which the server creates no threads
  (`ThreadNum` is assumed to be at least 1).
* Logging and the text of log messages, configuration files, the dialog's drawing,
  the rest of the load generator.

What is worth doing next, most important first:

1. An abstract specification of seats (a seat is free or somebody's), implemented
   by `VRHostController` without restarts, and the proof of that refinement.
2. The limit of the event queue composed with the server.
