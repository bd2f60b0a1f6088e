# A verification project for mapsvr

mapsvr is a multi-player map server: a C++ network core that hosts Lua virtual
machines, game logic in Lua (logins, 2D and 3D maps, frame-synchronised rooms),
and `dbsvrgo`, a Go process in front of PostgreSQL. This directory holds TLA+
models of the parts of the server where the order of events matters, the TLC
configurations that check them, and theorems about them with machine-checked
proofs. Paths below are relative to the repository.

    Session ......... logins, the player manager, dbsvrgo, safe stop
      SessionLock ..... what the login service promises: a lock per user
      DurableSession .. ... and that the user's data survives under that lock
      SessionProps .... properties          MCSession ... TLC instances
      SessionProofs ... theorems
    CoroutineMgr .... the coroutine scheduler
      CoroutineProps, CoroutineProofs, MCCoroutine
    Map3D ........... the 3D maps: members, beds, octree, bullets
      Map3DProps, Map3DProofs, MCMap3D
    Map2D ........... the 2D maps: members, inputs, fixed steps, quadtree
      MapClock ........ what the fixed steps promise about time
      Map2DProps, Map2DProofs, MCMap2D
    FSRoom .......... the frame-synchronised rooms and their manager
      FSRoomProps, FSRoomProofs, MCFSRoom
    PathFinding ..... A* on the maps of the rooms
      PathProps, PathProofs, MCPath
    LuaPlugin ....... the virtual machines of the C++ host and their hot reload
      LuaPluginProps, LuaPluginProofs, MCLuaPlugin
    ProtoLua ........ values, messages and tables of the two conversions
      ProtoToLua ...... a message becomes a Lua table
      LuaToProto ...... a Lua table becomes a message
      LuaBridge ....... both in one request, with the script between them
      LuaBridgeProps, LuaBridgeInv, LuaBridgeProofs, MCLuaBridge

Chapters: 1 the inventory of the system, 2 the plan and how far it is carried
out, 3 the modules and the code they stand for, 4 the runs, 5 fairness and
deadlock, 6 the theorems, 7 what was found, 8 what is not modelled.

## 1. Inventory

### Threads, processes and how they talk

One process runs three kinds of Lua VMs (`src/src/app/lua_plugin.cpp`): *main*,
one *worker* per network thread, and *other*. All game logic runs in *other*,
in one thread: a handler is never interrupted. Workers forward connection
events and client messages over tunnels, in order for each connection. *other*
and `dbsvrgo` exchange messages over one TCP stream; `dbsvrgo` puts what it
reads in a channel of 1024 and one goroutine serves it in order. So the
concurrency of the system is in its messages: everything that takes a round
trip (a login and its SELECT, a kick and its CLOSE event) may find a changed
world when it comes back.

A message crosses from C++ to Lua and back as a table: two functions of
`lua_plugin.cpp`, written without recursion, walk messages and tables with a
stack of frames of their own beside the stack of the Lua machine. All messages of
the game go through them. A signal to the process asks every VM to reload its
scripts; the thread of a VM does it in its next tick.

An uncaught error in a callback of the Lua VM ends the process; an error in a
coroutine ends only that coroutine.

### Components

| component | state | operations | what makes it correct |
|---|---|---|---|
| login session: `PlayerMgrLogic`, `PlayerLogic`, `MsgHandlerFrom{Client,Other,UDP}Logic`, `MapSvr` | players, userId ↔ playerId tables, online connections, safe-stop flag | NEW, CLOSE, LOGIN and its answer, EXAMPLE, CREATE_USER, tick, safe stop, stop, reload | a user is played by one connection at most; no Player outlives its connection; data saved by a logout is what the next login loads; a safe stop empties the server and saves everybody |
| `dbsvrgo`: worker, client, mapper | the channel, the table of users | SELECT, INSERT, REPLACE; reconnect | requests served once and in order; failures |
| coroutine scheduler: `CoroutineMgrLogic` | sessions, ready queue, timer heap | spawn, wait, wakeup, kill, tick | no wake-up lost, none delivered twice, a timeout ends its own wait only |
| 3D map: `Map3DLogic`, `Map3DLogicBed`, `Map3DOctreeLogic`, `PlayerCmptMap3DLogic` | players, octree, beds, bullets; the player's `nowMapId` | enter, leave, input, shoot, chat, sleep, wake, fixed update | membership agrees on both sides; the octree finds exactly who is there; a sleeper is alone and unmoved in its bed; bullets end and are counted |
| 2D map: `MapLogic`, `MapQuadTreeLogic`, `PlayerCmptMapLogic` | players, quadtree, input sequence numbers, accumulator | enter, leave, input, tick | membership; inputs neither lost for ever nor applied twice; simulated time lags and never leads |
| rooms: `FSRoomLogic`, `FSRoomMgrLogic`, `FSRoomSyncLogic`, `FSRoomPlayerLogic` | players, state, frames, commands | add, remove, ready, start, finish, command, update, reconnect, cleanup | a room reaches its end; everybody gets the same frames |
| room maps and A\*: `FSRoom{Square,Hex,Isometric}Map…` | a grid; none between calls | find a path | the path is legal and shortest |
| player components: info, bag | level, experience, items and counts | add, remove, use, level up | counts stay in range, nothing is created or lost |
| helpers: big integers, random, collision | none | arithmetic, geometry | agree with their mathematical meaning |
| Lua plugin: VMs, tunnels, reload | VM states, the reload flags; the versions of the scripts' functions | start, ticks, reload, stop | no request to reload is swallowed; after a reload the handlers run whole modules of the new version, or the process ends |
| conversions between protobuf and Lua | the frames of the conversion, the Lua stack | a message to a table, a default message, a table to a message | each table and key lies where the code counts on it; the stack has its size again afterwards; what the script passes is what is sent; they end |
| time, log, debug, validation, configuration tables | the clock | — | — |
| protocol, test clients, scripts | none of the server's | — | — |

### What is hard

- *Round trips.* Between a LOGIN and its answer the connection may close, the
  same user may log in (and out) through another connection, the same
  connection may send a second LOGIN, and the safe stop may begin.
- *Nobody acknowledges.* A logout mails the record to the database and forgets
  it; a failed write is logged only; a lost SELECT leaves a login unanswered.
- *Call-backs into a loop.* The coroutines that the scheduler resumes spawn,
  wake and kill others while its loop walks the ready queue, a Lua table that
  may get holes.
- *Two copies of one fact.* `nowMapId` and a map's players; a player and its
  item in the octree; a bed's `sleeper` and the player's `sleepBedId`; the
  bullets and `bulletCount`. Each pair is updated by several handlers.
- *A stack that nobody checks.* The conversions address the Lua stack relative to
  its top and to its bottom; one pop too few in one branch corrupts a message that
  is converted a hundred fields later. They meet whatever a script left in its
  table: gaps, wrong types, numbers out of range.
- *Flags shared by threads.* The reload flags of the workers are bits of one word.
- *Frames and sequence numbers* (2D map, rooms): accumulators with a cap,
  numbers that wrap, a history whose frames are found by their numbers.

`PROJECT.json` lists each of these hazards at its line, with the properties that
cover it or the reason why none does yet.

## 2. Plan

Order: what decides whether a player can play and keeps its data comes first.

1. **Session** with SessionLock and DurableSession: built; its safety and both
   refinements are proved. Left: account creation.
2. **CoroutineMgr**: built; its safety is proved.
3. **Map3D**: built and proved. Left: its clock (that of MapClock), its input
   handler, whose numbers it treats differently from the 2D map, and chat, with
   the cooldowns.
4. **Map2D** with MapClock: built and proved.
5. **FSRoom**: built; its safety is proved. Left: the battle, once players have
   hit points.
6. **Algorithms**: A\* built and proved. Left: the decimal big integers against
   integers, item counts at INT32_MAX.
7. **LuaPlugin** and the conversions (ProtoLua, ProtoToLua, LuaToProto,
   LuaBridge): built; the safety of the reload, the discipline of the stack and the
   faithfulness of the conversions are proved. Left: the tunnels, which are queues
   of the host's own library.

Maps and rooms compose with Session through the player: a login makes a Player
that is in no map, a logout calls the components' `OnLogout`, which leaves the
map. Map2D and Map3D have both as their `Login` and `Logout` actions, and their
`online` is Session's set of users with a Player.

## 3. The modules

Names follow the source: a variable is called as the Lua field it stands for, an
action as the function. `PROJECT.json` maps each definition to its lines. A
handler of the *other* VM is one action, whatever it calls, because nothing runs
between its statements; a function is split only where control really leaves it.

### Session

`players`, `userIdToPlayerId`, `playerIdToUserId` and `online` are the tables of
`PlayerMgr`; `safeStop` and `running` belong to `MapSvr`. `fromClient[c]` is the
part of the tunnels from the workers that concerns one connection, `closeReq` the
CLOSE requests on their way back, `conn` what the worker knows. `toDb` and
`fromDb` are the IPC stream with `dbsvrgo`'s channel, `db` its table. A record is
abstracted to its *version*, the ticks of play it holds: the properties only ask
which of two records is newer. `replies` keeps what each connection was told.

| action | code |
|---|---|
| `ClientOpen`, `ClientLogin`, `ClientExample`, `ClientClose`, `WorkerClose` | client and worker: the events and messages they forward |
| `HandleNew`, `HandleClose`, `HandleExample`, `HandleLogin` | `MsgHandlerFromClientLogic.lua` with `PlayerMgrLogic.lua` and `PlayerLogic.lua` |
| `HandleLoginRes` | `MsgHandlerFromOtherLogic.lua`: the answer to a login's SELECT |
| `PlayerTick` | `PlayerMgr.OnTick`: the play that a record is made of |
| `SafeStop`, `Stop` | `MsgHandlerFromUDPLogic.lua`, `MapSvr.lua`, `PlayerMgr.OnStop` |
| `DbSelect`, `DbWrite`, `DbWriteFails`, `LinkDrop` | `dbsvrgo/worker`, `dbsvrgo/client`, and failures of the stream |

A connection is opened at most once, because gids are not reused. A SELECT may
find no record although there is one: a failing query is answered like an empty
result. `SerialLogins` and `OrderlyStop` are switches of the environment and not
code; section 4 says where they are on.

SessionLock is the abstraction: one lock per user, taken by a login, given back
by a logout, never passed on directly. DurableSession adds the data under the
lock. The refinement mapping looks for a user's data in its Player, else in the
last write under way, else in the table.

### CoroutineMgr

`sessions`, `readyQueue`, `sleepList`, `sessionSeed` and `lastTickMS` are the
fields of `CoroutineMgr`. `OnTick` is the one function modelled as several steps
(`TickStart`, `PopTimer`, `TimersDone`, `ResumeNext`, `TickEnd`), since the
coroutines it resumes call back into the scheduler; `running` says which of them
has control. `readyQueue` is a Lua table that may get holes, and its length is
then any of its *borders*: the constant operator `Lengths` picks them, all of
them in one run, the one that LuaJIT computes in the other. `Nested` says whether
a running coroutine may spawn and wake, as `CoroutineMgrTest.lua` does; it may wake
itself too, for `CurrentSessionID` tells it its id.

### Map3D

Positions are points of a line. What gravity, walls, steering and clamping make
of a position is abstracted to *any* point in reach (`Moved`), so that no
property depends on the physics. The octree is the set of (user, node) items of
its deepest nodes, and a map player points to its node, as in the code. Beds are
kept on both sides, `bed.sleeper` and `sleepBedId`. `FixedUpdate` is the whole
update: players that are awake move and are reinserted, bodies that touch are
pushed apart and reinserted, and bullets fly, hit, age, and are removed and
counted, with all the branches that may name a bullet.

### Map2D and MapClock

Here the physics is the code's, in integers with `math.floor`, on one axis: the
code treats both alike. `MapInputReq` has the check of the sequence number with
its side effect at UINT32_MAX. `OnTick` adds the capped frame time of each map to
its accumulator and `FixedUpdate` takes a step out of it; handlers wait until all
accumulators are below one step, which is when `OnTick` returns. A client numbers
its inputs modulo 2^32, repeats its last one or sends the next, and **starts anew
in every map it enters**, as the map does. That is an assumption on the client:
the demo page (`testing/html/websocket_pb_demo.html:939`) counts on, and its
character ignores the inputs in its second map.

MapClock is the abstraction of the accumulator: time that passes adds to a lag,
an update takes one step of it away, and a lag beyond a whole hiccup may be cut,
to no less than a hiccup.

### FSRoom

Rooms with their players, their life (waiting, running, finished), the commands
being collected and the history of frames, and the manager with reload, clean-up
and stop. No handler of the server calls rooms yet, so any order of calls is a
behaviour. Nobody gives a room player hit points, so the battle refuses every
command of a frame, "exactly one is alive" is never true, and a game ends only
when the last player leaves: the model keeps `HP` and the check, and leaves out
the skills, which cannot be reached. `accepted` is a history variable: the
commands that `ProcessCommand` said yes to. `GetFramesSince` is modelled as the
list it returns; `HandleReconnect`, its caller, logs the length of that list and
**sends nothing** (section 8).

### PathFinding

One behaviour is one call of `FindPath`, and a step takes one tile from the
queue. The square, the hexagonal and the isometric map have a copy of the search
each, and the map entries cite all of them; neighbours, distance and cost differ
by kind, and the isometric map is the square one. PathProps defines the cheapest
ways by relaxation to a fixed point, without a queue, from a definition of a
legal step of its own. Costs are in thousandths.

The loops of the code, and its recursive `BubbleUp` and `BubbleDown`, are recursive
*functions* of the number of rounds: as many rounds as the loop can have at most,
of which those after its end change nothing. That is the form that proofs can
reason about.

### LuaPlugin

One variable for each thing that two threads share: `flag` for the two bools,
`bits` for the word of the workers' flags. Whoever raises or lowers a bit reads
the word (`ReloadRead`, `OnWorkerTick`) and writes it back (`ReloadWrite`,
`WorkerReload`), and what happens in between is lost: `word` and `sig.copy` are
the copies held meanwhile. `owed` and `stale` are history variables: the machines
that were asked since their last `OnReload`, and the workers whose flag an old copy
has overwritten. `disk` says which version of each module is on disk and what comes of running it,
`package` what `package.loaded` holds, and `code` which versions the functions of a
module have: a file that raises an error half way leaves some of the old ones, for
`require` runs it up to the error, under `pcall`.

A reload has two halves, and their order matters. `Other:OnReload` clears the entry
of `MapSvr` alone and requires it: what `MapSvr` requires comes from
`package.loaded`, unless it is not there (`Anew`, `AfterRequire`). If that fails the
process exits, since the line that would log it (`Other.lua:44`) fails itself
(`MapSvrLoads`). Then `MapSvr.OnReload` clears its `reloadList` and requires each
module of it, with `MapSvr` in `package.loaded` (`Loadable`), and
`MsgHandler:OnReload` requires the `Handlers` without `pcall`
(`HandlersRequired`). So a broken module that a handler requires ends the process,
and one that only `MapSvr` requires does not, in this reload: if its file raised an
error, LuaJIT's mark stays in `package.loaded` ("failed") and the next reload ends
the process, even if the file has been repaired by then; if it did not parse, the
next reload tries it again. A module that is on no list (`Log`, the `...Data`
modules) is loaded once and not part of `Mods`.

`reload()` is an actor of its own (the handler of SIGUSR1), of which there is one
call at a time. Nobody edits a file while `OnReload` reads it. The main and the
worker scripts only log in `OnReload`, which is therefore part of the action that
lowers the flag.

### ProtoLua, ProtoToLua, LuaToProto, LuaBridge

An action is one round of the loop of `protobuf2lua_nostack` or
`lua2protobuf_nostack`, with the case of the field in it, so that the actions of
one function partition the paths through its body. `wframes` and `rframes` are
the frames (`cpp_stack`), `stack` is the Lua stack, `tabs` the Lua tables with
their pairs in the order in which `lua_next` gives them, `pb` the messages. The
field `at` of a frame is the only addition: the place its table has when the frame
is made. The code does not keep it but counts on it, and `StackShape` compares the
two. `scan` is the inner loop over an array, which makes a frame for each element
that is a table and lets the last one run first.

Values are whole numbers, texts, names, booleans, tables and nil. The kinds of
fields keep their ranges (`Half32`, `Half64`), and what is undefined in C++ (a
double out of the range of an integer) is any value of the range. The text of a
number from `Exact` on has an exponent, of which `std::stoll` reads one digit;
`std::stoull` wraps a negative one. `Jit` is the default build (`build.sh:64`,
`Dockerfile:35`), in which the length of an array is the number of its pairs; the
other one uses Lua's border. Abstracted: fractions, and the presence of a message
field that is not set, which is read as its default and becomes a table. The
script edits only the outermost table of its answer, with values of its own, and
uses no table as a key.

LuaBridge composes the two: a message arrives (`exe_OnLuaVMRecvMessage`, which the
client's, the IPC and the UDP message share) and becomes a table, the script edits
it or takes a new one (`CreateNewProtobufByCmd`), and `Lua2Protobuf` makes a
message of it and sends it along the route the script names.

## 4. The runs

| run | question | bounds |
|---|---|---|
| `session_core` | Is a user played once, does each Player have a live connection, does a safe stop overlook nobody, is the lock implemented, whatever the order of logins, closes, safe stop, stop and failures? | 2 connections, 2 users, 2 requests each, one failure; connections are symmetric (only safety is checked) |
| `session_live` | Does a closed connection give its user back, does a safe stop empty the server? | 2 connections, 1 user, every kind of password, one failure |
| `session_durable` | Is data that nobody acknowledges durable, if the logins of a user do not overlap, nothing is lost and the stop is orderly? | 2 connections, 2 requests each, 2 ticks of play |
| `session_stale` | finding of section 7: the same without serial logins | 2 connections, 1 request each |
| `coro_core` | Is no answer lost, duplicated or replaced, does each timer end its own Wait only and none too late, whatever the length operator answers? | 2 coroutines, 4 slots, one resume per tick, times 0 to 3 |
| `coro_lost` | finding of section 7: nested calls, LuaJIT's length | 2 coroutines, 4 slots |
| `map3d_core` | Do users, maps, beds, octree and bullet count agree, and do bullets end? | 2 users, 2 maps and one that does not exist, 2 beds, 4 points in 2 nodes, 1 bullet |
| `map2d_core` | Membership, quadtree, numbers across the wrap, limits, clock, headway | 2 users (symmetric: only safety is checked), 2 maps and one that does not exist, 3 nodes, numbers 0 to 2, gaps from none to more than the cap |
| `fsroom_core` | Does each command run once, are the frames after any frame found, does no game go on without players, is a room freed? | 3 users for 2 places, 2 kinds of command, 3 frames, 3 commands |
| `path_core` | Is the path legal, is none cheaper, is the queue a heap? | all 4096 choices of walls in 12 tiles of a 7 x 3 map, 2 starts, 2 goals (one of them in the border), 3 kinds of map |
| `plugin_core` | Is every request to reload kept and served, and do the handlers run whole modules of the version that was asked for? | 2 workers, `MapSvr`, a handler, a module both require and one that only `MapSvr` requires, 1 edit, the *other* thread may stop; 570 836 states |
| `conv_core` | Is the Lua stack as the code counts on it, is what the script passes what is sent, does every conversion end? | 3 message types with every kind of field and every shape, integers of 2 and 3 bits, 2 edits out of 17; 123 737 states |

Why these reach the cases that matter. Overlapping logins need two connections; a
second user shows that connections and users are not mixed up. Two requests let a
connection ask again while its first login is under way. One failure already
loses any suffix of both directions. With two coroutines and a limit of one, a
tick leaves an entry behind and the queue gets holes; four slots hold what two
coroutines fill before the queue starts over. Four points in two nodes make
queries that touch one node, both, or their border. The numbers 0 to 2 wrap, are
repeated on both sides of the wrap and are refused at it. `MaxGap` 4 exceeds
`MaxFrame` 3, which is no multiple of the step of 2: accumulators keep rests, and
hiccups are cut. On smaller maps than 7 x 3 the search never improves the way to
a tile that waits in its queue. Two workers are what it takes to share a word of
flags; a module that a handler requires, one that only `MapSvr` requires, the
handler and `MapSvr` are the four ways in which a failed load can matter; the one
edit changes or breaks any of them, in either way, before, between or after any
number of reloads. What a repair changes takes a second edit: that the invariants
hold for it too is proved, and not run. Only *other* may stop (`Stopping`), since
it is the machine with state to lose. The three message types nest a message, an
array of messages, and an array of messages within one; the edits put there gaps,
strange elements, values of the wrong type and out of range, and a first element
that is no table.

Every bound on a counter (`MaxReqs`, `MaxDrops`, `MaxVersion`, `MaxNow`, `MaxIdx`,
`MaxSessions`, `MaxGap`, `MaxFrames`, `MaxCommands`) is a constant that a guard
uses; no run needs a state constraint.

All type invariants are theorems, which no run repeats. Theorems are also
`NoGhostPlayer` and `NewConnHasNoPlayer`, which follow from `ConnLife`, and
`NoLoginAfterSafeStop`, on which `SafeStopKicksAll` rests.

A property that holds is worth as much as its power to fail: for each of them
`PROJECT.json` names a mutant, a small bug in one mapped definition, written next
to it, under which TLC finds the property violated in the same run.

## 5. Fairness and deadlock

- *Session*: workers obey CLOSE requests, the *other* VM takes the next message of
  each connection and the next answer, `dbsvrgo` serves the next request: event
  loops that run whenever something is queued. Nothing is assumed of clients,
  ticks, the operator or failures. The four handlers of client messages share one
  fairness condition for each connection, as they share its queue.
- *CoroutineMgr*: the event loop ticks, time passes, and a coroutine gives up
  control. The last is an assumption on the game logic: the scheduler cannot
  interrupt a coroutine. `TimedWaitEnds` also assumes that no tick leaves anything
  in the ready queue (`NoHoles`); section 7 says why it has to.
- *Map3D*: each map is updated again and again, by the manager's `OnTick`.
- *FSRoom*: the manager's tick looks for rooms to free every 20 seconds.
- *LuaPlugin*: the main and the *other* thread tick again and again, as long as the
  process is up. Nothing is assumed of the workers, the signal or the files.
- *LuaBridge*: a conversion that can go on goes on. Nothing is assumed of the
  script.
- *Map2D* and *PathFinding*: safety only; that A\* ends follows from the last part
  of `HeapOrdered`, by which no tile is taken twice (a theorem, so on every map).

`CHECK_DEADLOCK FALSE` stands where a behaviour ends: in the Session runs (the
process stops, and connections are opened once), in `path_core` (the call
returns), in `plugin_core` (the process exits, and nothing is left to run) and in
`conv_core` (the message is sent). In the others TLC also checks that the system can always go on.

## 6. The theorems

They hold for all values of the constants that the named assumptions allow
(`SessionAssumption`, `CoroutineAssumption`, `LengthsAssumption`, `Map3DAssumption`,
`Map2DAssumption`, `ModsAssumption` and their like): nil is no proper value, numbers
are numbers, characters appear inside the map, the room maps have a natural width
and height, the length of a table is one of its borders, the messages that arrive fit their types, and the script's values are Lua
values. One of them is about this code base: no message type has a repeated float
(`NoFloatArrays`).

**SessionProofs.** `TypeOK` is inductive by itself, and `BindingOK` on top of it:
`MgrSteps` first reduces all actions to the five things that can happen to
`PlayerMgr`, and each of these keeps its maps inverse to each other. From the two
follow `NoLoginAfterSafeStop` and the refinement of SessionLock, step by step.
`NoGhostPlayer` is not inductive: whether a Player may be made depends on
`online`, and whether a CLOSE still comes depends on the whole tunnel. `ConnLife`
is the strengthening: NEW is the first message of a connection and CLOSE the last,
a connection is online only in between, and only an online one has a Player. It
yields `NoGhostPlayer` and `NewConnHasNoPlayer`. With it also `SafeStopKicksAll` is
inductive: a safe stop asks for a CLOSE for every Player there is (`SafeStopStarts`),
afterwards none is made, whatever answers were on their way (`NoLoginStep`), and
the only step that takes a request out of the queue closes its connection, or
finds it gone (`CloseSteps`).

Three theorems have a hypothesis about the environment. `SerialLogins` says that a
client sends a LOGIN only when no other attempt for the same user is under way;
the code does not ask for it, and section 7 says what happens without. Its
inductive form is `DurInv`: of each user there is at most one attempt, in the
tunnel, before the database or on its way back; while it is with the database or
on its way back nobody plays the user, the writes of the user lie before its
SELECT, and the answer holds what the database holds, or nothing. From it follow
`OkMeansPlayer` and `LoginLoadsLatest`, **whatever is lost and however the server
stops**. The second is the property that the finding `session_stale` violates: so
overlapping logins are its only cause, and to exclude them would be a sufficient
repair. The refinement of DurableSession needs also that nothing is lost and that
the stop is orderly (`Dependable`): the data of a user, in the Player, in the last
write under way or in the table, is then changed by play and by nothing else
(`DataKept` for every other step).

**Map3DProofs and Map2DProofs.** `TypeOK` and `MemberIffNow` are inductive only
together: a request goes to the map in `nowMapId` and uses the player it finds
there, and only membership says that there is one. `QueryExact` rests on
`Indexed`, which is inductive: the tree has one item for each player, in the node
the player points to, which is the one it stands in. That an indexed tree answers
exactly is then arithmetic: a node contains its positions, so one out of range
has nobody in range. In the 3D map, `SleepsInOwnBed` follows from what an update
may do to players (`Settled`), and `CountIsExact` from the cardinalities of
disjoint sets of bullets: none is removed for two reasons. In the 2D map,
`WithinLimits` rests on bounds of the rounded quotients (`TargetInside`,
`AcceleratedInside`), `InStep` on the remainder and the cases of the wrap
(`SeqStep`), for numbers of any width, and `KeepsTime` maps every step to one of
MapClock: time that passes to `Pass`, an update to `Simulate`, a tick to `GiveUp`,
all others to a stutter. `Headway` has a hypothesis that no code checks but the
numbers of the code meet: full speed is at least one pixel per update
(`FullSpeedMoves`; 100 * 50 div 1000 is five, MapLogic.lua:20 and 137). Then an update
either brings the speed nearer to the full one (`SpeedsUp`), or the speed is the
full one already and the step is not rounded away (`MovesOn`, from `Divides` and
`DivSign`).

**CoroutineProofs.** `NobodyOverdue` follows from `Armed`: who waits for a time has an
item with this very time in the heap. The items of earlier waits, which are never
taken out, do no harm, for only the time of the present one counts; what pops too
early is ignored, and what is due is popped before the phase of the timers ends.
`NoEarlyTimeout` and `FirstAnswerWins` hold with nested calls
too. They need to know who has control (`Control`: a session runs exactly if the
loop has resumed it and it has not yielded, and only while the loop resumes), that
ids beyond the seed belong to nobody (`Fresh`), and that a coroutine that never ran
is never timed out (`Answers`). `NothingIsLost` is about calls that are not nested,
for with nested calls it is false (section 7). Its invariant `QInv` says what the
slots still to come hold: each session at most once, none without an answer, every
suspended one with an answer, and never the one that runs. The proof uses of the
length operator only that it is a border (`EnqueueFills`: the slot behind it is
empty), so it holds for each implementation of Lua.

**FSRoomProofs.** The invariant `IInv` is about one room and its history variable
(`Good`): frames are numbered without a gap and as many as the room says, a
command that waits is stamped with the current frame and those of a frame with the
one before it, and the commands of all frames, followed by those that wait, are the
ones that were accepted. A room that a reload, a start or a clean-up makes anew
starts with empty ones. `FramesSinceExact` is then a fact about the loop of
`GetFramesSince`: on frames numbered 1 to n it returns the last n - k (and nothing
about what a client is sent, which is nothing). `NoGameWithoutPlayers` rests on
`StaffedRooms`: a room counts its players right (`Good`), runs its frames exactly while its
state says so, and is never left running by a call that took its last player.

**PathProofs.** The longest argument, from the swap of two queue entries to
optimality. (1) *The queue*: the order is broken at one place at most while a tile
rises or sinks (`RaiseIs`, `SinkIs`), the loops run long enough to repair it
(`BubbleUpIs`, `BubbleDownIs`), and so `Push`, `UpdatePriority` and `Popped` take a
good queue to a good queue with exactly the tiles and priorities they should
(`PushIs`, `PoppedIs`); the first tile has the least priority (`RootIs`). (2) *The
maps*: the neighbours of a tile are the tiles at a legal step (`GetNeighborsAre`),
what a step costs, and that no step shortens the estimate by more than it costs
(`Consistent`), by linear arithmetic for each kind of map. (3) *The search*:
`PathInv` says that the queue holds the tiles that were reached and not closed,
each with its cost plus its estimate; that each cost is that of a way through
`cameFrom`; that no closed tile is farther than a queued one; and that all
neighbours of a closed tile were reached at no more than the cost through it. It is
preserved by one neighbour (`VisitIs`), by all of them (`ExpandedIs`) and by the
whole step (`ExpandKeeps`). `cameFrom` leads back to the start through smaller
costs, so through no tile twice, and a pigeonhole argument shows that as many
rounds as there are tiles are enough (`ReconstructIs`). That gives `HeapOrdered` and
`LegalPath`. (4) *The definition*: relaxation from the start keeps only ways that no
legal way undercuts; a closed tile is never more expensive than a way of the
definition (`NotCheaper`), the path found is a way of the definition's
(`AsCheap`), and if there is none, closed tiles are closed under legal steps and the
goal is not among them (`NoWay`). Together: `Shortest`.

*Induction.* A library theorem that takes a predicate cannot be used here, but
one about a set can: a non-empty set of numbers has a least element (`LeastNat`,
from the well-foundedness of `<`), hence a set that holds 0 and with k - 1 also k
holds all of 0 to n (`LoopInduction`, `NatSetInduction`). That a loop's recursive
function exists at all, and which one it is, is proved the same way (`LoopExists`,
`RunsExists`).

**LuaPluginProofs.** `RequestKept` and `HandlersFresh` are inductive together with
`TypeOK` and three facts: the copy of the word that `reload()` holds (`SigInv`),
which threads have started (`StartInv`), and that no version asked for is newer
than the one on disk (`WantInv`). `HandlersFresh` quantifies over any relation
"requires" between modules: what the handlers are made of (`OfHandlers`) is the least
set that holds them and what each of its members other than `MapSvr` needs. What
loads under `pcall` is closed under needing, `MapSvr` apart (`LoadableClosed`), so it
holds all of that set when it holds the handlers (`HandlersLoad`), and `MapSvr` has
been loaded in the first half. Nothing is claimed of what only `MapSvr` needs.

**LuaBridgeProofs.** For all message types, messages, routes and scripts; the
invariants of the shapes and of the way to a message are defined in LuaBridgeInv,
the others next to the lemmas about them. First the two shapes: `IInv` names the
parts. The stack and the tables hold values of tables that exist (`HeapOK`), each
phase of the request has its conversion and no other (`PhaseOK`), the tables under
construction on the way to Lua lie two slots apart, or four around an array, each
above the key under which it will be stored (`WOK`, `ToLuaShape`), the messages are
of known types and refer to messages of the declared type (`Typed`), and the frames
on the way back (`ROK`, `FieldOK`): all but the first lie side by side above the
array of their field, the one that runs last is the one that takes the array with
it, and a frame that has started has its own last key on top. `Balanced` is then a
matter of the last frame. The messages that arrive have values in the ranges of
their fields (`RangeOf`); an enum's are not negative, as in every enum of
src/protocol that a field has: a negative one would not come back, since
`GetEnumValue` is kept in a uint32. What such a value becomes in Lua is read back as
the same value (`ScalarsComeBack`).

Then the contents, where the two conversions need an invariant each, for neither
says while it runs what its result will hold. `CInv` carries them through the whole
request.

- *To a message* (`Content`). `src` says which table each message stands for. A
  message whose frame has ended has in all its fields what its table says; that of a
  frame at the j-th pair has it in the fields named by the first j - 1 pairs and is
  unset in the others (`SoFar`, `FrameBase`), for a table has each key once
  (`UniqueKeys`, which the script keeps: `ScriptUnique`); the array that is gone
  through has been filled up to the index (`ScanNow`), and an array of messages whose
  first element is no table is known to break the conversion (`Broken`). Each of the
  eight kinds of rounds keeps that (`SkipPairContent` to `EndFrameContent`, and `LoseKeyFatal`), and
  when the process ends in a conversion, the table at hand holds what it does not
  survive (`Doomed`). `Closed` and `Known` say that nothing else was made, so that at
  the end the messages hold what the tables say all the way down (`EndHeld`), and a
  doomed table makes all those around it fatal (`DeadFatal`): `Faithful`.
- *To a table* (`Converting`). `std` gives each table its role: the message, or the
  default of a type, that it was made of, or the array of one of its fields. Tables
  that are finished are right (`AllRight`); of those below the top of the stack the
  frames say how far they are (`Copies`, `TopAt`, `BelowAt`). At the end all are
  (`Done`).
- *The round trip.* What the script has not touched is right, in either order of its
  pairs (`Proper`, `ProperReversed`), and the conversion back writes to no message
  that arrived (`ToProtoBelow`): so the two invariants can be put together (`Kept`,
  `Content`, `EndAlike`), and with the texts of the route, which are numbers again
  (`RouteBack`), they give `RoundTrip`.

The definitions of `Held`, `Fatal` and `Alike` go down a recursive function, one round
for each level; that they are what they should be is `LoopInduction` again (`HeldIs`,
`FatalLoops`, `AlikeIs`).

Model-checked only: everything about liveness (`ClosedConnLeaves`, `SafeStopDrains`,
`SafeStopPersists`, `TimedWaitEnds`, `BulletsEnd`, `FreedAgain`, `Served`, `Halts`),
since fairness and ENABLED are out of the prover's reach. What a step can do wrong
about three of them is proved: a safe stop overlooks nobody (`SafeStopKicksAll`),
no Wait is left behind by the tick that should end it (`NobodyOverdue`), and no
game runs on in an empty room (`NoGameWithoutPlayers`). What is left for TLC is
that the steps are taken.

## 7. What was found

- `session_stale`: the record that comes with an answer is older than what a logout
  in between has saved, and the next logout overwrites the newer one. It takes two
  overlapping logins of one user, one of which is played and left before the other
  is answered.
- `coro_lost`: an entry that a running coroutine adds ends up behind a hole of the
  ready queue, whose length LuaJIT then gives as 0: it is never resumed. Entries
  behind the limit of a tick have the same fate.

Each is a run that TLC ends with a counterexample to what a comment of the repository says. The first has a converse that is proved
(`SerialLoginLoadsLatest`): without overlapping logins no login loads an old record.
The passing runs hold nevertheless: `session_durable` excludes overlapping logins,
and `coro_core` asks that no answer leaves the queue unhandled, not that the queue
is read to its end.

Other things the models show or had to assume, without a run of their own:

- The loser of two overlapping logins is told OK and has no Player
  (`MsgHandlerFromOtherLogic.lua:72`); `OkMeansPlayer` holds without overlap
  (`OkIsLoggedIn`), and only then.
- A sleeper that leaves the map leaves its bed taken for ever
  (`Map3DLogic.lua:289`, where nothing resets `sleeper`). Entering again starts the
  cooldowns of shots and chat anew.
- The project's own `README.md:161` says that an error during a reload, a syntax or
  a runtime error, makes the process crash immediately. It does for what the
  handlers require (`HandlersFresh`). A broken module that only `MapSvr` requires
  (`CoroutineMgrLogic`, `FSRoomMgrLogic`) ends nothing: the process goes on with a
  mixture of its old and new functions. After a runtime error the *next* reload ends
  the process, even one that follows a repair of the file. `OtherReload` has all
  this; no property excludes it.
- A worker can lose a request to reload, when another thread writes an old copy of
  the shared word back: `RequestKept` has to except it (`stale`), and `Served` is
  about the two other machines.
- A repeated float would keep `protobuf2lua_nostack` in its loop for ever
  (`lua_plugin.cpp:1654`); an array of messages whose first element is no table ends
  the process; a `bytes` or `string` value is cut at its first NUL on its way back,
  and negative enum values do not survive, for they go to Lua as `uint32`.
- A coroutine that wakes itself (`CurrentSessionID`, `Wakeup`) and then waits has
  its own answer dropped by `Wait` (`CoroutineMgrLogic.lua:224`), while its entry
  stays in the ready queue and ends the Wait with nothing. Nothing in the repository
  does that; it is a nested call, which `coro_core` leaves out.
- A coroutine that ends with an error leaves its session behind for good
  (`CoroutineMgrLogic.lua:110`).
- `CheckGameEnd` says no when nobody is alive, though the comments ask for the end
  then (`FSRoomBattleLogic.lua:174`).

## 8. What is not modelled

- `dbsvrgo`'s mapper and connection pool, protocol buffers, test clients, scripts,
  logging, configuration: conversions and I/O without state of their own.
- The INSERT of a new account, and the SELECT handlers that only log or reply.
- `OnReload` of the map managers, which creates the maps that a new configuration
  adds: the configuration is constant in the models.
- Of the Lua plugin: the tunnels themselves, which the models take as queues that
  keep the order of each connection; the error handler, the logger and the clocks
  that Lua can call; and `lua_checkstack`, which the conversions never call and
  which only messages nested far deeper than any registered one would need.
- The lazy split of the trees, which never changes an object's deepest node; the
  other axes; walls, hits and view cones in floating point.
- Inputs, chat and cooldowns of the 3D map, and its copy of the accumulator
  (planned).
- The replay of frames to a client that reconnects: `HandleReconnect`
  (`FSRoomLogic.lua:308`) logs how many frames it missed and sends none, the message
  is commented out, and the repository calls it not implemented
  (`REVIEW_RESULT.md:142`, `177`). Nor does the model hold the three minutes of grace
  of a finished room, which the code never waits (`FSRoomMgrLogic.lua:113`).
- The battle of the rooms, unreachable as long as nobody has hit points.
- Item counts, levels and big integers: sequential arithmetic, of which the check of
  an item count at INT32_MAX (`PlayerCmptBagLogic.lua:49`) is the only subtle part;
  random numbers and geometry.
- The wrap of session ids after 2^31 spawned coroutines.
- A crash of the process: data since the login is lost, and the code promises
  nothing about it. `Stop` drops the Players unsaved in the same way.
