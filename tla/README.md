# A verification project for the Assault Fire server emulator

The emulator lets a retired game client log in, open a lobby room and play a
match against a dedicated server (AFDEV) that is started on demand. This
directory holds TLA+ modules translated from its source, the TLC configurations
that check them on small instances, and proofs, checked by TLAPS, of theorems
that hold for every instance. `PROJECT.json` maps every definition to the lines
of code it models.

Contents: [the system](#1-the-system), [the modules](#2-the-modules), [the
runs](#3-the-runs), [where code and documents
disagree](#4-where-the-code-and-its-documents-disagree), [the proofs](#5-the-proofs),
[what is not modelled](#6-what-is-not-modelled), [the plan](#7-the-plan).

## 1. The system

Paths are relative to the repository (`src/` here). The current versions are
server v143b, bridge v9 and loader v48; earlier ones lie beside them.

```
 TGame clients --TCP--> ZONE threads --+--> RoomRegistry   (who sits where)
      |                 (v143b)        +--> DS spawner     (what runs behind a room)
      |                                          |  Popen / terminate / taskkill
      |                                          |  monitor thread: polls the state file
      +------UDP------> UDP bridge v9 <----------+
                             |  starts on the first client packet
                             +--> loader v48 --> AFDEV
                                  (pid file, ready file)
```

### Inventory

| Component | State | Operations | Interacts through |
|---|---|---|---|
| **Room registry** `server/assaultfire_room_registry.py` | `_rooms`, `_player_room` | create, join, leave, ready, move, start, update settings; lookups | one RLock; called by ZONE threads |
| **DS spawner** `server/assaultfire_ds_spawner.py` | `_allocations` (state, slot, players, match players, process handle, monitor thread), `_owner_to_room`, `_next_room_id` | reserve, register, begin match, arm, mark, quit, end round, remove, release, prepare and update settings, shut down all | one lock, *released* in the middle of most calls; monitor threads; child processes; state, pid and ready files |
| **UDP bridge v9** `tools/bridge/af_ds_udp_bridge_v9_multi_peer_latch.py` | published state, peers (socket, latched packet, copies sent, live), loader handle | bind, new peer, decode its first packet, start loader, poll readiness, send and retry the latched packet, relay, fail and clean up | UDP on both sides; state file to the spawner; pid and ready files from the loader |
| **AFDEV loader v48** `tools/server_spawner/AFDevLoader_v48_...py` | its place in `main()`, the world it works on, retries, guards; inside AFDEV the hooks, trace cells, movement bridge | launch, patch, open the map, write settings and key, report, name, watch | files; the memory and the game thread of a process that goes on running; the bridge's process handle |
| **ZONE room handlers** (in `server/assaultfire_server_v143b.py`) | per-connection `role_state`, `_V150_ZONE_SESSIONS` | A100 list, A10A create, A104 join, A107 leave, A10D, A110, A113 start, A11E settings, A11C in match, A117 quit match, A3A0, disconnect | registry, spawner, notifications to room members |
| **Mall and inventory** (same file) | module globals: wallet, items, slots, bag, next item number; a JSON file | buy, equip, take off, drop, choose a bag; load and save | concurrent connections; the file |
| **AUTH, DIR, VERSION** (same file) | per-connection dialogue, the server's RSA key | key exchange, login, ticket, server list | the client; the key files |
| **TPDU link** (same file) | per-connection key, anchors already used, locks, unread bytes, sessions | find the key, SYN, SYNACK, CHGSKEY, split the stream, dispatch, serialised sends | every TCP handler, and other players' threads that notify this one |
| **Account database** `server/account_db.py` | SQLite tables | create, verify | several processes; the emulator itself does not use it |
| **UE3 stub DS** (same file as ZONE) | `peer_state` of a UDP address | decode, acknowledge, Challenge, Welcome, keep alive | clients that are sent to it instead of AFDEV |
| **Client patches** `tools/patches/` | TCLS.dll and its backup; the launcher's create flags; the memory of each game | apply, restore; watch for games; arm, patch, resume | files and processes of the client's machine |
| **Setup and launcher** | key files; what is opened in which window | generate the key pair, start everything | server and client read the files |

### What is hard

- *Decide under the lock, act after it.* `quit_match_player` and
  `remove_room_player` decide under the lock that a round or a room is over, and
  call `end_round` or `release_lobby` after releasing it. `_stop_allocation`
  kills processes with no lock at all. `arm_lobby` waits for its bridge without
  the lock.
- *Two objects for one room.* A re-arm replaces the allocation object of a room
  whose round has ended, while monitors and teardowns still hold the old one.
- *Stale reads.* The monitor reads a state file without the lock and writes what
  it read under the lock.
- *Processes that die.* Bridge, loader and AFDEV may exit at any moment of their
  start; somebody has to notice and somebody has to clean up.
- *UDP.* First packets get lost, clients return from other ports, AFDEV starts
  minutes after the first packet; the stub acknowledges by packet number.
- *Three tables for one membership.* The registry, the spawner and each
  connection's `role_state` all know who is in a room, and are updated one after
  the other by connection threads that may fail in between; what a client shows
  is the sum of single changes it was sent.
- *Memory of a running process.* The loader calls functions of AFDEV by pointing
  its suspended game thread elsewhere, clears traces that hooks are writing, and
  takes the first world it sees for the final one. The datetime patchers write to
  games that another patcher is writing to.
- *Keys found by resemblance.* All of a client's AuthAP objects carry one ticket;
  which belongs to which connection is told by their order of appearance.
- *Globals without a lock.* Wallet, inventory and the next item number belong to
  the module, and are saved to a file after several of them have changed.
- *Tools that are interrupted.* A patcher, a key generator or the suspended-launch
  helper may end between any two of its writes.

### What makes each part correct

| Component | Correct when |
|---|---|
| Registry | its two dictionaries agree; nobody shares a seat or sits outside the range of their role; a room has exactly one owner, a member of it |
| Spawner | match players are room players; the owner index never points at a lost room; no process outlives the object through which it can be reached; a running bridge is watched; calls return; a released room goes down; a dead bridge is noticed |
| Bridge | AFDEV hears a client's handshake before its traffic; the state file shows one start-up in order; a bridge that ends leaves no loader, and no AFDEV that was on record when its `finally` began; no peer waits for ever with copies unsent |
| Loader | SESSION_READY means the match, patched, configured and keyed; the game thread is let go; a key or flag that AFDEV undoes is put right; the traces reported are the match's; a move is applied once and in order |
| ZONE | registry and spawner agree whenever no handler is running; nobody who is gone keeps a seat; no allocation stays without players; a client's picture of its room is right |
| Mall | a purchase is paid for exactly once and survives a crash whole or not at all; a number is not used twice; no bag is mounted but the current one |
| TPDU link | a handler finds its own key; frames stay whole and readable; requests are handled once and in order; a client that is ready gets its profile |
| AUTH | what one side seals the other opens, for every outcome of the draws |
| Stub | what is acknowledged was handled; relay and stub read a datagram alike; the game gets in unless an answer is lost |
| Patches | the original DLL is never lost; a resumed game is patched whole; a launcher stays armed unwatched only after an end of the helper that could not put it back |
| Accounts | a name, and a number, belongs to one account, which has its profile; the answer to a login was right at some time of the call |

## 2. The modules

| Module | Models | Note |
|---|---|---|
| `RoomRegistry` | the registry | one action per method |
| `DSSpawner` | the spawner, monitors, and processes as the spawner sees them | one action per lock region |
| `UdpBridge` | one bridge in lazy mode, with its loader, AFDEV and clients | one action per turn of the loop |
| `BridgeLifecycle` | what the bridge's state file promises | abstract; `UdpBridge` implements it |
| `ZoneRooms` | the ZONE threads, the registry (INSTANCE `RoomRegistry`), the spawner's membership, `role_state` | one action per locked region; implements `RoomRegistry` |
| `RoomViews` | the notifications to other members and each client's picture | extends `ZoneRooms` |
| `MallLedger` | what the mall's file promises | abstract; `MallInventory` implements it |
| `MallInventory` | purchases, operations on props, load, save, crash | one action per read or write of a global |
| `LoaderProtocol` | what bridge and loader agree on | abstract; `AfdevLoader` and `UdpBridge` implement it |
| `AfdevLoader` | one run of the loader with its AFDEV | one action per access to AFDEV |
| `ServerMove` | the movement bridge inside AFDEV | |
| `AfdevHooks` | the loader's hooks, traces and observer guard | extends `AfdevLoader` and `ServerMove`; implements `AfdevLoader` |
| `TGameLink` | the TPDU link of ROLE and ZONE connections | one action per send, receive or look into memory |
| `AuthLogin` | key generator, AUTH dialogue, VERSION and DIR | extended by `ClientStart` |
| `ClientStart` | DLL patcher, launcher, the two datetime patchers | one action per read or write of a file or process |
| `Accounts` | the account database under several processes | one action per statement |
| `DSStub` | the stub, its codec bit by bit, a game and the network | |
| `RelayPackets` | the bridge's own decoder of first datagrams | extends `DSStub` |
| `*Proofs` | - | the theorems of section 5; `UdpProofs` extends `UdpBridge` and `RelayPackets`, `ClientProofs` extends `ClientStart` and `Accounts`, `ZoneRoomsProofs` extends `RoomViews`, the others the module they are named after |
| `MC*` | - | the instances TLC checks: players, capacities, symmetry |

A definition named in the modules as a *mutant* is a plausible wrong version of
the one that follows it. No specification uses it; replacing the definition by
it breaks the property paired with it in `PROJECT.json`, which shows that the
property depends on that piece of code.

### RoomRegistry

`rooms` is `_rooms` and `playerRoom` is `_player_room`, both partial functions.
Every method holds the registry's RLock throughout, so every method is one
action; a method that raises `RoomRegistryError` raises before it writes, so the
raise is a false guard. `update_settings` only replaces the settings payload,
which is abstracted, and is left out. `LeaveRoom` follows the code in popping
`_player_room` first and tolerating a dangling entry. Names and time stamps are
left out; a password becomes "has one" and "the caller knows it".

### DSSpawner

| Variable | Code |
|---|---|
| `alloc[<<r, g>>]` | the `DSAllocation` object of room `r`'s round generation `g`: `state`, slot, `bridge_proc`, the processes behind it, state file, monitor thread |
| `room[r].cur` | which of these objects `_allocations[r]` refers to |
| `room[r].owner/players/match` | `owner_uin`, `room_players`, `match_players`, which a re-arm copies to the new object |
| `room[r].handed` | the ZONE flag `v132_pve_afdev_handoff_sent` of each player, which keeps a client that has been sent an endpoint from starting once more |
| `ownerRoom` | `_owner_to_room` |
| `op[p]` | which step of a call the connection thread of `p` is at |
| `bridges` | counts bridges started; exists only for the bound |

A region under `self._lock` is one action; whatever a method does after it is a
further action of the same thread:

- `QuitMatchPlayer` -> `EndRound` -> `StopReadsPids` -> `StopKills` -> `StopClears`
- `RemoveRoomPlayer` -> `ReleaseLobby` or `EndRound` -> the same three
- `BeginMatch` -> `ArmLobby` -> one of `ArmSeesListening`, `ArmSeesExit`,
  `ArmTimesOut` (-> teardown)
- `PrepareSettingsUpdate` -> (`EndRound` -> teardown ->) `UpdateLobbySettings`
- a monitor: `MonitorLooks` without the lock, `MonitorWrites` or
  `MonitorReportsExit` under it.

`BridgeBinds`, `BridgeSpawnsLoader`, `HeavyReady`, `FirstReply` and `BridgeFails` are
the bridge as `UdpBridge` has it, cut down to what the spawner can see. Loader and
AFDEV are one thing here ("heavy"): the spawner kills both by the pid files. A bridge
that fails may take them along or leave an AFDEV whose pid was not written in time
(see the next section). A port that is bound by a process nobody refers to any more
keeps its slot from being handed out, as the code's port probe does.

Abstractions, beyond those the module's header names:

- A second `arm_lobby` on one allocation starts a second monitor thread; the
  model keeps one monitor per allocation, since both do the same.
- A bridge overwritten before it has bound counts as a stray like one that is up.
  A stray bridge no longer writes the state file in the model; in the code both
  bridges write it.
- The pid files name the loader started last.
- Room membership in the spawner is what its own calls make it: whether the
  registry would have let the player in (`started`) is a matter for the
  composition.
- `shutdown_all`, the cooldown between two creations and the settings payload are
  left out.

### UdpBridge and BridgeLifecycle

The bridge is one process with one loop. One packet, one poll of the loader and
one retry are one action each, with everything they call: a first packet
registers the peer, publishes, and starts the loader if it is the first of all; a
poll that sees `SESSION_READY` sets `afdev_ready`, publishes and sends every
waiting packet. Times are left open: a time-out may happen whenever its condition
holds. `Publish` tolerates a write of the state file that does not come off, as
`atomic_write_json` does. Packets between bridge and AFDEV may be lost, answers
may be repeated and late. The loader's three steps (launch AFDEV, write the pid,
report) come from the loader's source; exits of loader and AFDEV, and clients that
return from another port, are the environment.

The `finally` block is two steps: `EndAfdev` reads the pid file and kills what it
names, `EndLoader` ends the loader. The loader runs on in between, so an AFDEV whose
pid it writes there, or never writes, stays; `OnRecord` is the AFDEV that `EndAfdev`
would find. Ctrl+C may come between any two actions of the loop (`Interrupted`) and
leads to `finally`; a second one, or an end from outside, skips the rest of it
(`Terminated`).

`BridgeLifecycle` has two variables, the stage reached and what the file shows.
It says that a start-up runs BOOTING, LISTENING, SPAWNING, AFDEV_READY, READY in
order, may fail from any stage after the first and stays failed, and that the
file may lag but never shows a stage that was not reached.

### ZoneRooms and RoomViews

| Variable | Code |
|---|---|
| `rooms`, `playerRoom` | the registry, changed only through `RoomRegistry`'s actions |
| `ds`, `ownerRoom` | the spawner's allocation of each room and `_owner_to_room`, as its lock shows them |
| `session` | `_V150_ZONE_SESSIONS` |
| `role` | `role_state` of each connection: room, spawner's room, seat, pending settings, the hand-off flag |
| `ui` | where a client believes it is, which limits what it asks next (external) |
| `op` | where the thread of a connection is in its handler: `pc`, the room it works on, what follows a teardown (`then`), the members it has still to sync or hand off to (`snap`) |
| `view`, `mail` | what a client shows, and what a thread has still to send to others |

A request is taken apart at its calls into registry and spawner, in the code's
order: create is `CreateReserve`, `CreateRoom` (or `CreateRefused`), `Sync`; join
is `JoinRegistry`, `JoinRegister` (or `JoinHalf`, the join that is not undone);
leave and disconnect go through `RemoveRoomPlayer` and `ReleaseLobby`; a start
through `BeginMatch`, `ArmLobby`, `SendHandoff`. Processes are left to
`DSSpawner`: `arm` either comes up or fails. `RoomViews` splits off what a thread
sends to the other members after it has left the tables.

### MallLedger and MallInventory

`MallInventory` keeps the list of props as the code does, in order and with their
owners and locations, since "which bag is mounted" is a walk over it. `op` says where
in a purchase or a drop a connection is: between reading the wallet and writing it,
before the save, before the answer. A save is a write of the .tmp file and a
replacement; a crash at any step is followed by the load with its repairs (missing
starter items come back, a debt is forgiven, one bag is mounted). A takeoff takes any
prop off, bags too, and a drop removes a bought bag although it is mounted. `told` and
`retired` remember what clients were answered. `MallLedger` knows only which goods
there are and the wallet.

### LoaderProtocol, AfdevLoader, ServerMove and AfdevHooks

`AfdevLoader` follows `main()` with `pc`, from launch through patches, engine,
OPEN, travel, world, authority, settings, key and report to the watch. A remote
call is `hold`: free, game thread held, or waited for; a trampoline that was given
up is still in `calls`, and AFDEV runs it later. AFDEV's game thread travels from
world to world on its own. `AfdevHooks` refines that thread into the hooked places
it passes and adds the loader's writes to the trace cells, the thread that keeps
the synthetic host an observer, and `ServerMove`, the bridge that applies a
client's moves. An attempt of a guard to put something right may fail: the key is
then "missed" and tried again on a later turn.

### TGameLink

Each connection has a handler (`srv`), a client side (`cli`), an AuthAP object in
the client's memory (`heap`) and two streams of half frames; a half is the least
that can be cut, joined or interleaved wrongly. `used` is the set of anchors
earlier connections took, `lock` the send lock, `peer` another player's thread
with its own copy of the session. Keys are numbers.

### AuthLogin, ClientStart and Accounts

The AUTH exchange is modelled with its arithmetic, over a small prime, and its
padding; a hash is what is hashed, a sealed text carries its key. `ClientStart`
adds the files of the client and the memories of launcher and games, one read or
write at a time, with a tool ending at any of them. The helper's `finally`
is a step of its own that restores (`FinallyRestores`), or only warns because the
bytes are unknown or the write fails (`FinallyWarns`), or never comes
(`HelperKilled`); `left` says how the helper ended that left a launcher armed.
`Accounts` has SQLite's rules
(one writer, readers see what is committed, an uncommitted writer that dies
leaves nothing) and the statements of `create_account` and `verify_account`
between them.

### DSStub and RelayPackets

The codec is modelled bit by bit with small widths, because what it can get wrong
are widths, stop bits and padding; everything else travels as whole packets. The
game is an Unreal client that repeats unacknowledged reliable bunches.

The loops of the decoders and of the control messages are recursive functions of
the position in the bits or bytes (`from`), one turn each, so that they can be
proved about; `TwoTo` is the mask the code shifts. `StubAssumption` says what the
widths must allow: ids for all the packets that the bounds let the game send, a
byte of four bits or more (the bytes of the messages are below 16, the longest has
seven), and a channel's sequence numbers for the four bunches a game sends on it.
`StubSpec` is the exchange as such, `StubFairSpec` the one that liveness needs.

## 3. The runs

| Run | Instance | Shows |
|---|---|---|
| `registry` | 3 players, 2 rooms (symmetric), fighter bytes {0, 1}, 1 observer, seats with an invalid one | `MembershipAgrees`, `SeatsSound`, `OwnerSound` |
| `spawner_shared` | 2 players, 2 rooms, 1 bridge, 1 slot | `MembershipNested` holds although quits, leaves and releases run their second half without the lock |
| `spawner_live` | 1 player, 1 room, 2 bridges, 2 slots, fair | `RunningIsWatched`; `CallsReturn`, `ReleasedGoesDown`, `DeathNoticed` |
| `bridge` | 2 clients on 2 ports each, 2 places, 2 copies, fair | `ExitLeavesNothing`, `LifecycleImplemented` (the refinement of `BridgeLifecycle`), `PeerSettles` |
| `zone_serial` | 2 clients, 2 rooms of 4 seats, 2 slots, one request at a time | `TablesAgree`, `ViewsAgree` |
| `zone` | 2 accounts, one of which logs in again before its old connection is gone, 1 room, 2 requests at a time | `NobodyLeftBehind`, `EmptyIsReleased`, `RegistryRefined` |
| `mall` | 1 connection, 3 commodities (a weapon dearer than one purchase may cost, a character with its part, a second backpack), 6 numbers, a wallet that two purchases put in debt, crashes; all requests | `MountedIsCurrent`, `BagStaysMounted`, `PurchaseKept`, `NumbersNotReused`, `LedgerRefined` |
| `loader` | one retry, one new socket, a client with two moves, fair | `ReadyMeans`, `MatchIsTraced`, `MovedOnce`, `ProtocolKept`; `ThreadLetGo`, `GuardsHold` |
| `link` | a ROLE and a ZONE connection, 2 places in memory, 2 looks, 1 notification, fair | `KeyIsOwn`, `ClientCanRead`, `HandledInOrder`; `Served` |
| `stub` | 8 ids, 3 channels, 8 sequence numbers, 32-bit bunches, one packet each lost, early, empty, doubled, fair | `CodecsAgree`, `AckedIsHandled`; `LoginCompletes` |
| `client` | a prime of two digits with two draws, 3 texts, 2 key pairs, 2 games; 2 callers (symmetric), 2 names (one in two spellings), 2 passwords | `SealOpens`, `OriginalKept`, `ResumedIsPatched`, `ArmedIsWatched`, `AccountsWhole`, `LoginsRight` |
| `round_ended_sticks` | 2 players, 1 room, 1 bridge | violated: the disagreement of section 4 |

**Bounds.** In the registry, three players are needed for an heir to be *chosen*,
two rooms for a join from elsewhere, and the fighter byte 0 for the default. In the
spawner, `MaxRoom` is the number of rooms ever reserved and `MaxBridge` the number
of bridges ever started, which also bounds rounds. Overlapping calls need a second
player; a re-arm, a stray and a stale monitor need a second bridge; competition
for a port needs fewer slots than rooms (`spawner_shared`), while a bridge that is
left behind can only be replaced if another slot is free (`spawner_live`). All at
once is beyond what TLC finishes in minutes: each run has the dimensions its
properties speak of, and the theorems of section 5 cover the safety properties for
every number of players, rooms, slots and bridges at once. In the bridge, four
addresses compete for two places, so a newcomer is refused; two copies give one
retry. At the bounds `arm_lobby` fails as on a `Popen` error.
In `zone_serial` two rooms of two teams are enough for a move, a hand-over, a full
side and a second reservation; in `zone` one account has two connections, of which
the second only goes from room to room, and one room is enough for the races over
it. In `mall` the three commodities are a thing dearer than one purchase may cost,
a character with its part, and a second backpack. In `loader` one retry of each
wait, in `link` one of each kind of connection, with the memory of the earlier one
still there. In `stub` the ids do not wrap within the bounds (`StubAssumption`);
the codec is checked on every packet that travels. In `client` some residues of
the prime have one digit, so that a leading zero is dropped, and texts end before,
at and after the end of a block.

**Side by side.** Launcher and account database share nothing; the `client` run
explores the behaviours of one while the other rests.

**Symmetry** is used over the room numbers of the registry and the callers of the
account database only: the registry and the spawner compare account numbers, the
spawner numbers its rooms in order, and the other runs check liveness properties
or distinguish their connections.

**Deadlock** is checked in the registry and bridge runs. The others do not check
it: once all rooms, numbers, bridges or connections the bounds allow are used up
and everything has ended, nothing happens any more.

**Fairness.** In the spawner, `Continue` of every thread and `Monitor` of every
allocation are weakly fair. A thread inside a call only runs straight-line code, waits
with a deadline, or takes a lock that is held for a few statements; monitors sleep 0.1
s between passes. Clients, the network and child processes owe nothing: no packet
needs to come, no bridge needs to bind, no AFDEV needs to start. In the bridge, the
loop turns at least every 50 ms (its `select` time-out) and polls and retries on every
turn, so binding, polling, each retry and the two steps of `finally` are weakly fair;
receiving a packet is not, since none may come. In the loader every wait has a
deadline and its guard threads poll, so its steps and theirs are weakly fair; AFDEV is
not. A guard's attempt may fail any number of times, but not for ever: it is tried
again on every turn. In the link the server's threads are, and the client reads what
has come. In the stub, the server's loop, delivery, and the game's repetition of what
is not acknowledged are; nothing keeps the one Challenge or Welcome from being lost,
and `LoginCompletes` says so.

## 4. Where the code and its documents disagree

S is the spawner, B the bridge, Z the server, L the loader. The run
`round_ended_sticks` shows one disagreement:

- **A finished round comes back** (`RoundEndedSticks`, S:615). The monitor's stop
  tests are "released" and "replaced", not "round ended". A pass that read the file
  just before `end_round` writes READY, or FAILED on seeing the bridge gone, over
  ROUND_ENDED; a FAILED room refuses its next start.

Four more are behaviours of the models for which there is no run of their own:

- *A round ends under a player who has just started.* `remove_room_player` (S:858)
  and `quit_match_player` (S:807) find the match empty, release the lock and call
  `end_round`, which does not look again; a start in between is handed the AFDEV that
  is then torn down. "Shared AFDEV survives while any match player remains", says the
  docstring (S:816).
- *A teardown misses what starts during it.* The pids are read first and the bridge
  is ended last (S:925); a bridge that gets its first packet in between starts a
  loader whose pid was not read. "Bridge + loader + AFDEV are terminated", says the
  life cycle (S:10).
- *No bag is mounted.* A drop removes a mounted bag that was bought (Z:4300), a
  takeoff takes any bag off (Z:4305-4328), and neither mounts another. The comment on
  the current bag (Z:3541-3544) says that exactly one is mounted, and the repair at
  start (Z:3637-3640) takes none for broken. What does hold: no bag is mounted but the
  current one (`MountedIsCurrent`), and the mounted one is lost only to a drop or
  takeoff that names it, until the next choice or start (`BagStaysMounted`).
- *Ctrl+C leaves the launcher armed.* The flag that `finally` looks at is set only
  when `write_code` has returned (`patch_tcls_suspended_launch.py:635`). The docstring
  (34-35) promises the restore on Ctrl+C. What does hold is `ArmedIsWatched`, which
  excepts this and the ends in which the helper is killed, or its restore is refused
  (683-687) or fails (688-689).

What else was met while modelling:

*Spawner and bridge.* In the same way a room is released under a player who has just
joined it (S:858). A second `arm_lobby` during the first one's wait returns the
endpoint before its port is bound (S:489, S:555). A start in AFDEV_READY starts a
second bridge (S:489). The port probe leaves a window in which a slot is given out
twice (S:225). The bridge's `finally` kills the AFDEV of the pid file (B:812-828)
before it ends the loader (B:831-836), which may start or record one in between; that
AFDEV stays, and `ExitLeavesNothing` does not speak of it. Peers of a bridge are never
removed; a client that returns from other UDP ports finds no place in the end (B:501).

*Rooms.* With two requests at a time the two tables part: a join that the spawner
refuses is not undone (Z:7460). Notifications of overlapping requests overtake each
other: A109 may name a seat that a joiner has taken meanwhile, and a joiner's
older A105 or A106 may come after later changes (`ViewsAgree` therefore is checked
for one request at a time). The "not ready" of A110 and the hand-over of a room
are never notified. A3A0 pressed outside a room reserves an allocation that no
disconnect releases (Z:8333). A room stays hidden after a failed arm (Z:7971).

*Mall.* The wallet may fall below zero, and a restart forgives the debt (Z:6914).
With two purchases at a time a payment or a good can be lost (Z:6910). A drop
that overlaps with the choice of a bag can bring back a mounted bag, since the
list it builds shares its props with the inventory.

*Loader.* It takes the frontend's world for the final one if it comes early
(L:1847); no SESSION_READY comes of that (`ReadyMeans`). The reset
of the traces may zero the cell for the original return address while a call is
inside it (L:5069). The observer guard writes back flags it read a moment earlier
(L:1196).

*Login and tools.* The server's default key path is the repository's root whereas
the generator writes below `server/`; only `launch.bat` sets the variable that
joins them. An interrupted restore can leave a DLL that
both apply and restore refuse; the original is in the backup. `launch.bat` always
opens the datetime window although the documents say not to use both. A game that
starts between the helper's snapshot and its arming is taken for its child.

*Stub and relay.* Challenge and Welcome are sent once. `acked_packets` is never
cleared while ids wrap. The relay accepts datagrams the stub would refuse (it does
not ask that records end at the stop bit), so such a datagram starts an AFDEV.

*Accounts.* `verify_account` writes to the database (its `init_db`), so a login
may fail as "locked"; a status is not read again after the hash. The documents on
registration describe a `src/web` that is not in the repository.

The properties that *do* hold are stated so as to be true of this code: for
example `RunningIsWatched` counts a teardown in progress, `ReleasedGoesDown` allows
for the monitor overwriting the state, and `TablesAgree` and `ViewsAgree` speak of
one request at a time.

## 5. The proofs

Constants are arbitrary under the assumptions named in each module.

Where a definition recurs (powers, padding, the loops of the codecs) the proofs need
induction. The library's induction theorems take an operator as a parameter, which
the provers cannot instantiate; `WFMin` does not: a set of naturals that is not empty
has a least element (`LeastNatural`), so a set with 0 in it, and with n + 1 for every
n, has all naturals (`SetInduction`). That a recursive function exists, which must be
shown before its equation may be used, comes from the same (`Recursion` and
`RankedRecursion`: every call is for an argument of a lower rank).

**Registry** (`RoomRegistryProofs`). Any set of account numbers, rooms,
capacities, camps and seat requests. The three safety invariants are not
inductive one by one: removing a member keeps the owner sound only if the two
dictionaries agree, and a new member's seat is in range only if the room is well
formed. The inductive invariant `IInv` is therefore `TypeOK`, `MembershipAgrees`,
`SeatsSound` and `OwnerSound` together. For the proof it is regrouped room by room
(`RoomwiseInv`), because every action changes one room: a lemma says that the room
an action leaves behind is sound, and the rest follows from what adding to and
removing from a dictionary does. That the least free seat is free and in range,
and that an heir exists, rests on `LeastNatural` (a non-empty set of naturals has a
least element); no finiteness of the set of players is assumed. Theorems:
`RegistryInvariant`, `TypeCorrect`, `MembershipAlwaysAgrees`, `SeatsAlwaysSound`,
`OwnerAlwaysSound`.

**Spawner** (`DSSpawnerProofs`). Account numbers are positive naturals; rooms,
slots and the bound on bridges are any naturals. All its safety properties are
proved. `RunningIsWatched` and `ReplacedIsStopped` are not inductive: a
re-arm could leave a running bridge behind. It does not, because whoever writes
ROUND_ENDED holds the old object until it has killed the bridge, and because no
other step starts a bridge behind a round that ended. So `IInv` adds
`EndedIsStopped` (a bridge that runs behind a round that has ended, replaced or not,
is being stopped), `Threads` (a thread inside a call works on a room that has been
reserved and ends only rounds that were armed) and `Rounds` (every armed round has
used up a bridge, so that the next one is a fresh instance). The steps have four
shapes - a request, a step inside a call, the start of a bridge, a step of a monitor
or a process - and each shape keeps `IInv`; what remains per action is that it has
its shape, and what it does to memberships and owners. Theorems:
`SpawnerInvariant`, `TypeCorrect`, `MembershipAlwaysNested`,
`OwnerIndexAlwaysSound`, `ReplacedAlwaysStopped`, `RunningAlwaysWatched`.

**Bridge** (`UdpProofs`). Any finite sets of clients and ports, any positive
number of places and copies. The inductive invariant has the types of the
variables; `Stages`, which ties the published stage to the loader, to `ready` and
to `pc`; `Latched`, which says that AFDEV hears of an address only once `ready` is
set, and has heard of every peer that is live; and `NoLoaderLeft`, that a bridge
which ended by itself has ended its loader. `Places`,
the bound on the number of known addresses, is preserved beside it (a step adds at
most one address, and only while there is room). `ExitAlwaysLeavesNothing`
adds to `NoLoaderLeft` what becomes of an AFDEV that was on record when `finally`
began: from then on, whatever the loader does, either it is still on record and
`EndAfdev` to come, or it is dead, or the bridge was killed; every step keeps that.
`HandshakeAlwaysFirst` is an
action property that follows from `Latched`. The refinement
`BridgeImplementsLifecycle` maps the initial state to the initial state and every
step to `Advance`, to `Republish` or to a stutter; it needs `Stages`, because only
that tells that a `Publish("SPAWNING")` comes from LISTENING and a
`Publish("READY")` from AFDEV_READY or READY. That every step of the bridge's loader
and AFDEV is a step of `LoaderProtocol` or none needs no invariant
(`LoaderAlwaysReckoned`). Theorems:
`BridgeInvariant`, `BridgeTypeCorrect`, `ExitAlwaysLeavesNothing`,
`HandshakeAlwaysFirst`, `BridgeImplementsLifecycle`, `LoaderAlwaysReckoned`.

**Stub and relay** (`UdpProofs`). Any widths that `StubAssumption` allows, any number
of ids and any bounds on what is lost, doubled and sent early; the original values
(8-bit bytes, 16384 ids, 4096 bits) are among them. The codecs first, piece by piece,
each wherever it lies in a string of bits: a number below its maximum is read back by
as many bits as it was written (`IntReadsBack`), a payload byte by byte
(`BytesBack`), and so an ack or a bunch, with the flags it has, is read as it was
written and not a bit further (`RecordBack`). The loop of the parser then finds the
records of a built packet one after the other, by induction from the last to the
first (`RecordsBack`); the last bit that is set is the stop bit, whatever padding
follows (`PacketBack`), and cutting to the length in the datagram undoes the padding
to whole blocks (`CipherBack`). For the relay it is enough that it reads any bits that
the server can read, and reads them alike (`SameRecords`, `RelayReadsAlike`), which
holds of any datagram with a length that the server accepts.

`StubInv` is about the exchange. Every datagram under way bears a packet that one of
the two sides makes (`Packet`), a client's id is one it has used, an ack is of what
`acked_packets` has, and a packet whose id the game still waits for bears the message
it waits for (`Asks`); then an id that is both waited for and acknowledged means that
the message has been handled (`AckInv`). `AckedIsHandled` alone is not inductive,
because it says nothing of what is on its way. That the message of a packet is among
those the server's loop finds in its payload (`MessageFound`) is read off that loop;
for the login the loop passes a Netspeed and two strings. Theorems: `StubInvariant`,
`AckedAlwaysHandled`, `CodecsAlwaysAgree`.

**ZONE** (`ZoneRoomsProofs`). Any accounts and connections, any capacities, any
number of rooms, slots, requests at a time. `ZoneInv` ties sessions, connections
and threads to the two tables: an account in a room has an open connection, or the
thread that is taking it out; an allocation without players has the thread that
releases it. `RegistryAlwaysRefined` shows step by step that the handlers change
the registry only by its own actions, each with its guard, so that everything
proved of `RoomRegistry` holds here (`SharedRegistrySound`).

`TablesAgree` is about two tables that different calls keep, so its invariant has to
say how far apart they are while a call is under way. `Serial` is the hypothesis the
property is meant under: one request at a time, one connection per account, no start
from outside a room; without any of them the tables part. `AgreeInv`
then says of every thread where it stands: outside every room, in the middle of a
leave, or in a room, and what `role_state` and the registry have of its account
there (`Placed`); which room a thread in the middle of a create, join or leave has
the tables differ over, and by whom (`Between`); and of the spawner that the owner
of an allocation plays in it until the last player's release (`Owned`), and that the
owner index points at nobody else's allocation (`Indexed`), without which a create
could be handed a room that others are in. That a room of the registry is never
empty (`RegOK`) comes from `RegistryInvariant`: a join that finds the room there
finds it live at the spawner. Each action keeps `AgreeInv`; a thread's step leaves
the others quiet where they are (`AgreeStep`), and most steps keep both tables
(`BalancedStep`).

`ViewsAgree` has the same hypothesis and rests on `AllInv` and on `ViewInv`, about
the messages. `Posted` says when a thread can have one under way, and only one thread
has at a time; `Current`, that the snapshot and the cached seat a message is made from
are what the registry has (so that A112, which takes its seat from `role_state` after
the sync, names the right one); and `Right`, the heart of it, that a client's picture
shows its room once it has read what it is still owed, whether that is addressed to
its room (`broadcast_room` has yet to ask who is in it) or to itself. A joiner has no
picture before its A105, and the A105 it waits for is already right (`Joining`). Per
message one lemma says what it makes of a right picture (`JoinShown`, `SameShown`,
`ReadyShown`, `MoveShown`, `LeaveShown`), and per request one that it posts that very
message to everybody who needs it (`Told`, `NewsStep`); the steps that tell nobody
change nobody's room (`Silent`).
Theorems: `ZoneInvariant`, `RegistryAlwaysRefined`, `NobodyEverLeftBehind`,
`EmptyAlwaysReleased`, `SharedRegistrySound`, `TablesAlwaysAgree`, `ViewsAlwaysAgree`.

**Mall** (`MallProofs`). Any commodities, prices, starter items and locations.
`MallInv` says of a list of props what the walks over it need, and that every list a
thread or the file holds is such a list too: numbers are unique and some bag is there.
`SerialInv` adds, for one request at a time, that memory and file are equal or one
transaction apart (`Settled`), which transaction a thread is in the middle of (`Held`,
`ThreadSerial`), and that no number is above the next one. The refinement of
`MallLedger` maps the goods and wallet of the file; a replacement of the file is one
`Buy` or `Drop`, a restart one step or a stutter. `MountedIsCurrent` is not inductive
either: the list that a drop is about to assign must hold no other bag mounted
(`CurrentInv`). `BagStaysMounted` needs of `SerialInv` what list a drop is about to
assign: what was mounted before the drop but for the prop it names. All but the first
of the theorems assume `MaxBusy = 1`: with more, purchases do get lost (section 4),
and a drop can bring back a mounted bag. Theorems: `MallInvariant`, `SerialInvariant`,
`MountedAlwaysCurrent`, `BagAlwaysStaysMounted`, `PurchaseAlwaysKept`,
`NumbersNeverReused`, `LedgerAlwaysRefined`.

**Loader** (`AfdevProofs`). Any number of retries and sockets. `LoaderInv` is
`TypeOK`; `Stages`, what has been done at each place of `main()`; `Knows`, what a
world pointer the loader keeps says about AFDEV's world; and `AwaitedLast`, that of
the trampolines still to be run only the last is waited for. The protocol of the
bridge is refined step by step. With the hooks in place every step is one of
`AfdevLoader` or none (`HookedLoaderKeepsProtocol`), so the same holds there;
`TraceInv` says what the traces hold before OPEN, during the match and in what the
loader has told; `MoveInv` relates the stamp of the last move applied to the moves
under way. Theorems: `LoaderInvariant`, `LoaderTypeCorrect`, `ReadyAlwaysMeans`,
`LoaderKeepsProtocol`, `HookedLoaderKeepsProtocol`, `MatchAlwaysTraced`,
`AlwaysMovedOnce`.

**Link** (`TGameLinkProofs`). Any number of connections, places, looks, requests
and notifications. `KeyInv` relates the anchors used to the objects of earlier
connections. `LinkInv` adds, per connection, `Framed`: the writers are within the
frame whose second half is due, and after CHGSKEY everything is under the new key;
and `Staged`: handled, queued, half-read and still under way make up what the
client has sent. Theorems: `KeyAlwaysOwn`, `LinkInvariant`, `ClientAlwaysReads`,
`AlwaysInOrder`.

**Client and accounts** (`ClientProofs`). Any number of games, callers, names and
passwords. `ClientInv` says where the original DLL is at each step of the patcher
(`FilesInv`), which trampolines a game's entry may point to (`PatchInv`) and who
watches an armed launcher: a helper that has yet to come to its `finally`, or none,
and then `left` names one of the ends that could not put it back. `AccountsInv` says
that committed tables are sound, that the draft of the one writer differs from them by
the rows it has inserted so far, and that what was promised is committed; `LoginOf`
relates an answer to the tables at some time of the call.

For `SealOpens` the two sides of the AUTH exchange must come to one number and the
plaintext must survive its padding, for any modulus, generator and numbers
drawn, and any text. `PowersSwap`, (g^a)^b = (g^b)^a modulo the prime, is an induction
over both exponents on top of `PowerOfProduct`; `PaddingComesOff` says that what is cut
off is what was added. `ExchangeInv` says of the message under way which number it
carries (`WireInv`), and of either side which number it is about to come to, or has
come to (`SidesInv`). Theorems: `OriginalAlwaysKept`, `ResumedAlwaysPatched`,
`ArmedAlwaysWatched`, `AccountsAlwaysWhole`, `LoginsAlwaysRight`, `SealAlwaysOpens`.

**Only model-checked.** Everything under fairness (`CallsReturn`,
`ReleasedGoesDown`, `DeathNoticed`, `PeerSettles`, `ThreadLetGo`, `GuardsHold`,
`Served`, `LoginCompletes`), since the prover does neither fairness nor `ENABLED`.
Every invariant, action property and refinement that a run checks is a theorem.
The violation `RoundEndedSticks` is no theorem, of course.

Some properties of earlier runs are proved for all constants and no longer run,
because a run shows less: the `TypeOK` of registry, spawner, bridge and loader,
`HandshakeFirst`, `LoaderReckoned`, `OwnerIndexSound` and `ReplacedIsStopped`.

## 6. What is not modelled

| Part | Why |
|---|---|
| Spawner's `shutdown_all`, warm pool, create cooldown, status | the server ends with it; the rest only delays or reports |
| Bridge without `--lazy-spawn`, actor dump, logs | the spawner always starts the lazy mode |
| Loader's scans and censuses, its options that switch parts off, bytes of patches | they print, or are data |
| Chat, friends, statistics, messages of ZONE that only answer; replay of Bag1 to the lobby (A303) | no state but the answer |
| Mall's catalogue, periods, hours and durability | data; a commodity is its goods and its price |
| TPDU mode 4, the DS-TCP capture | not used by the current client |
| Ciphers, hashes, byte layouts, message texts | data; a sealed text carries its key |
| `get_account_by_username`, `account_count` | they only read |
| `diagnose_tcls_apclient.py`, `unlock_all_weapons.py`, `setup_assaultfire_hosts.ps1` | one reads, the others edit one text file each |
| The registration site (`src/web`) | not in the repository |
| Superseded versions of server, bridge and loader | replaced by the current ones |

## 7. The plan

Done: the modules of section 2 in the order of its table, their runs, and the
theorems of section 5. Left:

1. Restart of the server with processes left over, against the port probe;
   `shutdown_all`.
