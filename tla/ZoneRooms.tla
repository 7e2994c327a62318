----------------------------- MODULE ZoneRooms -----------------------------
(***************************************************************************)
(* The ZONE connection threads of server/assaultfire_server_v143b.py and   *)
(* the three tables they keep in step: the shared room registry (module    *)
(* RoomRegistry, instantiated here and called through its own actions),    *)
(* the spawner's membership of each room, and the role_state every         *)
(* connection carries, which sync_role_states and the A11A hand-off write  *)
(* from other connections' threads.                                        *)
(*                                                                         *)
(* A handler is the sequence of its locked regions: one registry or one    *)
(* spawner call is one action, and another thread may run between two.     *)
(* The spawner is seen through its lock: the states an allocation goes     *)
(* through and who is registered, not its processes (module DSSpawner).    *)
(* Every room is a PVE Survival room; a room of another mode takes the     *)
(* same path up to set_started and stops there.  Replies and broadcasts    *)
(* are kept only where they change what the client does next (ui).         *)
(***************************************************************************)
EXTENDS Integers, FiniteSets

CONSTANTS
  Uin,           \* account numbers
  Conn,          \* connections <<uin, n>>; an account with two of them may
                 \* log in again before its old connection is cleaned up
  MaxRoom,       \* bound: rooms ever reserved
  Cap,           \* FighterCapacity of every room
  NumSlots,      \* config.max_instances of the spawner
  Requests,      \* what each connection's client asks, by command number
  MaxBusy,       \* bound: requests handled at a time
  MaxOpen,       \* bound: connections open at a time
  QuickStart     \* TRUE: clients press Match -> Start outside a room

ASSUME ZoneAssumption ==
  /\ Uin \subseteq Nat \ {0}
  /\ Conn \subseteq Uin \X Nat /\ IsFiniteSet(Conn)
  /\ MaxRoom \in Nat /\ NumSlots \in Nat /\ MaxBusy \in Nat \ {0}
  /\ MaxOpen \in Nat \ {0}
  /\ Cap \in 2 .. 255 /\ Cap % 2 = 0
  /\ QuickStart \in BOOLEAN

VARIABLES
  rooms, playerRoom,   \* the registry (see RoomRegistry)
  ds,            \* the spawner's allocation of each room
  ownerRoom,     \* _owner_to_room, 0 for no entry
  session,       \* _V150_ZONE_SESSIONS: the connection of each account
  role,          \* role_state of each connection
  ui,            \* external: where each client believes it is
  op             \* what each connection thread is doing

registryVars == <<rooms, playerRoom>>
spawnerVars == <<ds, ownerRoom>>
connVars == <<session, role, ui>>
vars == <<rooms, playerRoom, ds, ownerRoom, session, role, ui, op>>

RoomId == 1 .. MaxRoom
UinOf(c) == c[1]

R == INSTANCE RoomRegistry
       WITH FighterReq <- {Cap}, ObserverReq <- {0}, Camp <- {0, 1},
            SeatReq <- 0 .. Cap - 1

-----------------------------------------------------------------------------
(* state: NONE, RESERVED, STARTING, READY, FAILED, ROUND_ENDED, RELEASED.  *)
Unreserved == [state |-> "NONE", owner |-> 0, players |-> {}, match |-> {}]

Live(r) == r # 0 /\ ds[r].state \notin {"NONE", "RELEASED"}

(* room: v79_created_match_room; dsRoom: v143b_ds_room_id; pending:        *)
(* v138_leave_pending; handed: v132_pve_afdev_handoff_sent.                *)
NewRole == [room |-> 0, dsRoom |-> 0, seat |-> 0,
            pending |-> FALSE, handed |-> FALSE]

(* The room whose allocation a request of c is about (_v143b_room_id).     *)
RoomOf(c) == IF role[c].room # 0 THEN role[c].room ELSE role[c].dsRoom

(* room: the room of the registry snapshot at hand, snap its seats; at:    *)
(* the room of the spawner call at hand; then: where the thread goes on    *)
(* after it.                                                               *)
At(pc, r, snap, then) ==
  [pc |-> pc, room |-> r, snap |-> snap, at |-> 0, then |-> then]
Idle == At("idle", 0, R!EmptyDict, "idle")
Calling(pc, r, then) == [At(pc, 0, R!EmptyDict, then) EXCEPT !.at = r]

Resting == \A c \in Conn : op[c].pc \in {"off", "idle"}
Online(c) == op[c].pc # "off"
MayBegin == Cardinality({c \in Conn : op[c].pc \notin {"off", "idle"}}) < MaxBusy

(* The thread of c reads its next request; reading one makes c the session *)
(* of its account.                                                         *)
Request(c, cmd) ==
  /\ op[c].pc = "idle" /\ cmd \in Requests[c]
  /\ MayBegin
  /\ session' = [session EXCEPT ![UinOf(c)] = c[2]]

(* What a registry call returns: the seats of room r's members after it.   *)
SnapshotAfter(r) ==
  IF r \in DOMAIN rooms'
  THEN [u \in DOMAIN rooms'[r].members |-> rooms'[r].members[u].seat]
  ELSE R!EmptyDict

(* The requester's own seat in the snapshot at hand.                       *)
OwnSeat(c) == op[c].snap[UinOf(c)]

(* sync_role_states writes a snapshot into the role_state of every member  *)
(* that has a session, whoever's thread it runs in.  What it writes for a  *)
(* session whose connection is gone nobody reads.                          *)
Synced(c) ==
  [d \in Conn |->
     IF UinOf(d) \in DOMAIN op[c].snap /\ session[UinOf(d)] = d[2] /\ Online(d)
     THEN [role[d] EXCEPT !.room = op[c].room, !.dsRoom = op[c].room,
                          !.seat = op[c].snap[UinOf(d)]]
     ELSE role[d]]

-----------------------------------------------------------------------------
Init ==
  /\ R!Init
  /\ ds = [r \in RoomId |-> Unreserved]
  /\ ownerRoom = [u \in Uin |-> 0]
  /\ session = [u \in Uin |-> 0]
  /\ role = [c \in Conn |-> NewRole]
  /\ ui = [c \in Conn |-> "lobby"]
  /\ op = [c \in Conn |-> At("off", 0, R!EmptyDict, "idle")]

(* A client logs in on a fresh connection.                                 *)
Connect(c) ==
  /\ op[c].pc = "off" /\ Cardinality({d \in Conn : Online(d)}) < MaxOpen
  /\ op' = [op EXCEPT ![c] = Idle]
  /\ session' = [session EXCEPT ![UinOf(c)] = c[2]]
  /\ UNCHANGED <<registryVars, spawnerVars, role, ui>>

(* reserve_lobby: an owner with a live room gets that one back, otherwise  *)
(* the next room number, if a slot is free.                                *)
OwnsLive(u) == Live(ownerRoom[u])
FreeSlot == Cardinality({r \in RoomId : Live(r) /\ ds[r].state # "ROUND_ENDED"})
              < NumSlots

ReserveLobby(u, r) ==
  \/ OwnsLive(u) /\ r = ownerRoom[u] /\ UNCHANGED spawnerVars
  \/ /\ ~OwnsLive(u) /\ FreeSlot
     /\ ds[r].state = "NONE" /\ \A q \in 1 .. r - 1 : ds[q].state # "NONE"
     /\ ds' = [ds EXCEPT ![r] = [state |-> "RESERVED", owner |-> u,
                                 players |-> {u}, match |-> {}]]
     /\ ownerRoom' = [ownerRoom EXCEPT ![u] = r]

(* A10A: reserve, then create the room and write role_state, then sync.    *)
(* Without a slot the client gets the A10B failure and nothing changes.    *)
CreateReserve(c, r) ==
  /\ Request(c, "A10A") /\ ui[c] = "lobby"
  /\ ReserveLobby(UinOf(c), r)
  /\ role' = [role EXCEPT ![c].dsRoom = r]
  /\ op' = [op EXCEPT ![c] = Calling("create", r, "idle")]
  /\ UNCHANGED <<registryVars, ui>>

CreateRoom(c) ==
  /\ op[c].pc = "create"
  /\ R!CreateRoom(UinOf(c), op[c].at, Cap, 0, FALSE)
  /\ role' = [role EXCEPT ![c].room = op[c].at, ![c].dsRoom = op[c].at,
                          ![c].pending = FALSE, ![c].seat = 0]
  /\ ui' = [ui EXCEPT ![c] = "room"]
  /\ op' = [op EXCEPT ![c] = At("sync", op[c].at, SnapshotAfter(op[c].at), "idle")]
  /\ UNCHANGED <<spawnerVars, session>>

(* create_room raises, the handler ends, and the reservation stays.        *)
CreateRefused(c) ==
  /\ op[c].pc = "create"
  /\ UinOf(c) \in DOMAIN playerRoom \/ op[c].at \in DOMAIN rooms
  /\ op' = [op EXCEPT ![c] = Idle]
  /\ UNCHANGED <<registryVars, spawnerVars, connVars>>

(* A104: join the registry, register with the spawner, sync.  A refusal by *)
(* the registry is logged only, so it is no step.  A player the registry   *)
(* already has in this very room keeps the seat and goes on.               *)
JoinRegistry(c, r) ==
  /\ Request(c, "A104") /\ ui[c] = "lobby"
  /\ \/ R!JoinRoom(UinOf(c), r, TRUE, FALSE)
     \/ R!InRoom(UinOf(c)) /\ playerRoom[UinOf(c)] = r /\ UNCHANGED registryVars
  /\ op' = [op EXCEPT ![c] = At("register", r, SnapshotAfter(r), "idle")]
  /\ UNCHANGED <<spawnerVars, role, ui>>

(* Mutant: the player is never registered with the spawner.                *)
JoinRegisterForgotten(c) ==
  /\ op[c].pc = "register" /\ Live(op[c].room)
  /\ role' = [role EXCEPT ![c] = [@ EXCEPT !.room = op[c].room,
                 !.dsRoom = op[c].room, !.pending = FALSE,
                 !.seat = OwnSeat(c)]]
  /\ ui' = [ui EXCEPT ![c] = "room"]
  /\ op' = [op EXCEPT ![c].pc = "sync"]
  /\ UNCHANGED <<registryVars, spawnerVars, session>>

JoinRegister(c) ==
  /\ op[c].pc = "register" /\ Live(op[c].room)
  /\ ds' = [ds EXCEPT ![op[c].room].players = @ \cup {UinOf(c)}]
  /\ role' = [role EXCEPT ![c] = [@ EXCEPT !.room = op[c].room,
                 !.dsRoom = op[c].room, !.pending = FALSE,
                 !.seat = OwnSeat(c)]]
  /\ ui' = [ui EXCEPT ![c] = "room"]
  /\ op' = [op EXCEPT ![c].pc = "sync"]
  /\ UNCHANGED <<registryVars, ownerRoom, session>>

(* register_room_player raises and the registry join is not undone.        *)
JoinHalf(c) ==
  /\ op[c].pc = "register" /\ ~Live(op[c].room)
  /\ op' = [op EXCEPT ![c] = Idle]
  /\ UNCHANGED <<registryVars, spawnerVars, connVars>>

(* The end of a create, join, ready, move or settings request: sync, and   *)
(* then the requester's own seat (move), or its room and the hand-off of   *)
(* the previous round (settings).                                          *)
Sync(c) ==
  /\ op[c].pc = "sync"
  /\ role' = CASE op[c].then = "moved" ->
                   [Synced(c) EXCEPT ![c].seat = OwnSeat(c)]
              [] op[c].then = "settled" ->
                   [Synced(c) EXCEPT ![c].handed = FALSE, ![c].room = op[c].room]
              [] OTHER -> Synced(c)
  /\ op' = [op EXCEPT ![c] = Idle]
  /\ UNCHANGED <<registryVars, spawnerVars, session, ui>>

-----------------------------------------------------------------------------
(* Mutant: only the player index is updated.                               *)
LeaveIndexOnly(u) ==
  IF u \in DOMAIN playerRoom
  THEN playerRoom' = R!Without(playerRoom, u) /\ UNCHANGED rooms
  ELSE UNCHANGED registryVars

(* A107 and the clean-up of a closed connection both take the player out   *)
(* of the registry first; the registry call of a player without a room     *)
(* returns nothing and the spawner call follows all the same.              *)
LeaveRegistry(u) ==
  IF u \in DOMAIN playerRoom THEN R!LeaveRoom(u) ELSE UNCHANGED registryVars

RoomLeft(u) == IF R!InRoom(u) THEN playerRoom[u] ELSE 0

Leave(c) ==
  /\ Request(c, "A107") /\ ui[c] = "room"
  /\ LeaveRegistry(UinOf(c))
  /\ op' = [op EXCEPT ![c] = [At("leave", RoomLeft(UinOf(c)),
                               SnapshotAfter(RoomLeft(UinOf(c))), "left")
                           EXCEPT !.at = role[c].room]]
  /\ UNCHANGED <<spawnerVars, role, ui>>

(* Mutant: a closed connection is only taken out of the registry when its  *)
(* role_state has a room.                                                  *)
DisconnectByCache(c) ==
  /\ op[c].pc = "idle"
  /\ MayBegin
  /\ IF role[c].room # 0 THEN LeaveRegistry(UinOf(c)) ELSE UNCHANGED registryVars
  /\ op' = [op EXCEPT ![c] = At("bye", RoomLeft(UinOf(c)),
                               SnapshotAfter(RoomLeft(UinOf(c))), "close")]
  /\ UNCHANGED <<spawnerVars, connVars>>

(* The connection closes: registry, sync, and then the spawner, if         *)
(* role_state has a room.  Closing makes nobody a session.                 *)
Disconnect(c) ==
  /\ op[c].pc = "idle"
  /\ MayBegin
  /\ LeaveRegistry(UinOf(c))
  /\ op' = [op EXCEPT ![c] = At("bye", RoomLeft(UinOf(c)),
                               SnapshotAfter(RoomLeft(UinOf(c))), "close")]
  /\ UNCHANGED <<spawnerVars, connVars>>

DisconnectSync(c) ==
  /\ op[c].pc = "bye"
  /\ role' = Synced(c)
  /\ op' = [op EXCEPT ![c].pc = IF role'[c].room # 0 THEN "leave" ELSE "close",
                      ![c].at = role'[c].room]
  /\ UNCHANGED <<registryVars, spawnerVars, session, ui>>

(* The thread ends, and its role_state with it.                            *)
Close(c) ==
  /\ op[c].pc = "close"
  /\ role' = [role EXCEPT ![c] = NewRole]
  /\ ui' = [ui EXCEPT ![c] = "lobby"]
  /\ op' = [op EXCEPT ![c] = [Idle EXCEPT !.pc = "off"]]
  /\ UNCHANGED <<registryVars, spawnerVars, session>>

Heir(S) == CHOOSE u \in S : \A v \in S : u <= v

(* Mutant: the players are counted before the leaver is taken out.         *)
AfterRemovalCountedFirst(c, r) ==
  IF ds[r].players = {} THEN "release"
  ELSE IF ds[r].match \subseteq {UinOf(c)}
          /\ ds[r].state \notin {"RESERVED", "ROUND_ENDED"}
       THEN "end" ELSE op[c].then

(* What is left to do when a player has been taken out of room r.          *)
AfterRemoval(c, r) ==
  IF ds[r].players \subseteq {UinOf(c)} THEN "release"
  ELSE IF ds[r].match \subseteq {UinOf(c)}
          /\ ds[r].state \notin {"RESERVED", "ROUND_ENDED"}
       THEN "end" ELSE op[c].then

(* The first lock region of remove_room_player.  The last room player's    *)
(* release and the last match player's end of round are regions of their   *)
(* own, run after the lock has been given back.                            *)
RemoveRoomPlayer(c) ==
  LET u == UinOf(c)
      r == IF op[c].at # 0 THEN op[c].at ELSE role[c].dsRoom
      rest == ds[r].players \ {u}
      fight == ds[r].match \ {u}
      passOn == ds[r].owner = u /\ rest # {}
  IN  /\ op[c].pc = "leave"
      /\ IF Live(r)
         THEN /\ ds' = [ds EXCEPT ![r] =
                          [@ EXCEPT !.players = rest, !.match = fight,
                                    !.owner = IF passOn THEN Heir(rest) ELSE ds[r].owner]]
              /\ ownerRoom' = IF passOn
                              THEN [ownerRoom EXCEPT ![u] = 0, ![Heir(rest)] = r]
                              ELSE ownerRoom
              /\ op' = [op EXCEPT ![c].pc = AfterRemoval(c, r), ![c].at = r]
         ELSE /\ UNCHANGED spawnerVars
              /\ op' = [op EXCEPT ![c].pc = op[c].then]
      /\ UNCHANGED <<registryVars, connVars>>

ReleaseLobby(c) ==
  /\ op[c].pc = "release"
  /\ IF Live(op[c].at)
     THEN /\ ds' = [ds EXCEPT ![op[c].at] =
                      [Unreserved EXCEPT !.state = "RELEASED"]]
          /\ ownerRoom' = [ownerRoom EXCEPT ![ds[op[c].at].owner] = 0]
     ELSE UNCHANGED spawnerVars
  /\ op' = [op EXCEPT ![c].pc = op[c].then]
  /\ UNCHANGED <<registryVars, connVars>>

EndRound(c) ==
  /\ op[c].pc = "end"
  /\ ds' = IF Live(op[c].at) /\ ds[op[c].at].state # "ROUND_ENDED"
           THEN [ds EXCEPT ![op[c].at] =
                   [@ EXCEPT !.state = "ROUND_ENDED", !.match = {}]]
           ELSE ds
  /\ op' = [op EXCEPT ![c].pc = op[c].then]
  /\ UNCHANGED <<registryVars, ownerRoom, connVars>>

(* The rest of A107: sync the others, forget the hand-off, A108 and A109.  *)
LeaveDone(c) ==
  /\ op[c].pc = "left"
  /\ role' = [Synced(c) EXCEPT ![c].handed = FALSE, ![c].pending = TRUE]
  /\ ui' = [ui EXCEPT ![c] = "lobby"]
  /\ op' = [op EXCEPT ![c] = Idle]
  /\ UNCHANGED <<registryVars, spawnerVars, session>>

(* A100: the first room list after a leave is what clears role_state.      *)
RoomList(c) ==
  /\ Request(c, "A100") /\ ui[c] = "lobby" /\ role[c].pending
  /\ role' = [role EXCEPT ![c] = NewRole]
  /\ UNCHANGED <<registryVars, spawnerVars, ui, op>>

-----------------------------------------------------------------------------
(* A110 and A10D.  The camp change computes the seat from the cached one.  *)
SetReady(c, ready) ==
  /\ Request(c, "A110") /\ ui[c] = "room"
  /\ R!SetReady(UinOf(c), ready)
  /\ op' = [op EXCEPT ![c] = At("sync", playerRoom[UinOf(c)],
                               SnapshotAfter(playerRoom[UinOf(c)]), "idle")]
  /\ UNCHANGED <<spawnerVars, role, ui>>

PerCamp == Cap \div 2
SeatIn(camp, seat) == (IF camp = 0 THEN PerCamp ELSE 0) + (seat % PerCamp)

ChangeCamp(c, camp) ==
  /\ Request(c, "A10D") /\ ui[c] = "room" /\ role[c].room # 0
  /\ SeatIn(camp, role[c].seat) # role[c].seat
  /\ R!MoveMember(UinOf(c), SeatIn(camp, role[c].seat), camp)
  /\ op' = [op EXCEPT ![c] = At("sync", playerRoom[UinOf(c)],
                               SnapshotAfter(playerRoom[UinOf(c)]), "moved")]
  /\ UNCHANGED <<spawnerVars, role, ui>>

(* A11E: prepare_lobby_settings_update refuses while others are in the     *)
(* match or the server is coming up, and ends a finished or failed round;  *)
(* then update_lobby_settings, then the registry.                          *)
Settings(c, r) ==
  /\ Request(c, "A11E") /\ ui[c] = "room"
  /\ r = IF role[c].room # 0 THEN role[c].room ELSE RoomLeft(UinOf(c))
  /\ Live(r) /\ ds[r].state # "STARTING"
  /\ ds[r].state = "READY" => ds[r].match \subseteq {UinOf(c)}
  /\ op' = [op EXCEPT ![c] = Calling(IF ds[r].state \in {"READY", "FAILED"}
                                    THEN "end" ELSE "settings",
                                    r, "settings")]
  /\ UNCHANGED <<registryVars, spawnerVars, role, ui>>

UpdateSettings(c) ==
  /\ op[c].pc = "settings"
  /\ op' = [op EXCEPT ![c] = IF ds[op[c].at].state \in {"RESERVED", "ROUND_ENDED"}
                            THEN [@ EXCEPT !.pc = "update"] ELSE Idle]
  /\ UNCHANGED <<registryVars, spawnerVars, connVars>>

(* set_started(False) and update_settings; both refuse an unknown room.    *)
UpdateRegistry(c) ==
  /\ op[c].pc = "update"
  /\ IF op[c].at \in DOMAIN rooms
     THEN /\ R!SetStarted(op[c].at, FALSE)
          /\ op' = [op EXCEPT ![c] = At("sync", op[c].at,
                                       SnapshotAfter(op[c].at), "settled")]
     ELSE /\ UNCHANGED registryVars
          /\ op' = [op EXCEPT ![c] = Idle]
  /\ UNCHANGED <<spawnerVars, connVars>>

-----------------------------------------------------------------------------
(* A113: the room is hidden first, then the hand-off starts.               *)
StartMatch(c) ==
  /\ Request(c, "A113") /\ ui[c] = "room"
  /\ IF role[c].room # 0 THEN R!SetStarted(role[c].room, TRUE)
                         ELSE UNCHANGED registryVars
  /\ op' = [op EXCEPT ![c] = Calling("handoff", 0, "idle")]
  /\ UNCHANGED <<spawnerVars, role, ui>>

(* A3A0: the hand-off alone.                                               *)
StartRoomAlloc(c) ==
  /\ Request(c, "A3A0")
  /\ ui[c] = "lobby" => QuickStart
  /\ op' = [op EXCEPT ![c] = Calling("handoff", 0, "idle")]
  /\ UNCHANGED <<registryVars, spawnerVars, role, ui>>

(* A player who has been sent an endpoint is not sent another; a player    *)
(* without any room gets one reserved, and the endpoint of none if that    *)
(* fails.                                                                  *)
Handoff(c) ==
  /\ op[c].pc = "handoff"
  /\ \/ /\ role[c].handed
        /\ op' = [op EXCEPT ![c] = Idle]
        /\ UNCHANGED <<spawnerVars, role>>
     \/ /\ ~role[c].handed /\ RoomOf(c) # 0
        /\ op' = [op EXCEPT ![c] = Calling("begin", RoomOf(c), "idle")]
        /\ UNCHANGED <<spawnerVars, role>>
     \/ \E r \in RoomId :
           /\ ~role[c].handed /\ RoomOf(c) = 0
           /\ ReserveLobby(UinOf(c), r)
           /\ role' = [role EXCEPT ![c].dsRoom = r]
           /\ op' = [op EXCEPT ![c] = Calling("begin", r, "idle")]
     \/ /\ ~role[c].handed /\ RoomOf(c) = 0
        /\ ~OwnsLive(UinOf(c))
        /\ op' = [op EXCEPT ![c] = Idle]
        /\ UNCHANGED <<spawnerVars, role>>
  /\ UNCHANGED <<registryVars, session, ui>>

(* begin_match; a released room ends the hand-off.                         *)
BeginMatch(c) ==
  LET r == op[c].at
      u == UinOf(c)
      all == ds[r].players \cup {u}
      newRound == ds[r].state \in {"RESERVED", "ROUND_ENDED"} \/ ds[r].match = {}
  IN  /\ op[c].pc = "begin"
      /\ IF Live(r)
         THEN /\ ds' = [ds EXCEPT ![r] =
                          [@ EXCEPT !.players = all,
                                    !.match = IF newRound THEN all ELSE ds[r].match \cup {u}]]
              /\ op' = [op EXCEPT ![c].pc = "arm"]
         ELSE UNCHANGED ds /\ op' = [op EXCEPT ![c] = Idle]
      /\ UNCHANGED <<registryVars, ownerRoom, connVars>>

(* arm_lobby: a running bridge is kept, a reserved or ended round gets a   *)
(* bridge, which may not come up.  AFDEV_READY counts as READY here, and   *)
(* whatever refuses leaves the hand-off undone and started set.            *)
ArmLobby(c) ==
  LET r == op[c].at
  IN  /\ op[c].pc = "arm"
      /\ \/ /\ ds[r].state \in {"STARTING", "READY"}
            /\ op' = [op EXCEPT ![c].pc = "send"]
            /\ UNCHANGED ds
         \/ /\ \/ ds[r].state = "RESERVED"
               \/ ds[r].state = "ROUND_ENDED" /\ FreeSlot
            /\ \/ /\ ds' = [ds EXCEPT ![r].state = "STARTING"]
                  /\ op' = [op EXCEPT ![c].pc = "send"]
               \/ /\ ds' = [ds EXCEPT ![r].state = "FAILED"]
                  /\ op' = [op EXCEPT ![c] = Idle]
         \/ /\ Live(r) => ds[r].state \in {"FAILED", "ROUND_ENDED"}
            /\ op' = [op EXCEPT ![c] = Idle]
            /\ UNCHANGED ds
      /\ UNCHANGED <<registryVars, ownerRoom, connVars>>

(* A11A goes to every member of the room that has a session, or to the     *)
(* requester if nobody has; all of them are marked, the requester always.  *)
SendHandoff(c) ==
  LET r == RoomOf(c)
      members == IF r \in DOMAIN rooms THEN DOMAIN rooms[r].members ELSE {}
  IN  /\ op[c].pc = "send"
      /\ role' = [d \in Conn |->
                    IF \/ d = c
                       \/ UinOf(d) \in members /\ session[UinOf(d)] = d[2]
                             /\ Online(d)
                    THEN [role[d] EXCEPT !.handed = TRUE] ELSE role[d]]
      /\ op' = [op EXCEPT ![c] = Idle]
      /\ UNCHANGED <<registryVars, spawnerVars, session, ui>>

(* The monitor thread writes what the bridge reports into the allocation.  *)
Monitor(r) ==
  /\ \/ ds[r].state = "STARTING" /\ ds' = [ds EXCEPT ![r].state = "READY"]
     \/ ds[r].state \in {"STARTING", "READY"}
        /\ ds' = [ds EXCEPT ![r].state = "FAILED"]
  /\ UNCHANGED <<registryVars, ownerRoom, connVars, op>>

(* A11C, from a client that has been handed an endpoint.                   *)
SetInMatch(c) ==
  /\ Request(c, "A11C") /\ role[c].handed
  /\ Live(RoomOf(c))
  /\ ds' = [ds EXCEPT ![RoomOf(c)].players = @ \cup {UinOf(c)},
                      ![RoomOf(c)].match = @ \cup {UinOf(c)}]
  /\ UNCHANGED <<registryVars, ownerRoom, role, ui, op>>

(* A117: leave the match, end the round if it was the last player, show    *)
(* the room again, forget the hand-off.                                    *)
QuitMatch(c) ==
  LET r == RoomOf(c)
      fight == ds[r].match \ {UinOf(c)}
      ends == fight = {} /\ ds[r].state \notin {"RESERVED", "ROUND_ENDED"}
  IN  /\ Request(c, "A117") /\ role[c].handed /\ r # 0
      /\ IF Live(r)
         THEN /\ ds' = [ds EXCEPT ![r].match = fight]
              /\ op' = [op EXCEPT ![c] = IF ends THEN Calling("end", r, "show")
                                               ELSE Calling("quit", r, "idle")]
         ELSE UNCHANGED ds /\ op' = [op EXCEPT ![c] = Calling("quit", r, "idle")]
      /\ UNCHANGED <<registryVars, ownerRoom, role, ui>>

(* After the last player's quit the room is shown again; a room that the   *)
(* registry no longer has makes set_started raise and skips the rest.      *)
ShowRoom(c) ==
  /\ op[c].pc = "show"
  /\ IF role[c].room = 0
     THEN UNCHANGED registryVars /\ op' = [op EXCEPT ![c].pc = "quit"]
     ELSE IF op[c].at \in DOMAIN rooms
     THEN R!SetStarted(op[c].at, FALSE) /\ op' = [op EXCEPT ![c].pc = "quit"]
     ELSE UNCHANGED registryVars /\ op' = [op EXCEPT ![c] = Idle]
  /\ UNCHANGED <<spawnerVars, connVars>>

QuitDone(c) ==
  /\ op[c].pc = "quit"
  /\ role' = [role EXCEPT ![c].handed = FALSE]
  /\ op' = [op EXCEPT ![c] = Idle]
  /\ UNCHANGED <<registryVars, spawnerVars, session, ui>>

-----------------------------------------------------------------------------
Create(c) == (\E r \in RoomId : CreateReserve(c, r)) \/ CreateRoom(c)
               \/ CreateRefused(c)
Join(c) == (\E r \in RoomId : JoinRegistry(c, r)) \/ JoinRegister(c) \/ JoinHalf(c)
Depart(c) == Leave(c) \/ LeaveDone(c) \/ RoomList(c)
               \/ Disconnect(c) \/ DisconnectSync(c) \/ Close(c)
Lobby(c) == (\E b \in BOOLEAN : SetReady(c, b)) \/ (\E k \in {0, 1} : ChangeCamp(c, k))
              \/ (\E r \in RoomId : Settings(c, r)) \/ UpdateSettings(c)
              \/ UpdateRegistry(c) \/ Sync(c)
Match(c) == StartMatch(c) \/ StartRoomAlloc(c) \/ Handoff(c) \/ BeginMatch(c)
              \/ ArmLobby(c) \/ SendHandoff(c) \/ SetInMatch(c)
              \/ QuitMatch(c) \/ ShowRoom(c) \/ QuitDone(c)
Spawner(c) == RemoveRoomPlayer(c) \/ ReleaseLobby(c) \/ EndRound(c)

Next ==
  \/ \E c \in Conn : Connect(c) \/ Create(c) \/ Join(c) \/ Depart(c)
                       \/ Lobby(c) \/ Match(c) \/ Spawner(c)
  \/ \E r \in RoomId : Monitor(r)

Spec == Init /\ [][Next]_vars

-----------------------------------------------------------------------------
(* With requests handled one at a time, whatever the clients do in         *)
(* whatever order, the registry and the spawner always list the same       *)
(* players for every room, and no allocation outlives its last player: a   *)
(* leave, a disconnect, a failed start or a settings change never takes a  *)
(* player out of one table only.                                           *)
TablesAgree ==
  Resting =>
    \A r \in RoomId :
      (IF r \in DOMAIN rooms THEN DOMAIN rooms[r].members ELSE {})
        = (IF Live(r) THEN ds[r].players ELSE {})

(* Under every interleaving, with accounts that log in again before their  *)
(* old connection is gone: the registry only ever makes the moves its own  *)
(* methods make.                                                           *)
RegistryRefined == R!Spec

(* Whatever races, an account all of whose connections are gone is in no   *)
(* room of the registry: no seat stays taken by somebody who has left.     *)
NobodyLeftBehind ==
  \A u \in DOMAIN playerRoom :
    \E c \in Conn : UinOf(c) = u /\ Online(c)

(* Whatever races, an allocation without players is about to be released   *)
(* by the thread that took the last one out, and a player in the match is  *)
(* a player of the room.                                                   *)
EmptyIsReleased ==
  \A r \in RoomId : Live(r) =>
    /\ ds[r].match \subseteq ds[r].players
    /\ ds[r].players = {} =>
         \E c \in Conn : op[c].pc = "release" /\ op[c].at = r

=============================================================================
