---------------------------- MODULE RoomRegistry ----------------------------
(***************************************************************************)
(* The shared room registry of server/assaultfire_room_registry.py: which  *)
(* rooms exist, who sits where in them, and who owns them.                 *)
(*                                                                         *)
(* Every method of RoomRegistry holds the one RLock from its first read to *)
(* its last write, so each method is one action.  A method that raises     *)
(* RoomRegistryError raises before it writes: the raise is the action's    *)
(* guard being false.  Names, timestamps and the match-settings payload    *)
(* are abstracted; a password is abstracted to whether the room has one    *)
(* and whether the caller knows it.                                        *)
(***************************************************************************)
EXTENDS Integers

CONSTANTS
  Uin,           \* account numbers (the code compares them: naturals)
  RoomId,        \* room numbers handed out by the DS spawner
  FighterReq,    \* FighterCapacity bytes a create request may carry
  ObserverReq,   \* ObserverCapacity bytes a create request may carry
  Camp,          \* camp bytes a client may ask for
  SeatReq        \* seats a camp change may compute, bad ones included

Byte == 0 .. 255

ASSUME RegistryAssumption ==
  /\ Uin \subseteq Nat
  /\ FighterReq \subseteq Byte
  /\ ObserverReq \subseteq Byte
  /\ SeatReq \subseteq Nat
  /\ 1 \in Camp

VARIABLES
  rooms,         \* _rooms: a partial function from room number to room
  playerRoom     \* _player_room: a partial function from player to room

vars == <<rooms, playerRoom>>

-----------------------------------------------------------------------------
Member == [seat : Nat, ready : BOOLEAN, owner : BOOLEAN,
           camp : Camp, observer : BOOLEAN]

(* f is a dictionary from S to T.                                          *)
IsDict(f, S, T) == DOMAIN f \subseteq S /\ f \in [DOMAIN f -> T]

IsRoom(room) ==
  /\ room \in [owner : Uin, fighters : Byte \ {0}, observers : Byte,
               locked : BOOLEAN, started : BOOLEAN, members : {room.members}]
  /\ IsDict(room.members, Uin, Member)

EmptyDict == [x \in {} |-> x]

(* f without x in its domain (dict.pop), and with it (dict assignment).    *)
Without(f, x) == [y \in DOMAIN f \ {x} |-> f[y]]
With(f, x, v) == [y \in DOMAIN f \cup {x} |-> IF y = x THEN v ELSE f[y]]

(* A capacity byte of 0 means the default of 4 fighters.                   *)
FighterCapacity(f) == IF f = 0 THEN 4 ELSE f

(* Fighters take the low seats, observers the seats above them.            *)
SeatRange(room, observer) ==
  IF observer THEN room.fighters .. room.fighters + room.observers - 1
              ELSE 0 .. room.fighters - 1

Seats(room) == {room.members[u].seat : u \in DOMAIN room.members}

FreeSeats(room, observer) == SeatRange(room, observer) \ Seats(room)

NextFreeSeat(room, observer) ==
  CHOOSE s \in FreeSeats(room, observer) :
     \A t \in FreeSeats(room, observer) : s <= t

NewMember(seat, owner, observer) ==
  [seat |-> seat, ready |-> FALSE, owner |-> owner, camp |-> 1,
   observer |-> observer]

(* The member lookup that set_ready, move_member and join_room start with. *)
InRoom(u) ==
  /\ u \in DOMAIN playerRoom
  /\ playerRoom[u] \in DOMAIN rooms
  /\ u \in DOMAIN rooms[playerRoom[u]].members

-----------------------------------------------------------------------------
Init ==
  /\ rooms = EmptyDict
  /\ playerRoom = EmptyDict

CreateRoom(u, r, f, o, locked) ==
  /\ r \notin DOMAIN rooms
  /\ u \notin DOMAIN playerRoom
  /\ rooms' = With(rooms, r,
                   [owner |-> u, fighters |-> FighterCapacity(f),
                    observers |-> o, locked |-> locked, started |-> FALSE,
                    members |-> With(EmptyDict, u, NewMember(0, TRUE, FALSE))])
  /\ playerRoom' = With(playerRoom, u, r)

(* Mutant: the player-already-in-room test is dropped.                     *)
JoinRoomFromAnother(u, r, knowsPassword, observer) ==
  /\ r \in DOMAIN rooms
  /\ ~rooms[r].started
  /\ rooms[r].locked => knowsPassword
  /\ u \notin DOMAIN rooms[r].members
  /\ FreeSeats(rooms[r], observer) # {}
  /\ LET seat == NextFreeSeat(rooms[r], observer)
     IN  rooms' = [rooms EXCEPT ![r].members =
                     With(@, u, NewMember(seat, FALSE, observer))]
  /\ playerRoom' = With(playerRoom, u, r)

(* Joining the room one is already in returns the existing membership and  *)
(* changes nothing, so only a real join is a step.                         *)
JoinRoom(u, r, knowsPassword, observer) ==
  /\ u \notin DOMAIN playerRoom
  /\ r \in DOMAIN rooms
  /\ ~rooms[r].started
  /\ rooms[r].locked => knowsPassword
  /\ FreeSeats(rooms[r], observer) # {}
  /\ LET seat == NextFreeSeat(rooms[r], observer)
     IN  rooms' = [rooms EXCEPT ![r].members =
                     With(@, u, NewMember(seat, FALSE, observer))]
  /\ playerRoom' = With(playerRoom, u, r)

(* The heir is the remaining member with the least (seat, uin).            *)
Heir(members) ==
  CHOOSE u \in DOMAIN members : \A v \in DOMAIN members :
     \/ members[u].seat < members[v].seat
     \/ members[u].seat = members[v].seat /\ u <= v

(* Mutant: the owner field moves on but the members' flags do not.         *)
RoomAfterLeaveKeepsFlags(room, u) ==
  LET rest == Without(room.members, u)
  IN  IF room.owner # u THEN [room EXCEPT !.members = rest]
      ELSE [room EXCEPT !.owner = Heir(rest), !.members = rest]

(* The room once u is gone: the owner bit is passed on if u held it.       *)
RoomAfterLeave(room, u) ==
  LET rest == Without(room.members, u)
      heir == Heir(rest)
  IN  IF room.owner # u
      THEN [room EXCEPT !.members = rest]
      ELSE [room EXCEPT !.owner = heir,
                        !.members = [v \in DOMAIN rest |->
                                       [rest[v] EXCEPT !.owner = (v = heir)]]]

(* _player_room is popped first; a dangling entry is dropped silently.     *)
LeaveRoom(u) ==
  /\ u \in DOMAIN playerRoom
  /\ playerRoom' = Without(playerRoom, u)
  /\ LET r == playerRoom[u]
     IN  rooms' = IF ~InRoom(u) THEN rooms
                  ELSE IF DOMAIN rooms[r].members = {u} THEN Without(rooms, r)
                  ELSE [rooms EXCEPT ![r] = RoomAfterLeave(@, u)]

SetReady(u, ready) ==
  /\ InRoom(u)
  /\ rooms' = [rooms EXCEPT ![playerRoom[u]].members[u] =
                  [@ EXCEPT !.ready = ready]]
  /\ UNCHANGED playerRoom

(* Mutant: the seat-occupied test is dropped.                              *)
MoveMemberUnchecked(u, seat, camp) ==
  /\ InRoom(u)
  /\ seat \in SeatRange(rooms[playerRoom[u]],
                        rooms[playerRoom[u]].members[u].observer)
  /\ rooms' = [rooms EXCEPT ![playerRoom[u]].members[u] =
                  [@ EXCEPT !.seat = seat, !.camp = camp]]
  /\ UNCHANGED playerRoom

MoveMember(u, seat, camp) ==
  /\ InRoom(u)
  /\ LET room == rooms[playerRoom[u]]
     IN  /\ seat \in SeatRange(room, room.members[u].observer)
         /\ \A v \in DOMAIN room.members \ {u} : room.members[v].seat # seat
  /\ rooms' = [rooms EXCEPT ![playerRoom[u]].members[u] =
                  [@ EXCEPT !.seat = seat, !.camp = camp]]
  /\ UNCHANGED playerRoom

SetStarted(r, started) ==
  /\ r \in DOMAIN rooms
  /\ rooms' = [rooms EXCEPT ![r].started = started]
  /\ UNCHANGED playerRoom

Next ==
  \E u \in Uin :
    \/ \E r \in RoomId, f \in FighterReq, o \in ObserverReq, l \in BOOLEAN :
          CreateRoom(u, r, f, o, l)
    \/ \E r \in RoomId, k \in BOOLEAN, b \in BOOLEAN : JoinRoom(u, r, k, b)
    \/ LeaveRoom(u)
    \/ \E ready \in BOOLEAN : SetReady(u, ready)
    \/ \E s \in SeatReq, c \in Camp : MoveMember(u, s, c)
    \/ \E r \in RoomId, b \in BOOLEAN : SetStarted(r, b)

Spec == Init /\ [][Next]_vars

-----------------------------------------------------------------------------
(* Each variable has its type; a room always has at least one fighter seat, *)
(* whatever capacity byte it was created from.                             *)
TypeOK ==
  /\ IsDict(playerRoom, Uin, RoomId)
  /\ IsDict(rooms, RoomId, {rooms[r] : r \in DOMAIN rooms})
  /\ \A r \in DOMAIN rooms : IsRoom(rooms[r])

(* The two dictionaries of the registry never disagree: a player is mapped *)
(* to a room exactly when that room lists the player, so nobody can sit in *)
(* two rooms and join_room's "room-membership-corrupt" is unreachable.     *)
MembershipAgrees ==
  \A u \in Uin, r \in RoomId :
     (u \in DOMAIN playerRoom /\ playerRoom[u] = r)
       <=> (r \in DOMAIN rooms /\ u \in DOMAIN rooms[r].members)

(* However players come, move and go, nobody shares a seat and nobody sits *)
(* outside the range of seats of their own role.                           *)
SeatsSound ==
  \A r \in DOMAIN rooms : \A u \in DOMAIN rooms[r].members :
     /\ rooms[r].members[u].seat
          \in SeatRange(rooms[r], rooms[r].members[u].observer)
     /\ \A v \in DOMAIN rooms[r].members \ {u} :
          rooms[r].members[u].seat # rooms[r].members[v].seat

(* Through every hand-over a room that exists has an owner among its       *)
(* members, and the ROOM_OWNER flag is on that member and on no other.     *)
OwnerSound ==
  \A r \in DOMAIN rooms :
     /\ rooms[r].owner \in DOMAIN rooms[r].members
     /\ \A u \in DOMAIN rooms[r].members :
          rooms[r].members[u].owner <=> (u = rooms[r].owner)

(* What a player's own view of their membership amounts to.                *)
Standing(u) ==
  IF InRoom(u)
  THEN LET m == rooms[playerRoom[u]].members[u]
       IN  <<playerRoom[u], m.seat, m.ready, m.camp, m.observer>>
  ELSE << >>

=============================================================================
