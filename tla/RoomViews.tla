----------------------------- MODULE RoomViews -----------------------------
(***************************************************************************)
(* What the clients of a room are told about it.  The server never sends   *)
(* a room's members twice: a client gets the whole room once, in the A105  *)
(* of its own create or join, and from then on changes only, each sent to  *)
(* one client at a time after the registry and the spawner have been left, *)
(* by the thread whose client caused it.  This module adds those messages  *)
(* to the threads of ZoneRooms, and each client's picture of its room.     *)
(*                                                                         *)
(* A thread's answer to its own client precedes what it sends to others    *)
(* and is part of its last step on the tables; the sends to the others are *)
(* steps of their own.  A connection delivers in order.                    *)
(***************************************************************************)
EXTENDS ZoneRooms

VARIABLES
  view,          \* external: who each client shows in which seat
  mail           \* what each thread still has to send to others

viewVars == <<rooms, playerRoom, ds, ownerRoom, session, role, ui, op, view, mail>>

NoSeats == R!EmptyDict

(* The members of a room as MatchRoomInfo and MatchRoomPlayerInfo list     *)
(* them: by seat, with their ready state.                                  *)
Seated(members) ==
  [s \in {members[u].seat : u \in DOMAIN members} |->
     LET u == CHOOSE v \in DOMAIN members : members[v].seat = s
     IN  [uin |-> u, ready |-> members[u].ready]]

(* A message about seat: the A105 and A106 of a join carry the seats as    *)
(* they were when the registry let the player in; A10F names the seat the  *)
(* player came from.  room # 0: for everybody in that room, still to be    *)
(* looked up; to: for these players.                                       *)
Nothing == [cmd |-> "none", seat |-> 0, from |-> 0, seats |-> NoSeats,
            room |-> 0, to |-> {}]
About(cmd, r, seat) == [Nothing EXCEPT !.cmd = cmd, !.room = r, !.seat = seat]

(* The client's picture v once it has read m.                              *)
Shown(v, m) ==
  CASE m.cmd = "A106" -> R!With(v, m.seat, m.seats[m.seat])
    [] m.cmd = "A109" -> R!Without(v, m.seat)
    [] m.cmd = "A10F" /\ m.from \in DOMAIN v ->
         R!With(R!Without(v, m.from), m.seat, v[m.from])
    [] m.cmd = "A112" /\ m.seat \in DOMAIN v -> [v EXCEPT ![m.seat].ready = TRUE]
    [] OTHER -> v

(* The thread has left the tables, or, when its connection is closing, is  *)
(* about to turn to the spawner.                                           *)
Sending(c) ==
  /\ mail[c].room # 0 \/ mail[c].to # {}
  /\ op[c].pc = "idle" \/ (op[c].then = "close" /\ op[c].pc # "bye")

Busy == {c \in Conn : op[c].pc \notin {"off", "idle"} \/ Sending(c)}

-----------------------------------------------------------------------------
(* broadcast_room asks the registry who is in the room now; a leaver is    *)
(* not told of the own leave again.                                        *)
Addressees(c) ==
  (IF mail[c].room \in DOMAIN rooms THEN DOMAIN rooms[mail[c].room].members ELSE {})
    \ (IF mail[c].cmd = "A109" THEN {UinOf(c)} ELSE {})

BroadcastRoom(c) ==
  /\ Sending(c) /\ mail[c].room # 0
  /\ mail' = [mail EXCEPT ![c] =
                IF Addressees(c) = {} THEN Nothing
                ELSE [@ EXCEPT !.room = 0, !.to = Addressees(c)]]
  /\ UNCHANGED <<vars, view>>

(* send_online looks the session up for every send; a player without one,  *)
(* or whose connection is gone, is skipped.                                *)
SendOnline(c, u) ==
  /\ Sending(c) /\ u \in mail[c].to
  /\ view' = [d \in Conn |->
                IF UinOf(d) = u /\ session[u] = d[2] /\ Online(d)
                THEN Shown(view[d], mail[c]) ELSE view[d]]
  /\ mail' = [mail EXCEPT ![c] = IF @.to = {u} THEN Nothing
                                 ELSE [@ EXCEPT !.to = mail[c].to \ {u}]]
  /\ UNCHANGED vars

-----------------------------------------------------------------------------
(* A10A: A10B, and the room with its creator in an A105.                   *)
CreateShown(c) ==
  /\ CreateRoom(c)
  /\ view' = [view EXCEPT ![c] = Seated(rooms'[op[c].at].members)]
  /\ UNCHANGED mail

(* A104: what the registry returns is what the joiner and, as an A106, the *)
(* members it found there are told, whatever has happened meanwhile.       *)
JoinNoted(c, r) ==
  /\ JoinRegistry(c, r)
  /\ LET members == rooms'[r].members
     IN  mail' = [mail EXCEPT ![c] =
                    [About("A106", 0, members[UinOf(c)].seat) EXCEPT
                       !.seats = Seated(members),
                       !.to = DOMAIN members \ {UinOf(c)}]]
  /\ UNCHANGED view

(* A110 has the others told of a player who is ready, not of one who no    *)
(* longer is.                                                              *)
ReadyNoted(c, ready) ==
  /\ SetReady(c, ready)
  /\ mail' = [mail EXCEPT ![c] =
                IF ready THEN About("A112", playerRoom[UinOf(c)], 0) ELSE Nothing]
  /\ UNCHANGED view

(* A10D: A10F carries the seats the registry moved the player from and to. *)
MoveNoted(c, camp) ==
  /\ ChangeCamp(c, camp)
  /\ LET r == playerRoom[UinOf(c)]
     IN  mail' = [mail EXCEPT ![c] =
                    [About("A10F", r, rooms'[r].members[UinOf(c)].seat)
                       EXCEPT !.from = rooms[r].members[UinOf(c)].seat]]
  /\ UNCHANGED view

(* After the sync a joiner is sent its A105, and A112 takes the seat from  *)
(* role_state.                                                             *)
SyncNoted(c) ==
  /\ Sync(c)
  /\ view' = IF mail[c].cmd = "A106" THEN [view EXCEPT ![c] = mail[c].seats] ELSE view
  /\ mail' = IF mail[c].cmd = "A112" THEN [mail EXCEPT ![c].seat = role'[c].seat]
             ELSE IF mail[c].cmd = "A106" /\ mail[c].to = {}
             THEN [mail EXCEPT ![c] = Nothing] ELSE mail

(* Mutant: the body of A107 is taken for the seat; it is the reason, 0.    *)
LeftSeatFromBody(c) == 0

(* A107: A109 names the seat role_state had before the leave.              *)
LeftSeat(c) == role[c].seat

LeaveNoted(c) ==
  /\ Leave(c)
  /\ mail' = [mail EXCEPT ![c] = About("A109", RoomLeft(UinOf(c)), LeftSeat(c))]
  /\ UNCHANGED view

(* A disconnect: the seat is the one the registry removed.                 *)
DisconnectNoted(c) ==
  /\ Disconnect(c)
  /\ mail' = [mail EXCEPT ![c] =
                IF R!InRoom(UinOf(c))
                THEN About("A109", RoomLeft(UinOf(c)),
                           rooms[RoomLeft(UinOf(c))].members[UinOf(c)].seat)
                ELSE Nothing]
  /\ UNCHANGED view

(* A108 takes the client back to the lobby; so does the end of the         *)
(* connection.                                                             *)
BackInLobby(c) ==
  /\ LeaveDone(c) \/ Close(c)
  /\ view' = [view EXCEPT ![c] = NoSeats]
  /\ UNCHANGED mail

(* A refused join or create tells nobody, and the other requests send      *)
(* nothing about the members.                                              *)
Untold(c) ==
  /\ \/ JoinHalf(c) \/ CreateRefused(c) \/ Connect(c) \/ RoomList(c)
     \/ JoinRegister(c) \/ DisconnectSync(c) \/ Spawner(c) \/ Match(c)
     \/ UpdateSettings(c) \/ UpdateRegistry(c)
     \/ \E r \in RoomId : CreateReserve(c, r) \/ Settings(c, r)
  /\ mail' = IF op[c].pc = "register" /\ op'[c].pc = "idle"
             THEN [mail EXCEPT ![c] = Nothing] ELSE mail
  /\ UNCHANGED view

Handles(c) ==
  \/ CreateShown(c) \/ LeaveNoted(c) \/ DisconnectNoted(c) \/ SyncNoted(c)
  \/ BackInLobby(c) \/ Untold(c)
  \/ \E r \in RoomId : JoinNoted(c, r)
  \/ \E b \in BOOLEAN : ReadyNoted(c, b)
  \/ \E k \in {0, 1} : MoveNoted(c, k)

ViewInit ==
  /\ Init
  /\ view = [c \in Conn |-> NoSeats]
  /\ mail = [c \in Conn |-> Nothing]

(* A thread that is still sending begins nothing else and counts as busy.  *)
ViewNext ==
  \/ \E c \in Conn :
       /\ ~Sending(c)
       /\ op[c].pc = "idle" => Cardinality(Busy) < MaxBusy
       /\ Handles(c)
  \/ \E c \in Conn : BroadcastRoom(c) \/ \E u \in Uin : SendOnline(c, u)
  \/ \E r \in RoomId : Monitor(r) /\ UNCHANGED <<view, mail>>

ViewSpec == ViewInit /\ [][ViewNext]_viewVars

-----------------------------------------------------------------------------
(* With requests handled one at a time, the changes alone keep every       *)
(* client's picture right: whatever the players do in whatever order, a    *)
(* client in a room shows exactly the players the registry lists, each in  *)
(* its seat, and everybody who is ready as ready.  (Somebody who is no     *)
(* longer ready goes on being shown as ready: A110 tells nobody.  Requests *)
(* that overlap can send their changes in another order than they made     *)
(* them.)                                                                  *)
ViewsAgree ==
  Busy = {} =>
    \A c \in Conn : Online(c) /\ ui[c] = "room" =>
      LET seats == Seated(rooms[playerRoom[UinOf(c)]].members)
      IN  /\ DOMAIN view[c] = DOMAIN seats
          /\ \A s \in DOMAIN seats :
               /\ view[c][s].uin = seats[s].uin
               /\ seats[s].ready => view[c][s].ready
=============================================================================
