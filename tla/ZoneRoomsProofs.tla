--------------------------- MODULE ZoneRoomsProofs ---------------------------
(***************************************************************************)
(* What holds of the connection threads under every interleaving, for any  *)
(* number of accounts, connections, rooms and slots: the registry only     *)
(* makes its own moves, nobody who is gone keeps a seat in it, and an      *)
(* allocation without players is about to be released.                     *)
(* When requests are handled one at a time, moreover, registry and spawner *)
(* list the same players of every room, and the changes the clients are    *)
(* sent keep every client's picture of its room right.                     *)
(*                                                                         *)
(* Each step is one thread's, and changes nothing of the others.  So the   *)
(* proof describes what a step may do to its own thread (ThreadTo), to the *)
(* registry (RegistryTo) and to the allocations (AllocationsTo), shows per *)
(* action that it does no more, and the invariants from these three.       *)
(***************************************************************************)
EXTENDS RoomViews, FiniteSetTheorems, TLAPS

(* Where a thread may go on after a call.                                  *)
Thens == {"idle", "left", "close", "settings", "show", "settled", "moved"}

ThreadOK(o) ==
  /\ DOMAIN o = {"pc", "room", "snap", "at", "then"}
  /\ o.then \in Thens
  /\ o.pc = "create" => o.at \in RoomId
  /\ o.pc \in {"bye", "close"} => o.then = "close"

ThreadsOK == DOMAIN op = Conn /\ \A c \in Conn : ThreadOK(op[c])

(* Every room of the registry is one the spawner can reserve, and has the  *)
(* capacities of all rooms here.                                           *)
RoomsOK ==
  \A r \in DOMAIN rooms :
    /\ r \in RoomId
    /\ DOMAIN rooms[r] = {"owner", "fighters", "observers", "locked", "started", "members"}
    /\ rooms[r].fighters = Cap /\ rooms[r].observers = 0

AllocationsOK ==
  /\ DOMAIN ds = RoomId
  /\ \A r \in RoomId : DOMAIN ds[r] = {"state", "owner", "players", "match"}

(* A connection that is there and is not being closed.                     *)
Stays(c) == op[c].pc # "off" /\ op[c].then # "close"

(* NobodyLeftBehind, with a connection that is not even being closed.      *)
HeldByOne == \A u \in DOMAIN playerRoom : \E c \in Conn : UinOf(c) = u /\ Stays(c)

ZoneInv == ThreadsOK /\ RoomsOK /\ AllocationsOK /\ HeldByOne /\ EmptyIsReleased

LEMMA ZoneFacts ==
  /\ \A c \in Conn : UinOf(c) \in Uin
  /\ Cap \in Nat /\ Cap >= 2 /\ Cap # 0
BY ZoneAssumption DEF UinOf

LEMMA InitOK == Init => ZoneInv
<1> SUFFICES ASSUME Init PROVE ZoneInv
  OBVIOUS
<1>1. ThreadsOK
  BY DEF Init, ThreadsOK, ThreadOK, At, Thens
<1>2. RoomsOK /\ HeldByOne
  BY DEF Init, R!Init, R!EmptyDict, RoomsOK, HeldByOne
<1>3. AllocationsOK /\ EmptyIsReleased
  BY DEF Init, AllocationsOK, Unreserved, EmptyIsReleased, Live
<1> QED BY <1>1, <1>2, <1>3 DEF ZoneInv

-----------------------------------------------------------------------------
(* What a step of thread c may do to the threads.                          *)
ThreadTo(c) ==
  /\ DOMAIN op' = Conn /\ \A d \in Conn : d # c => op'[d] = op[d]
  /\ ThreadOK(op'[c])

(* To the registry: a move of its own, by which only c's account may come  *)
(* in, if c is there to stay, and after which it is out if c is not.       *)
RegistryTo(c) ==
  /\ R!Next \/ UNCHANGED registryVars
  /\ \A u \in DOMAIN playerRoom' : u \in DOMAIN playerRoom \/ (u = UinOf(c) /\ Stays(c)')
  /\ Stays(c) /\ UinOf(c) \in DOMAIN playerRoom' => Stays(c)'

(* To the allocations: who plays is a player, and only c may have taken    *)
(* the last player out, who then goes on to the release.                   *)
AllocationsTo(c) ==
  /\ AllocationsOK'
  /\ \A r \in RoomId : Live(r)' =>
       /\ ds'[r].match \subseteq ds'[r].players
       /\ ds'[r].players = {} =>
            \/ Live(r) /\ ds[r].players = {} /\ ~(op[c].pc = "release" /\ op[c].at = r)
            \/ op'[c].pc = "release" /\ op'[c].at = r

LEMMA RegistryMoves ==
  ASSUME RoomsOK, R!Next \/ UNCHANGED registryVars
  PROVE  RoomsOK'
<1> USE ZoneFacts
<1>1. CASE UNCHANGED registryVars
  BY <1>1 DEF RoomsOK, registryVars
<1>2. ASSUME NEW u \in Uin, NEW r \in RoomId, NEW o \in {0}, NEW l \in BOOLEAN,
             R!CreateRoom(u, r, Cap, o, l)
      PROVE  RoomsOK'
  BY <1>2 DEF RoomsOK, R!CreateRoom, R!With, R!FighterCapacity
<1>3. ASSUME NEW u \in Uin, NEW r \in RoomId, NEW k \in BOOLEAN, NEW b \in BOOLEAN,
             R!JoinRoom(u, r, k, b)
      PROVE  RoomsOK'
  BY <1>3 DEF RoomsOK, R!JoinRoom
<1>4. ASSUME NEW u \in Uin, R!LeaveRoom(u)
      PROVE  RoomsOK'
  <2>1. ASSUME NEW r \in DOMAIN rooms
        PROVE  LET left == R!RoomAfterLeave(rooms[r], u)
               IN  DOMAIN left = DOMAIN rooms[r] /\ left.fighters = rooms[r].fighters
                   /\ left.observers = rooms[r].observers
    BY DEF RoomsOK, R!RoomAfterLeave
  <2>2. PICK r : \/ rooms' = rooms
                 \/ rooms' = R!Without(rooms, r)
                 \/ rooms' = [rooms EXCEPT ![r] = R!RoomAfterLeave(rooms[r], u)]
    BY <1>4 DEF R!LeaveRoom
  <2> QED BY <2>1, <2>2 DEF RoomsOK, R!Without
<1>5. ASSUME NEW u \in Uin, NEW ready \in BOOLEAN, R!SetReady(u, ready)
      PROVE  RoomsOK'
  BY <1>5 DEF RoomsOK, R!SetReady
<1>6. ASSUME NEW u \in Uin, NEW s, NEW c, R!MoveMember(u, s, c)
      PROVE  RoomsOK'
  BY <1>6 DEF RoomsOK, R!MoveMember
<1>7. ASSUME NEW r \in RoomId, NEW b \in BOOLEAN, R!SetStarted(r, b)
      PROVE  RoomsOK'
  BY <1>7 DEF RoomsOK, R!SetStarted
<1> QED BY <1>1, <1>2, <1>3, <1>4, <1>5, <1>6, <1>7 DEF R!Next

(* The three together keep the invariant.                                  *)
LEMMA StepKeeps ==
  ASSUME ZoneInv, NEW c \in Conn, ThreadTo(c), RegistryTo(c), AllocationsTo(c)
  PROVE  ZoneInv'
<1>1. ThreadsOK'
  BY DEF ZoneInv, ThreadsOK, ThreadTo
<1>2. RoomsOK'
  BY RegistryMoves DEF ZoneInv, RegistryTo
<1>3. HeldByOne'
  <2> SUFFICES ASSUME NEW u \in DOMAIN playerRoom'
               PROVE  \E d \in Conn : UinOf(d) = u /\ Stays(d)'
    BY DEF HeldByOne
  <2>1. CASE u = UinOf(c) /\ Stays(c)'
    BY <2>1
  <2>2. CASE u \in DOMAIN playerRoom
    <3>1. PICK d \in Conn : UinOf(d) = u /\ Stays(d)
      BY <2>2 DEF ZoneInv, HeldByOne
    <3>2. CASE d = c
      BY <3>1, <3>2 DEF RegistryTo
    <3>3. CASE d # c
      BY <3>1, <3>3 DEF ThreadTo, Stays
    <3> QED BY <3>2, <3>3
  <2> QED BY <2>1, <2>2 DEF RegistryTo
<1>4. EmptyIsReleased'
  <2> SUFFICES ASSUME NEW r \in RoomId, Live(r)'
               PROVE  /\ ds'[r].match \subseteq ds'[r].players
                      /\ ds'[r].players = {} =>
                           \E d \in Conn : op'[d].pc = "release" /\ op'[d].at = r
    BY DEF EmptyIsReleased
  <2>1. ds'[r].match \subseteq ds'[r].players
    BY DEF AllocationsTo
  <2>2. ASSUME ds'[r].players = {}
        PROVE  \E d \in Conn : op'[d].pc = "release" /\ op'[d].at = r
    <3>1. CASE op'[c].pc = "release" /\ op'[c].at = r
      BY <3>1
    <3>2. CASE Live(r) /\ ds[r].players = {} /\ ~(op[c].pc = "release" /\ op[c].at = r)
      <4>1. PICK d \in Conn : op[d].pc = "release" /\ op[d].at = r
        BY <3>2 DEF ZoneInv, EmptyIsReleased
      <4> QED BY <3>2, <4>1 DEF ThreadTo
    <3> QED BY <2>2, <3>1, <3>2 DEF AllocationsTo
  <2> QED BY <2>1, <2>2
<1> QED BY <1>1, <1>2, <1>3, <1>4 DEF ZoneInv, AllocationsTo

-----------------------------------------------------------------------------
LEMMA ThreadSteps ==
  ASSUME ThreadsOK, NEW c \in Conn,
         \/ Connect(c) \/ Create(c) \/ Join(c) \/ Depart(c)
         \/ Lobby(c) \/ Match(c) \/ Spawner(c)
  PROVE  ThreadTo(c) /\ (Stays(c) => Stays(c)' \/ Disconnect(c))
<1> USE DEF ThreadsOK, ThreadOK, ThreadTo, Stays, Thens, At, Idle, Calling
<1>1. CASE \E r \in RoomId : CreateReserve(c, r)
  BY <1>1 DEF CreateReserve
<1>2. CASE CreateRoom(c)
  BY <1>2 DEF CreateRoom
<1>3. CASE CreateRefused(c)
  BY <1>3 DEF CreateRefused
<1>4. CASE \E r \in RoomId : JoinRegistry(c, r)
  BY <1>4 DEF JoinRegistry
<1>5. CASE JoinRegister(c)
  BY <1>5 DEF JoinRegister
<1>6. CASE JoinHalf(c)
  BY <1>6 DEF JoinHalf
<1>7. CASE Leave(c)
  BY <1>7 DEF Leave
<1>8. CASE LeaveDone(c)
  BY <1>8 DEF LeaveDone
<1>9. CASE RoomList(c)
  BY <1>9 DEF RoomList
<1>10. CASE Disconnect(c)
  BY <1>10 DEF Disconnect
<1>11. CASE DisconnectSync(c)
  BY <1>11 DEF DisconnectSync
<1>12. CASE Close(c)
  BY <1>12 DEF Close
<1>13. CASE \E b \in BOOLEAN : SetReady(c, b)
  BY <1>13 DEF SetReady
<1>14. CASE \E k \in {0, 1} : ChangeCamp(c, k)
  BY <1>14 DEF ChangeCamp
<1>15. CASE \E r \in RoomId : Settings(c, r)
  BY <1>15 DEF Settings
<1>16. CASE UpdateSettings(c)
  BY <1>16 DEF UpdateSettings
<1>17. CASE UpdateRegistry(c)
  <2>1. op[c].pc = "update"
    BY <1>17 DEF UpdateRegistry
  <2>2. PICK now : /\ op' = [op EXCEPT ![c] = now]
                   /\ \/ now = At("sync", op[c].at, SnapshotAfter(op[c].at), "settled")
                      \/ now = Idle
    BY <1>17 DEF UpdateRegistry
  <2> QED BY <2>1, <2>2
<1>18. CASE Sync(c)
  BY <1>18 DEF Sync
<1>19. CASE StartMatch(c)
  BY <1>19 DEF StartMatch
<1>20. CASE StartRoomAlloc(c)
  BY <1>20 DEF StartRoomAlloc
<1>21. CASE Handoff(c)
  BY <1>21 DEF Handoff
<1>22. CASE BeginMatch(c)
  BY <1>22 DEF BeginMatch
<1>23. CASE ArmLobby(c)
  BY <1>23 DEF ArmLobby
<1>24. CASE SendHandoff(c)
  BY <1>24 DEF SendHandoff
<1>25. CASE SetInMatch(c)
  BY <1>25 DEF SetInMatch
<1>26. CASE QuitMatch(c)
  BY <1>26 DEF QuitMatch
<1>27. CASE ShowRoom(c)
  <2>1. op[c].pc = "show"
    BY <1>27 DEF ShowRoom
  <2>2. PICK now : /\ op' = [op EXCEPT ![c] = now]
                   /\ now = [op[c] EXCEPT !.pc = "quit"] \/ now = Idle
    BY <1>27 DEF ShowRoom
  <2> QED BY <2>1, <2>2
<1>28. CASE QuitDone(c)
  BY <1>28 DEF QuitDone
<1>29. CASE RemoveRoomPlayer(c)
  <2>1. op[c].pc = "leave"
    BY <1>29 DEF RemoveRoomPlayer
  <2>2. PICK r : \/ op' = [op EXCEPT ![c].pc = AfterRemoval(c, r), ![c].at = r]
                 \/ op' = [op EXCEPT ![c].pc = op[c].then]
    BY <1>29 DEF RemoveRoomPlayer
  <2>3. AfterRemoval(c, r) \in {"release", "end", op[c].then}
    BY DEF AfterRemoval
  <2> QED BY <2>1, <2>2, <2>3
<1>30. CASE ReleaseLobby(c)
  BY <1>30 DEF ReleaseLobby
<1>31. CASE EndRound(c)
  BY <1>31 DEF EndRound
<1>32. CASE Connect(c)
  BY <1>32 DEF Connect
<1> QED BY <1>1, <1>2, <1>3, <1>4, <1>5, <1>6, <1>7, <1>8, <1>9, <1>10,
           <1>11, <1>12, <1>13, <1>14, <1>15, <1>16, <1>17, <1>18, <1>19, <1>20,
           <1>21, <1>22, <1>23, <1>24, <1>25, <1>26, <1>27, <1>28, <1>29, <1>30,
           <1>31, <1>32
        DEF Create, Join, Depart, Lobby, Match, Spawner

-----------------------------------------------------------------------------
LEMMA RegistryLeftAlone ==
  ASSUME NEW c \in Conn, UNCHANGED registryVars, Stays(c) => Stays(c)'
  PROVE  RegistryTo(c)
BY DEF RegistryTo, registryVars

(* Leaving the registry takes the account out of it.                       *)
LEMMA LeavingRegistry ==
  ASSUME NEW c \in Conn, LeaveRegistry(UinOf(c))
  PROVE  /\ R!Next \/ UNCHANGED registryVars
         /\ DOMAIN playerRoom' = DOMAIN playerRoom \ {UinOf(c)}
<1>1. CASE UinOf(c) \in DOMAIN playerRoom
  <2>1. R!LeaveRoom(UinOf(c))
    BY <1>1 DEF LeaveRegistry
  <2>2. R!Next
    BY <2>1, ZoneFacts DEF R!Next
  <2> QED BY <2>1, <2>2 DEF R!LeaveRoom, R!Without
<1>2. CASE UinOf(c) \notin DOMAIN playerRoom
  BY <1>2 DEF LeaveRegistry, registryVars
<1> QED BY <1>1, <1>2

(* A room is shown or hidden.                                              *)
LEMMA ShowingRoom ==
  ASSUME RoomsOK, NEW c \in Conn, NEW r, NEW b \in BOOLEAN, R!SetStarted(r, b),
         Stays(c) => Stays(c)'
  PROVE  RegistryTo(c)
<1>1. r \in RoomId /\ UNCHANGED playerRoom
  BY DEF RoomsOK, R!SetStarted
<1>2. UinOf(c) \in Uin
  BY ZoneFacts
<1>3. R!Next
  BY <1>1, <1>2 DEF R!Next
<1> QED BY <1>1, <1>3 DEF RegistryTo

LEMMA RegistrySteps ==
  ASSUME ThreadsOK, RoomsOK, NEW c \in Conn,
         \/ Connect(c) \/ Create(c) \/ Join(c) \/ Depart(c)
         \/ Lobby(c) \/ Match(c) \/ Spawner(c)
  PROVE  RegistryTo(c)
<1>0. ThreadTo(c) /\ (Stays(c) => Stays(c)' \/ Disconnect(c))
  BY ThreadSteps
<1>a. UinOf(c) \in Uin
  BY ZoneFacts
<1>b. ASSUME UNCHANGED registryVars, ~Disconnect(c)
      PROVE  RegistryTo(c)
  BY <1>0, <1>b, RegistryLeftAlone
<1>1. CASE CreateRoom(c)
  <2>1. op[c].at \in RoomId /\ R!CreateRoom(UinOf(c), op[c].at, Cap, 0, FALSE)
    BY <1>1 DEF CreateRoom, ThreadsOK, ThreadOK
  <2>2. R!Next
    BY <1>a, <2>1 DEF R!Next
  <2>3. DOMAIN playerRoom' = DOMAIN playerRoom \cup {UinOf(c)}
    BY <2>1 DEF R!CreateRoom, R!With
  <2>4. Stays(c)'
    BY <1>1 DEF CreateRoom, ThreadsOK, Stays, Idle, At
  <2> QED BY <2>2, <2>3, <2>4 DEF RegistryTo
<1>2. CASE \E r \in RoomId : JoinRegistry(c, r)
  <2>1. PICK r \in RoomId : JoinRegistry(c, r)
    BY <1>2
  <2>2. Stays(c)'
    BY <2>1 DEF JoinRegistry, ThreadsOK, Stays, At
  <2>3. CASE R!JoinRoom(UinOf(c), r, TRUE, FALSE)
    <3>1. R!Next
      BY <1>a, <2>3 DEF R!Next
    <3>2. DOMAIN playerRoom' = DOMAIN playerRoom \cup {UinOf(c)}
      BY <2>3 DEF R!JoinRoom, R!With
    <3> QED BY <2>2, <3>1, <3>2 DEF RegistryTo
  <2>4. CASE UNCHANGED registryVars
    BY <2>2, <2>4, RegistryLeftAlone
  <2> QED BY <2>1, <2>3, <2>4 DEF JoinRegistry
<1>3. CASE Leave(c)
  <2>1. LeaveRegistry(UinOf(c))
    BY <1>3 DEF Leave
  <2> QED BY <2>1, LeavingRegistry DEF RegistryTo
<1>4. CASE Disconnect(c)
  <2>1. LeaveRegistry(UinOf(c))
    BY <1>4 DEF Disconnect
  <2> QED BY <2>1, LeavingRegistry DEF RegistryTo
<1>5. CASE \E b \in BOOLEAN : SetReady(c, b)
  <2>1. PICK b \in BOOLEAN : R!SetReady(UinOf(c), b) /\ op[c].pc = "idle"
                             /\ op' = [op EXCEPT ![c] = At("sync", playerRoom[UinOf(c)],
                                        SnapshotAfter(playerRoom[UinOf(c)]), "idle")]
    BY <1>5 DEF SetReady, Request
  <2>2. R!Next
    BY <1>a, <2>1 DEF R!Next
  <2>3. UNCHANGED playerRoom
    BY <2>1 DEF R!SetReady
  <2>4. Stays(c)'
    BY <2>1 DEF ThreadsOK, Stays, At
  <2> QED BY <2>2, <2>3, <2>4 DEF RegistryTo
<1>6. CASE \E k \in {0, 1} : ChangeCamp(c, k)
  <2>1. PICK k \in {0, 1} : ChangeCamp(c, k)
    BY <1>6
  <2> DEFINE seat == SeatIn(k, role[c].seat)
             room == rooms[playerRoom[UinOf(c)]]
  <2>2. R!MoveMember(UinOf(c), seat, k)
    BY <2>1 DEF ChangeCamp
  <2>3. seat \in 0 .. Cap - 1
    <3>1. room.fighters = Cap /\ room.observers = 0
      BY <2>2 DEF RoomsOK, R!MoveMember, R!InRoom
    <3>2. seat \in R!SeatRange(room, room.members[UinOf(c)].observer)
      BY <2>2 DEF R!MoveMember
    <3> HIDE DEF seat, room
    <3> QED BY <3>1, <3>2, ZoneFacts DEF R!SeatRange
  <2> HIDE DEF seat
  <2>4. R!Next
    BY <1>a, <2>2, <2>3 DEF R!Next
  <2>5. UNCHANGED playerRoom
    BY <2>2 DEF R!MoveMember
  <2>6. Stays(c)'
    BY <2>1 DEF ChangeCamp, ThreadsOK, Stays, At
  <2> QED BY <2>4, <2>5, <2>6 DEF RegistryTo
<1>7. CASE UpdateRegistry(c)
  <2>1. ~Disconnect(c)
    BY <1>7 DEF UpdateRegistry, Disconnect
  <2> QED BY <1>0, <1>7, <1>b, <2>1, ShowingRoom DEF UpdateRegistry
<1>8. CASE StartMatch(c)
  <2>1. op'[c].pc = "handoff"
    BY <1>8 DEF StartMatch, ThreadsOK, Calling, At
  <2>2. ~Disconnect(c)
    BY <2>1 DEF Disconnect, ThreadsOK, At
  <2> QED BY <1>0, <1>8, <1>b, <2>2, ShowingRoom DEF StartMatch
<1>9. CASE ShowRoom(c)
  <2>1. ~Disconnect(c)
    BY <1>9 DEF ShowRoom, Disconnect
  <2> QED BY <1>0, <1>9, <1>b, <2>1, ShowingRoom DEF ShowRoom
<1>10. CASE \/ \E r \in RoomId : CreateReserve(c, r)
            \/ \E r \in RoomId : Settings(c, r)
            \/ RoomList(c) \/ StartRoomAlloc(c) \/ SetInMatch(c) \/ QuitMatch(c)
  <2>0. UNCHANGED registryVars
    BY <1>10 DEF CreateReserve, Settings, RoomList, StartRoomAlloc, SetInMatch, QuitMatch
  <2>1. op'[c].pc # "bye"
    <3> USE DEF ThreadsOK, Calling, At
    <3>1. CASE \E r \in RoomId : CreateReserve(c, r)
      BY <3>1 DEF CreateReserve
    <3>2. CASE \E r \in RoomId : Settings(c, r)
      BY <3>2 DEF Settings
    <3>3. CASE RoomList(c) \/ SetInMatch(c)
      BY <3>3 DEF RoomList, SetInMatch, Request
    <3>4. CASE StartRoomAlloc(c)
      BY <3>4 DEF StartRoomAlloc
    <3>5. CASE QuitMatch(c)
      <4>1. PICK r : \/ op' = [op EXCEPT ![c] = Calling("end", r, "show")]
                     \/ op' = [op EXCEPT ![c] = Calling("quit", r, "idle")]
        BY <3>5 DEF QuitMatch
      <4> QED BY <4>1
    <3> QED BY <1>10, <3>1, <3>2, <3>3, <3>4, <3>5
  <2>2. ~Disconnect(c)
    BY <2>1 DEF Disconnect, ThreadsOK, At
  <2> QED BY <1>b, <2>0, <2>2
<1>11. CASE \/ CreateRefused(c) \/ JoinRegister(c) \/ JoinHalf(c) \/ LeaveDone(c)
            \/ DisconnectSync(c) \/ Close(c) \/ UpdateSettings(c) \/ Sync(c)
            \/ Handoff(c) \/ BeginMatch(c) \/ ArmLobby(c) \/ SendHandoff(c)
            \/ QuitDone(c) \/ RemoveRoomPlayer(c) \/ ReleaseLobby(c) \/ EndRound(c)
            \/ Connect(c)
  <2>1. UNCHANGED registryVars
    BY <1>11 DEF CreateRefused, JoinRegister, JoinHalf, LeaveDone, DisconnectSync,
         Close, UpdateSettings, Sync, Handoff, BeginMatch, ArmLobby, SendHandoff,
         QuitDone, RemoveRoomPlayer, ReleaseLobby, EndRound, Connect
  <2>2. op[c].pc # "idle"
    BY <1>11 DEF CreateRefused, JoinRegister, JoinHalf, LeaveDone, DisconnectSync,
         Close, UpdateSettings, Sync, Handoff, BeginMatch, ArmLobby, SendHandoff,
         QuitDone, RemoveRoomPlayer, ReleaseLobby, EndRound, Connect
  <2>3. ~Disconnect(c)
    BY <2>2 DEF Disconnect
  <2> QED BY <1>b, <2>1, <2>3
<1> QED BY <1>1, <1>2, <1>3, <1>4, <1>5, <1>6, <1>7, <1>8, <1>9, <1>10, <1>11
        DEF Create, Join, Depart, Lobby, Match, Spawner

-----------------------------------------------------------------------------
LEMMA AllocationsLeftAlone ==
  ASSUME AllocationsOK, EmptyIsReleased, NEW c \in Conn, op[c].pc # "release",
         DOMAIN ds' = RoomId, \A r \in RoomId : ds'[r] = ds[r]
  PROVE  AllocationsTo(c)
BY DEF AllocationsTo, AllocationsOK, EmptyIsReleased, Live

(* One allocation gets another value, which is released, or has players,   *)
(* those in the match among them, or had none before.                      *)
LEMMA OneAllocation ==
  ASSUME AllocationsOK, EmptyIsReleased, NEW c \in Conn, op[c].pc # "release",
         NEW r \in RoomId, NEW a, ds' = [ds EXCEPT ![r] = a],
         DOMAIN a = {"state", "owner", "players", "match"},
         a.match \subseteq a.players,
         a.players = {} => \/ Live(r) /\ ds[r].players = {}
                           \/ op'[c].pc = "release" /\ op'[c].at = r
  PROVE  AllocationsTo(c)
<1>1. AllocationsOK'
  BY DEF AllocationsOK
<1>2. ds'[r] = a /\ \A q \in RoomId : q # r => ds'[q] = ds[q]
  BY DEF AllocationsOK
<1>3. \A q \in RoomId : q # r => (Live(q)' <=> Live(q))
  BY <1>2 DEF Live
<1> QED BY <1>1, <1>2, <1>3 DEF AllocationsTo, EmptyIsReleased

LEMMA Unchanged ==
  ASSUME AllocationsOK, EmptyIsReleased, NEW c \in Conn, op[c].pc # "release",
         UNCHANGED ds
  PROVE  AllocationsTo(c)
BY AllocationsLeftAlone DEF AllocationsOK

LEMMA Elsewhere ==
  ASSUME AllocationsOK, EmptyIsReleased, NEW c \in Conn, op[c].pc # "release",
         NEW r, r \notin RoomId, NEW a, ds' = [ds EXCEPT ![r] = a]
  PROVE  AllocationsTo(c)
BY AllocationsLeftAlone DEF AllocationsOK

LEMMA Reserving ==
  ASSUME AllocationsOK, EmptyIsReleased, NEW c \in Conn, NEW r \in RoomId,
         op[c].pc # "release", NEW u, ReserveLobby(u, r)
  PROVE  AllocationsTo(c)
<1>1. CASE UNCHANGED spawnerVars
  BY <1>1, Unchanged DEF spawnerVars
<1>2. CASE ds' = [ds EXCEPT ![r] = [state |-> "RESERVED", owner |-> u,
                                    players |-> {u}, match |-> {}]]
  <2> DEFINE a == [state |-> "RESERVED", owner |-> u, players |-> {u}, match |-> {}]
  <2>1. DOMAIN a = {"state", "owner", "players", "match"} /\ a.players = {u} /\ a.match = {}
    OBVIOUS
  <2>2. ds' = [ds EXCEPT ![r] = a]
    BY <1>2
  <2> HIDE DEF a
  <2> QED BY <2>1, <2>2, OneAllocation
<1> QED BY <1>1, <1>2 DEF ReserveLobby

(* A player comes to the players of room r, and to its match or not.       *)
LEMMA Entering ==
  ASSUME AllocationsOK, EmptyIsReleased, NEW c \in Conn, op[c].pc # "release",
         NEW r, Live(r), NEW P, NEW M, P # {}, M \subseteq P,
         ds' = [ds EXCEPT ![r] = [ds[r] EXCEPT !.players = P, !.match = M]]
  PROVE  AllocationsTo(c)
<1> DEFINE a == [ds[r] EXCEPT !.players = P, !.match = M]
<1>1. CASE r \in RoomId
  <2>1. DOMAIN a = {"state", "owner", "players", "match"} /\ a.players = P /\ a.match = M
    BY <1>1 DEF AllocationsOK
  <2>2. ds' = [ds EXCEPT ![r] = a]
    OBVIOUS
  <2> HIDE DEF a
  <2> QED BY <1>1, <2>1, <2>2, OneAllocation
<1>2. CASE r \notin RoomId
  BY <1>2, Elsewhere
<1> QED BY <1>1, <1>2

(* The state of an allocation changes, and its match perhaps ends.         *)
LEMMA Proceeding ==
  ASSUME AllocationsOK, EmptyIsReleased, NEW c \in Conn, op[c].pc # "release",
         NEW r, Live(r), NEW s, NEW M, M \subseteq ds[r].match,
         ds' = [ds EXCEPT ![r] = [ds[r] EXCEPT !.state = s, !.match = M]]
  PROVE  AllocationsTo(c)
<1> DEFINE a == [ds[r] EXCEPT !.state = s, !.match = M]
<1>1. CASE r \in RoomId
  <2>1. /\ DOMAIN a = {"state", "owner", "players", "match"}
        /\ a.players = ds[r].players /\ a.match = M
    BY <1>1 DEF AllocationsOK
  <2>2. ds' = [ds EXCEPT ![r] = a]
    OBVIOUS
  <2>3. ds[r].match \subseteq ds[r].players
    BY <1>1 DEF EmptyIsReleased
  <2> HIDE DEF a
  <2> QED BY <1>1, <2>1, <2>2, <2>3, OneAllocation
<1>2. CASE r \notin RoomId
  BY <1>2, Elsewhere
<1> QED BY <1>1, <1>2

LEMMA AllocationSteps ==
  ASSUME ThreadsOK, AllocationsOK, EmptyIsReleased, NEW c \in Conn,
         \/ Connect(c) \/ Create(c) \/ Join(c) \/ Depart(c)
         \/ Lobby(c) \/ Match(c) \/ Spawner(c)
  PROVE  AllocationsTo(c)
<1>1. CASE \/ CreateRoom(c) \/ CreateRefused(c) \/ (\E r \in RoomId : JoinRegistry(c, r))
           \/ JoinHalf(c) \/ Connect(c)
  BY <1>1, Unchanged DEF CreateRoom, CreateRefused, JoinRegistry, JoinHalf, Connect,
                         Request, spawnerVars
<1>2. CASE Depart(c)
  BY <1>2, Unchanged DEF Depart, Leave, LeaveDone, RoomList, Disconnect, DisconnectSync,
                         Close, Request, spawnerVars
<1>3. CASE Lobby(c)
  BY <1>3, Unchanged DEF Lobby, SetReady, ChangeCamp, Settings, UpdateSettings,
                         UpdateRegistry, Sync, Request, spawnerVars
<1>4. CASE StartMatch(c) \/ StartRoomAlloc(c) \/ SendHandoff(c) \/ ShowRoom(c) \/ QuitDone(c)
  BY <1>4, Unchanged DEF StartMatch, StartRoomAlloc, SendHandoff, ShowRoom, QuitDone,
                         Request, spawnerVars
<1>5. CASE \E r \in RoomId : CreateReserve(c, r)
  BY <1>5, Reserving DEF CreateReserve, Request
<1>6. CASE JoinRegister(c)
  <2>1. /\ op[c].pc = "register" /\ Live(op[c].room)
        /\ ds' = [ds EXCEPT ![op[c].room].players = @ \cup {UinOf(c)}]
    BY <1>6 DEF JoinRegister
  <2> DEFINE r == op[c].room
             P == ds[r].players \cup {UinOf(c)}
  <2>2. CASE r \in RoomId
    <3>1. ds' = [ds EXCEPT ![r] = [ds[r] EXCEPT !.players = P, !.match = ds[r].match]]
      BY <2>1, <2>2 DEF AllocationsOK
    <3>2. P # {} /\ ds[r].match \subseteq P
      BY <2>1, <2>2 DEF EmptyIsReleased
    <3> HIDE DEF P
    <3> QED BY <2>1, <3>1, <3>2, Entering
  <2>3. CASE r \notin RoomId
    BY <2>1, <2>3, Elsewhere
  <2> QED BY <2>2, <2>3
<1>7. CASE Handoff(c)
  <2>1. op[c].pc # "release"
    BY <1>7 DEF Handoff
  <2>2. UNCHANGED spawnerVars \/ \E r \in RoomId : ReserveLobby(UinOf(c), r)
    BY <1>7 DEF Handoff
  <2> QED BY <2>1, <2>2, Unchanged, Reserving DEF spawnerVars
<1>8. CASE BeginMatch(c)
  <2> DEFINE r == op[c].at
             u == UinOf(c)
             P == ds[r].players \cup {u}
             M == IF ds[r].state \in {"RESERVED", "ROUND_ENDED"} \/ ds[r].match = {}
                  THEN P ELSE ds[r].match \cup {u}
  <2>1. op[c].pc = "begin"
    BY <1>8 DEF BeginMatch
  <2>2. CASE ~Live(r)
    BY <1>8, <2>1, <2>2, Unchanged DEF BeginMatch
  <2>3. CASE Live(r)
    <3>1. ds' = [ds EXCEPT ![r] = [ds[r] EXCEPT !.players = P, !.match = M]]
      BY <1>8, <2>3 DEF BeginMatch
    <3>2. P # {}
      OBVIOUS
    <3>3. CASE r \in RoomId
      <4>1. M \subseteq P
        BY <2>3, <3>3 DEF EmptyIsReleased
      <4> HIDE DEF P, M
      <4> QED BY <2>1, <2>3, <3>1, <3>2, <4>1, Entering
    <3>4. CASE r \notin RoomId
      BY <2>1, <3>1, <3>4, Elsewhere
    <3> QED BY <3>3, <3>4
  <2> QED BY <2>2, <2>3
<1>9. CASE ArmLobby(c)
  <2> DEFINE r == op[c].at
  <2>1. /\ op[c].pc = "arm"
        /\ \/ UNCHANGED ds
           \/ /\ ds[r].state \in {"RESERVED", "ROUND_ENDED"}
              /\ \E s \in {"STARTING", "FAILED"} : ds' = [ds EXCEPT ![r].state = s]
    BY <1>9 DEF ArmLobby
  <2>2. CASE UNCHANGED ds
    BY <2>1, <2>2, Unchanged
  <2>3. ASSUME NEW s \in {"STARTING", "FAILED"}, ds' = [ds EXCEPT ![r].state = s],
               ds[r].state \in {"RESERVED", "ROUND_ENDED"}
        PROVE  AllocationsTo(c)
    <3>1. CASE r \in RoomId
      <4>1. Live(r)
        BY <2>3, <3>1 DEF Live, RoomId
      <4>2. ds' = [ds EXCEPT ![r] = [ds[r] EXCEPT !.state = s, !.match = ds[r].match]]
        BY <2>3, <3>1 DEF AllocationsOK
      <4> QED BY <2>1, <4>1, <4>2, Proceeding
    <3>2. CASE r \notin RoomId
      BY <2>1, <2>3, <3>2, Elsewhere
    <3> QED BY <3>1, <3>2
  <2> QED BY <2>1, <2>2, <2>3
<1>10. CASE SetInMatch(c)
  <2> DEFINE r == RoomOf(c)
             P == ds[r].players \cup {UinOf(c)}
             M == ds[r].match \cup {UinOf(c)}
  <2>1. /\ op[c].pc = "idle" /\ Live(r)
        /\ ds' = [ds EXCEPT ![r].players = P, ![r].match = [ds EXCEPT ![r].players = P][r].match
                                                            \cup {UinOf(c)}]
    BY <1>10 DEF SetInMatch, Request
  <2> HIDE DEF r
  <2>2. CASE r \in RoomId
    <3>1. P # {} /\ M \subseteq P
      BY <2>1, <2>2 DEF EmptyIsReleased
    <3>2. ds' = [ds EXCEPT ![r] = [ds[r] EXCEPT !.players = P, !.match = M]]
      BY <2>1, <2>2 DEF AllocationsOK
    <3> HIDE DEF P, M
    <3> QED BY <2>1, <3>1, <3>2, Entering
  <2>3. CASE r \notin RoomId
    BY <2>1, <2>3, AllocationsLeftAlone DEF AllocationsOK
  <2> QED BY <2>2, <2>3
<1>11. CASE QuitMatch(c)
  <2> DEFINE r == RoomOf(c)
             M == ds[r].match \ {UinOf(c)}
  <2>1. op[c].pc = "idle" /\ (UNCHANGED ds \/ (Live(r) /\ ds' = [ds EXCEPT ![r].match = M]))
    BY <1>11 DEF QuitMatch, Request
  <2> HIDE DEF r
  <2>2. CASE UNCHANGED ds
    BY <2>1, <2>2, Unchanged
  <2>3. CASE Live(r) /\ ds' = [ds EXCEPT ![r].match = M]
    <3>1. CASE r \in RoomId
      <4>1. ds' = [ds EXCEPT ![r] = [ds[r] EXCEPT !.state = ds[r].state, !.match = M]]
        BY <2>3, <3>1 DEF AllocationsOK
      <4>2. M \subseteq ds[r].match
        OBVIOUS
      <4> HIDE DEF M
      <4> QED BY <2>1, <2>3, <4>1, <4>2, Proceeding
    <3>2. CASE r \notin RoomId
      BY <2>1, <2>3, <3>2, Elsewhere
    <3> QED BY <3>1, <3>2
  <2> QED BY <2>1, <2>2, <2>3
<1>12. CASE RemoveRoomPlayer(c)
  <2> DEFINE u == UinOf(c)
             r == IF op[c].at # 0 THEN op[c].at ELSE role[c].dsRoom
             rest == ds[r].players \ {u}
             fight == ds[r].match \ {u}
             owner == IF ds[r].owner = u /\ rest # {} THEN Heir(rest) ELSE ds[r].owner
  <2>1. op[c].pc = "leave"
    BY <1>12 DEF RemoveRoomPlayer
  <2>2. CASE ~Live(r)
    BY <1>12, <2>1, <2>2, Unchanged DEF RemoveRoomPlayer, spawnerVars
  <2>3. CASE Live(r)
    <3>1. /\ ds' = [ds EXCEPT ![r] = [ds[r] EXCEPT !.players = rest, !.match = fight,
                                                   !.owner = owner]]
          /\ op' = [op EXCEPT ![c].pc = AfterRemoval(c, r), ![c].at = r]
      BY <1>12, <2>3 DEF RemoveRoomPlayer
    <3>2. CASE r \in RoomId
      <4> DEFINE a == [ds[r] EXCEPT !.players = rest, !.match = fight, !.owner = owner]
      <4> HIDE DEF r, owner
      <4>1. DOMAIN a = {"state", "owner", "players", "match"} /\ a.players = rest
              /\ a.match = fight
        BY <3>2 DEF AllocationsOK
      <4>2. fight \subseteq rest
        BY <2>3, <3>2 DEF EmptyIsReleased
      <4>3. rest = {} => op'[c].pc = "release" /\ op'[c].at = r
        BY <3>1 DEF AfterRemoval, ThreadsOK, ThreadOK
      <4>4. ds' = [ds EXCEPT ![r] = a]
        BY <3>1
      <4> HIDE DEF a, rest, fight
      <4> QED BY <2>1, <3>2, <4>1, <4>2, <4>3, <4>4, OneAllocation
    <3>3. CASE r \notin RoomId
      BY <2>1, <3>1, <3>3, Elsewhere
    <3> QED BY <3>2, <3>3
  <2> QED BY <2>2, <2>3
<1>13. CASE ReleaseLobby(c)
  <2> DEFINE r == op[c].at
             a == [Unreserved EXCEPT !.state = "RELEASED"]
  <2>1. DOMAIN a = {"state", "owner", "players", "match"} /\ a.state = "RELEASED"
    BY DEF Unreserved
  <2>2. op[c].pc = "release" /\ ds' = IF Live(r) THEN [ds EXCEPT ![r] = a] ELSE ds
    BY <1>13 DEF ReleaseLobby, spawnerVars
  <2> HIDE DEF a, r
  <2>3. \A q \in RoomId : Live(q)' => q # r /\ ds'[q] = ds[q] /\ Live(q)
    BY <2>1, <2>2 DEF AllocationsOK, Live
  <2>4. AllocationsOK'
    BY <2>1, <2>2 DEF AllocationsOK
  <2> QED BY <2>3, <2>4 DEF AllocationsTo, EmptyIsReleased, r
<1>14. CASE EndRound(c)
  <2> DEFINE r == op[c].at
  <2>1. /\ op[c].pc = "end"
        /\ \/ UNCHANGED ds
           \/ Live(r) /\ ds' = [ds EXCEPT ![r] = [ds[r] EXCEPT !.state = "ROUND_ENDED",
                                                               !.match = {}]]
    BY <1>14 DEF EndRound
  <2>2. CASE UNCHANGED ds
    BY <2>1, <2>2, Unchanged
  <2>3. CASE Live(r) /\ ds' = [ds EXCEPT ![r] = [ds[r] EXCEPT !.state = "ROUND_ENDED",
                                                              !.match = {}]]
    <3> DEFINE M == {}
    <3>1. M \subseteq ds[r].match
      OBVIOUS
    <3>2. ds' = [ds EXCEPT ![r] = [ds[r] EXCEPT !.state = "ROUND_ENDED", !.match = M]]
      BY <2>3
    <3> HIDE DEF r, M
    <3> QED BY <2>1, <2>3, <3>1, <3>2, Proceeding
  <2> QED BY <2>1, <2>2, <2>3
<1> QED BY <1>1, <1>2, <1>3, <1>4, <1>5, <1>6, <1>7, <1>8, <1>9, <1>10, <1>11, <1>12,
           <1>13, <1>14 DEF Create, Join, Match, Spawner

(* What the bridge reports changes an allocation's state only.             *)
LEMMA MonitorKeeps ==
  ASSUME ZoneInv, NEW r \in RoomId, Monitor(r)
  PROVE  ZoneInv'
<1>1. PICK s \in {"READY", "FAILED"} :
         ds[r].state \in {"STARTING", "READY"} /\ ds' = [ds EXCEPT ![r].state = s]
  BY DEF Monitor
<1>2. UNCHANGED <<op, rooms, playerRoom>>
  BY DEF Monitor, registryVars
<1>3. AllocationsOK'
  BY <1>1 DEF ZoneInv, AllocationsOK
<1>4. \A q \in RoomId : /\ ds'[q].players = ds[q].players /\ ds'[q].match = ds[q].match
                        /\ Live(q)' => Live(q)
  BY <1>1 DEF ZoneInv, AllocationsOK, Live
<1>5. EmptyIsReleased'
  BY <1>2, <1>4 DEF ZoneInv, EmptyIsReleased
<1>6. ThreadsOK' /\ RoomsOK' /\ HeldByOne'
  BY <1>2 DEF ZoneInv, ThreadsOK, RoomsOK, HeldByOne, Stays
<1> QED BY <1>3, <1>5, <1>6 DEF ZoneInv

LEMMA NextKeeps == ZoneInv /\ [Next]_vars => ZoneInv'
<1> SUFFICES ASSUME ZoneInv, [Next]_vars PROVE ZoneInv'
  OBVIOUS
<1>1. ASSUME NEW c \in Conn,
             \/ Connect(c) \/ Create(c) \/ Join(c) \/ Depart(c)
             \/ Lobby(c) \/ Match(c) \/ Spawner(c)
      PROVE  ZoneInv'
  <2>1. ThreadTo(c)
    BY <1>1, ThreadSteps DEF ZoneInv
  <2>2. RegistryTo(c)
    BY <1>1, RegistrySteps DEF ZoneInv
  <2>3. AllocationsTo(c)
    BY <1>1, AllocationSteps DEF ZoneInv
  <2> QED BY <2>1, <2>2, <2>3, StepKeeps
<1>2. ASSUME NEW r \in RoomId, Monitor(r) PROVE ZoneInv'
  BY <1>2, MonitorKeeps
<1>3. CASE UNCHANGED vars
  BY <1>3 DEF vars, ZoneInv, ThreadsOK, RoomsOK, AllocationsOK, HeldByOne, Stays,
              EmptyIsReleased, Live
<1> QED BY <1>1, <1>2, <1>3 DEF Next

(* The inductive invariant of the connection threads, for any accounts,    *)
(* connections, rooms and slots.                                           *)
THEOREM ZoneInvariant == Spec => []ZoneInv
BY InitOK, NextKeeps, PTL DEF Spec

(* However the handlers of several connections are interleaved, the        *)
(* registry only makes the moves of its own methods.                       *)
THEOREM RegistryAlwaysRefined == Spec => RegistryRefined
<1>1. ZoneInv /\ [Next]_vars => [R!Next]_registryVars
  <2> SUFFICES ASSUME ZoneInv, [Next]_vars PROVE [R!Next]_registryVars
    OBVIOUS
  <2>1. ASSUME NEW c \in Conn,
               \/ Connect(c) \/ Create(c) \/ Join(c) \/ Depart(c)
               \/ Lobby(c) \/ Match(c) \/ Spawner(c)
        PROVE  [R!Next]_registryVars
    BY <2>1, RegistrySteps DEF ZoneInv, RegistryTo
  <2>2. ASSUME NEW r \in RoomId, Monitor(r) PROVE [R!Next]_registryVars
    BY <2>2 DEF Monitor
  <2>3. CASE UNCHANGED vars
    BY <2>3 DEF vars, registryVars
  <2> QED BY <2>1, <2>2, <2>3 DEF Next
<1>2. Init => R!Init
  BY DEF Init
<1> QED BY <1>1, <1>2, ZoneInvariant, PTL DEF Spec, RegistryRefined, R!Spec, R!vars, registryVars

(* Whoever has gone with all connections keeps no seat.                    *)
THEOREM NobodyEverLeftBehind == Spec => []NobodyLeftBehind
<1>1. ZoneInv => NobodyLeftBehind
  BY DEF ZoneInv, HeldByOne, Stays, NobodyLeftBehind, Online
<1> QED BY <1>1, ZoneInvariant, PTL

(* An allocation without players is about to be released, and who is in    *)
(* the match is in the room.                                               *)
THEOREM EmptyAlwaysReleased == Spec => []EmptyIsReleased
<1>1. ZoneInv => EmptyIsReleased
  BY DEF ZoneInv
<1> QED BY <1>1, ZoneInvariant, PTL

-----------------------------------------------------------------------------
(* The registry by itself, with what is proved of it.                      *)
Registry == INSTANCE RoomRegistryProofs
       WITH FighterReq <- {Cap}, ObserverReq <- {0}, Camp <- {0, 1},
            SeatReq <- 0 .. Cap - 1

LEMMA SameRegistry ==
  /\ R!Init => Registry!Init
  /\ R!Next => Registry!Next
  /\ R!vars = Registry!vars
<1> USE DEF R!EmptyDict, Registry!EmptyDict, R!With, Registry!With,
            R!Without, Registry!Without, R!InRoom, Registry!InRoom
<1>1. R!Init => Registry!Init
  BY DEF R!Init, Registry!Init
<1>2. ASSUME NEW u, NEW r, NEW f, NEW o, NEW l, R!CreateRoom(u, r, f, o, l)
      PROVE  Registry!CreateRoom(u, r, f, o, l)
  BY <1>2 DEF R!CreateRoom, Registry!CreateRoom, R!FighterCapacity,
              Registry!FighterCapacity, R!NewMember, Registry!NewMember
<1>3. ASSUME NEW u, NEW r, NEW k, NEW b, R!JoinRoom(u, r, k, b)
      PROVE  Registry!JoinRoom(u, r, k, b)
  BY <1>3 DEF R!JoinRoom, Registry!JoinRoom, R!FreeSeats, Registry!FreeSeats,
              R!NextFreeSeat, Registry!NextFreeSeat, R!NewMember, Registry!NewMember,
              R!SeatRange, Registry!SeatRange, R!Seats, Registry!Seats
<1>4. ASSUME NEW u, R!LeaveRoom(u) PROVE Registry!LeaveRoom(u)
  BY <1>4 DEF R!LeaveRoom, Registry!LeaveRoom, R!RoomAfterLeave,
              Registry!RoomAfterLeave, R!Heir, Registry!Heir
<1>5. ASSUME NEW u, NEW b, R!SetReady(u, b) PROVE Registry!SetReady(u, b)
  BY <1>5 DEF R!SetReady, Registry!SetReady
<1>6. ASSUME NEW u, NEW s, NEW c, R!MoveMember(u, s, c) PROVE Registry!MoveMember(u, s, c)
  BY <1>6 DEF R!MoveMember, Registry!MoveMember, R!SeatRange, Registry!SeatRange
<1>7. ASSUME NEW r, NEW b, R!SetStarted(r, b) PROVE Registry!SetStarted(r, b)
  BY <1>7 DEF R!SetStarted, Registry!SetStarted
<1>8. R!Next => Registry!Next
  BY <1>2, <1>3, <1>4, <1>5, <1>6, <1>7 DEF R!Next, Registry!Next
<1>9. R!vars = Registry!vars
  BY DEF R!vars, Registry!vars
<1> QED BY <1>1, <1>8, <1>9

(* What is proved of the registry by itself holds of it when the handlers  *)
(* of any number of connections share it.                                  *)
LEMMA SharedRegistryInvariant == Spec => []Registry!IInv
<1>1. Registry!RegistryAssumption
  BY ZoneAssumption DEF Registry!RegistryAssumption, Registry!Byte
<1>2. Registry!Spec => []Registry!IInv
  BY <1>1, Registry!RegistryInvariant
<1>3. R!Init => Registry!Init
  BY SameRegistry
<1>4. [R!Next]_R!vars => [Registry!Next]_Registry!vars
  BY SameRegistry DEF R!vars, Registry!vars
<1> QED BY <1>2, <1>3, <1>4, RegistryAlwaysRefined, PTL
        DEF RegistryRefined, R!Spec, Registry!Spec

(* In particular the two dictionaries agree, nobody shares a seat, and     *)
(* every room has one owner.                                               *)
THEOREM SharedRegistrySound ==
  Spec => [](R!MembershipAgrees /\ R!SeatsSound /\ R!OwnerSound)
<1>1. Registry!MembershipAgrees => R!MembershipAgrees
  BY DEF Registry!MembershipAgrees, R!MembershipAgrees
<1>2. Registry!SeatsSound => R!SeatsSound
  BY DEF Registry!SeatsSound, R!SeatsSound, Registry!SeatRange, R!SeatRange
<1>3. Registry!OwnerSound => R!OwnerSound
  BY DEF Registry!OwnerSound, R!OwnerSound
<1>4. Registry!IInv => R!MembershipAgrees /\ R!SeatsSound /\ R!OwnerSound
  BY <1>1, <1>2, <1>3 DEF Registry!IInv
<1> QED BY <1>4, SharedRegistryInvariant, PTL

-----------------------------------------------------------------------------
(* The two tables.  From here on requests are handled one at a time, an    *)
(* account has one connection, and nobody starts a match from outside a    *)
(* room: what the code does otherwise makes the tables part.               *)
Serial ==
  /\ MaxBusy = 1 /\ ~QuickStart
  /\ \A c, d \in Conn : UinOf(c) = UinOf(d) => c = d

(* The members of room r by _player_room, and its players by the spawner.  *)
Members(player, r) == {u \in DOMAIN player : player[u] = r}
Players(d, r) == IF d[r].state \notin {"NONE", "RELEASED"} THEN d[r].players ELSE {}

MembersNow == [r \in RoomId |-> Members(playerRoom, r)]
PlayersNow == [r \in RoomId |-> Players(ds, r)]
Same(M, P) == \A r \in RoomId : M[r] = P[r]

(* The registry's own invariant, in these words.                           *)
RegOK ==
  /\ DOMAIN playerRoom \subseteq Uin
  /\ playerRoom = [u \in DOMAIN playerRoom |-> playerRoom[u]]
  /\ \A u \in DOMAIN playerRoom : playerRoom[u] \in RoomId
  /\ \A r \in DOMAIN rooms : r \in RoomId /\ Members(playerRoom, r) # {}
  /\ \A r \in RoomId : (IF r \in DOMAIN rooms THEN DOMAIN rooms[r].members ELSE {})
                          = Members(playerRoom, r)

(* Where the thread of a client is: outside every room, in the middle of a *)
(* leave, or in a room.                                                    *)
Quiet == {"off", "idle"}
Outside(o, i) == o.pc \in {"off", "create"} \/ (o.pc = "idle" /\ i = "lobby")
Leaving(o) ==
  \/ o.pc \in {"bye", "leave", "release", "left", "close"}
  \/ o.pc = "end" /\ o.then \in {"left", "close"}
Sitting(o, i) ==
  \/ o.pc \in {"sync", "settings", "update", "handoff", "begin", "arm", "send", "show", "quit"}
  \/ o.pc = "end" /\ o.then \in {"settings", "show"}
  \/ o.pc = "idle" /\ i = "room"

(* A thread o with role_state rl and client screen i fits what the         *)
(* registry has of its account u: who sits has the room in role_state, who *)
(* does not has no hand-off, and a snapshot lists members of its room.     *)
Placed(o, rl, i, u, player) ==
  /\ Outside(o, i) \/ Leaving(o) \/ Sitting(o, i) \/ o.pc = "register"
  /\ Outside(o, i) => i = "lobby" /\ u \notin DOMAIN player /\ ~rl.handed
  /\ o.pc = "register" =>
       ~rl.handed /\ o.then = "idle" /\ u \in DOMAIN player /\ player[u] = o.room
  /\ Sitting(o, i) => i = "room" /\ u \in DOMAIN player /\ rl.room = player[u]
  /\ Leaving(o) => u \notin DOMAIN player
  /\ o.pc = "sync" => o.room = rl.room
  /\ o.then = "settings" \/ o.pc \in {"begin", "settings", "update"} => o.at = rl.room
  /\ o.pc \in {"leave", "release"} => o.at \in RoomId /\ o.then \in {"left", "close"}
  /\ \A v \in DOMAIN o.snap : v \in DOMAIN player /\ player[v] = o.room
  /\ o.pc \in Quiet => o.then = "idle" /\ DOMAIN o.snap = {}
  /\ DOMAIN rl = {"room", "dsRoom", "seat", "pending", "handed"}
  /\ rl.room \in RoomId \cup {0}

(* How far apart thread o has the tables: a room is reserved and not yet   *)
(* made, a player is a member and not yet a player, or the other way.      *)
Between(o, rl, u, M, P) ==
  /\ o.pc = "create" =>
       /\ o.at \in RoomId /\ M[o.at] = {} /\ P[o.at] = {u}
       /\ \A r \in RoomId \ {o.at} : M[r] = P[r]
  /\ o.pc = "register" =>
       /\ o.room \in RoomId /\ P[o.room] = M[o.room] \ {u} /\ P[o.room] # {}
       /\ \A r \in RoomId \ {o.room} : M[r] = P[r]
  /\ o.pc \in {"bye", "leave"} =>
       \A r \in RoomId :
         /\ M[r] = P[r] \ {u}
         /\ u \in P[r] => r = IF o.pc = "bye" THEN rl.room ELSE o.at
  /\ o.pc = "release" => o.at \in RoomId /\ P[o.at] = {}
  /\ o.pc \notin Quiet \cup {"create", "register", "bye", "leave"} => Same(M, P)

(* The owner of an allocation is one of its players, until the last one    *)
(* has left, and the owner index points at nobody else's.                  *)
Owned ==
  \A r \in RoomId : Live(r) =>
    \/ ds[r].owner \in ds[r].players
    \/ \E c \in Conn : op[c].pc = "release" /\ op[c].at = r
Indexed(index, d) ==
  /\ DOMAIN index = Uin
  /\ \A u \in Uin : index[u] # 0 =>
       /\ index[u] \in RoomId /\ d[index[u]].state # "NONE"
       /\ d[index[u]].state # "RELEASED" => d[index[u]].owner = u

OthersQuiet(c) == \A d \in Conn \ {c} : op[d].pc \in Quiet
AllQuiet == \A c \in Conn : op[c].pc \in Quiet

AgreeInv ==
  /\ DOMAIN role = Conn /\ DOMAIN ui = Conn
  /\ \A c \in Conn : op[c].pc \notin Quiet => OthersQuiet(c)
  /\ \A c \in Conn : Placed(op[c], role[c], ui[c], UinOf(c), playerRoom)
  /\ \A c \in Conn : Between(op[c], role[c], UinOf(c), MembersNow, PlayersNow)
  /\ AllQuiet => Same(MembersNow, PlayersNow)
  /\ Owned /\ Indexed(ownerRoom, ds)

-----------------------------------------------------------------------------
(* Whoever begins a request finds every other thread quiet.                *)
LEMMA QuietBegin ==
  ASSUME Serial, MayBegin
  PROVE  AllQuiet
<1> DEFINE busy == {c \in Conn : op[c].pc \notin {"off", "idle"}}
<1>1. IsFiniteSet(busy)
  BY ZoneAssumption, FS_Subset DEF ZoneAssumption
<1>2. Cardinality(busy) \in Nat /\ Cardinality(busy) < 1
  BY <1>1, FS_CardinalityType DEF Serial, MayBegin
<1>3. Cardinality(busy) = 0
  BY <1>2
<1>4. busy = {}
  BY <1>1, <1>3, FS_EmptySet
<1> QED BY <1>4 DEF AllQuiet, Quiet

(* What the step of thread c leaves alone of the other threads, of the     *)
(* registry's other entries, and of the allocations.                       *)
OthersKept(c) ==
  /\ DOMAIN role' = Conn /\ DOMAIN ui' = Conn
  /\ \A d \in Conn \ {c} :
       /\ op'[d] = op[d] /\ ui'[d] = ui[d]
       /\ DOMAIN role'[d] = DOMAIN role[d] /\ role'[d].room = role[d].room
       /\ role'[d].handed => role[d].handed \/ UinOf(d) \in DOMAIN playerRoom

OnlyOwn(c) ==
  \A v \in Uin : v # UinOf(c) =>
    /\ v \in DOMAIN playerRoom' <=> v \in DOMAIN playerRoom
    /\ v \in DOMAIN playerRoom => playerRoom'[v] = playerRoom[v]

DsKept ==
  /\ ownerRoom' = ownerRoom
  /\ \A r \in RoomId :
       /\ ds'[r].state = "NONE" <=> ds[r].state = "NONE"
       /\ ds'[r].state = "RELEASED" <=> ds[r].state = "RELEASED"
       /\ ds'[r].owner = ds[r].owner
       /\ Live(r) => ds'[r].players = ds[r].players

(* c's own thread after its step.                                          *)
Fits(c) ==
  /\ Placed(op'[c], role'[c], ui'[c], UinOf(c), playerRoom')
  /\ Between(op'[c], role'[c], UinOf(c), MembersNow', PlayersNow')
  /\ op'[c].pc \in Quiet => Same(MembersNow', PlayersNow')

LEMMA AgreeStep ==
  ASSUME Serial, AgreeInv, NEW c \in Conn,
         OthersQuiet(c), OthersKept(c), OnlyOwn(c), Fits(c), Owned', Indexed(ownerRoom', ds')
  PROVE  AgreeInv'
<1>1. ASSUME NEW d \in Conn, d # c
      PROVE  /\ Placed(op'[d], role'[d], ui'[d], UinOf(d), playerRoom')
             /\ op'[d].pc \in Quiet
  <2>1. UinOf(d) # UinOf(c) /\ UinOf(d) \in Uin
    BY <1>1, ZoneFacts DEF Serial
  <2>2. op'[d] = op[d] /\ op[d].pc \in Quiet /\ ui'[d] = ui[d]
        /\ DOMAIN role'[d] = DOMAIN role[d] /\ role'[d].room = role[d].room
        /\ (role'[d].handed => role[d].handed \/ UinOf(d) \in DOMAIN playerRoom)
    BY <1>1 DEF OthersQuiet, OthersKept
  <2>3. Placed(op[d], role[d], ui[d], UinOf(d), playerRoom)
    BY DEF AgreeInv
  <2>4. /\ UinOf(d) \in DOMAIN playerRoom' <=> UinOf(d) \in DOMAIN playerRoom
        /\ UinOf(d) \in DOMAIN playerRoom => playerRoom'[UinOf(d)] = playerRoom[UinOf(d)]
    BY <2>1 DEF OnlyOwn
  <2> QED BY <2>2, <2>3, <2>4 DEF Placed, Outside, Leaving, Sitting, Quiet
<1>2. ASSUME NEW d \in Conn, d # c
      PROVE  Between(op'[d], role'[d], UinOf(d), MembersNow', PlayersNow')
  BY <1>1, <1>2 DEF Between, Quiet
<1>3. \A d \in Conn : Placed(op'[d], role'[d], ui'[d], UinOf(d), playerRoom')
  BY <1>1 DEF Fits
<1>4. \A d \in Conn : Between(op'[d], role'[d], UinOf(d), MembersNow', PlayersNow')
  BY <1>2 DEF Fits
<1>5. \A d \in Conn : op'[d].pc \notin Quiet => OthersQuiet(d)'
  BY <1>1 DEF OthersQuiet
<1>6. AllQuiet' => Same(MembersNow', PlayersNow')
  BY DEF AllQuiet, Fits
<1> QED BY <1>3, <1>4, <1>5, <1>6 DEF AgreeInv, OthersKept

-----------------------------------------------------------------------------
(* Steps that leave both tables as they are.                               *)
LEMMA DsKeptFacts ==
  ASSUME DsKept
  PROVE  /\ \A r \in RoomId : PlayersNow'[r] = PlayersNow[r]
         /\ \A r \in RoomId : Live(r)' <=> Live(r)
         /\ Indexed(ownerRoom, ds) => Indexed(ownerRoom', ds')
<1>1. \A r \in RoomId : Live(r)' <=> Live(r)
  BY DEF DsKept, Live
<1>2. ASSUME NEW r \in RoomId PROVE PlayersNow'[r] = PlayersNow[r]
  <2>1. PlayersNow[r] = Players(ds, r) /\ PlayersNow'[r] = Players(ds', r)
    BY DEF PlayersNow
  <2>2. Live(r) <=> ds[r].state \notin {"NONE", "RELEASED"}
    BY ZoneAssumption DEF Live, RoomId
  <2> QED BY <2>1, <2>2 DEF Players, DsKept
<1>3. ASSUME Indexed(ownerRoom, ds) PROVE Indexed(ownerRoom', ds')
  BY <1>3 DEF Indexed, DsKept
<1> QED BY <1>1, <1>2, <1>3

(* Nobody but c is in the middle of anything, and the tables agree.        *)
Balanced(c) == OthersQuiet(c) /\ Same(MembersNow, PlayersNow)

LEMMA BusyBalanced ==
  ASSUME AgreeInv, NEW c \in Conn,
         op[c].pc \notin Quiet \cup {"create", "register", "bye", "leave"}
  PROVE  Balanced(c)
BY DEF AgreeInv, Balanced, Between

LEMMA BegunBalanced ==
  ASSUME Serial, AgreeInv, NEW c \in Conn, MayBegin
  PROVE  Balanced(c)
BY QuietBegin DEF AgreeInv, Balanced, AllQuiet, OthersQuiet

(* With nobody at a release every live room has its owner among its        *)
(* players.                                                                *)
LEMMA OwnerPlays ==
  ASSUME Owned, NEW c \in Conn, OthersQuiet(c), op[c].pc # "release",
         NEW r \in RoomId, Live(r)
  PROVE  ds[r].owner \in ds[r].players
BY DEF Owned, OthersQuiet, Quiet

LEMMA BalancedStep ==
  ASSUME Serial, AgreeInv, NEW c \in Conn, Balanced(c), op[c].pc # "release",
         OthersKept(c), playerRoom' = playerRoom, DsKept,
         op'[c].pc \notin {"create", "register", "bye", "leave", "release"},
         Placed(op'[c], role'[c], ui'[c], UinOf(c), playerRoom')
  PROVE  AgreeInv'
<1>1. OthersQuiet(c) /\ OnlyOwn(c)
  BY DEF Balanced, OnlyOwn
<1>2. Same(MembersNow', PlayersNow')
  <2>1. MembersNow' = MembersNow
    BY DEF MembersNow
  <2> QED BY <2>1, DsKeptFacts DEF Balanced, Same
<1>3. Fits(c)
  BY <1>2 DEF Fits, Between
<1>4. Owned'
  <2>1. ASSUME NEW r \in RoomId, Live(r)'
        PROVE  ds'[r].owner \in ds'[r].players
    BY <1>1, <2>1, DsKeptFacts, OwnerPlays DEF DsKept, AgreeInv
  <2> QED BY <2>1 DEF Owned
<1>5. Indexed(ownerRoom', ds')
  BY DsKeptFacts DEF AgreeInv
<1> QED BY <1>1, <1>3, <1>4, <1>5, AgreeStep

-----------------------------------------------------------------------------
AllInv == ZoneInv /\ RegOK /\ AgreeInv

(* Every member in a snapshot just taken of a room is in that room.        *)
LEMMA SnapshotFacts ==
  ASSUME RegOK', NEW r, NEW v \in DOMAIN SnapshotAfter(r)
  PROVE  v \in DOMAIN playerRoom' /\ playerRoom'[v] = r
<1>1. r \in DOMAIN rooms' /\ v \in DOMAIN rooms'[r].members
  BY DEF SnapshotAfter, R!EmptyDict
<1>2. r \in RoomId
  BY <1>1 DEF RegOK
<1>3. DOMAIN rooms'[r].members = Members(playerRoom', r)
  BY <1>1, <1>2 DEF RegOK
<1> QED BY <1>1, <1>3 DEF Members

(* sync_role_states tells the others nothing new about their room.         *)
LEMMA SyncedFacts ==
  ASSUME AllInv, NEW c \in Conn, OthersQuiet(c)
  PROVE  /\ DOMAIN Synced(c) = Conn
         /\ \A d \in Conn : /\ DOMAIN Synced(c)[d] = DOMAIN role[d]
                            /\ Synced(c)[d].handed = role[d].handed
         /\ \A d \in Conn \ {c} : Synced(c)[d].room = role[d].room
         /\ Synced(c)[c].room \in {role[c].room, op[c].room}
         /\ UinOf(c) \notin DOMAIN op[c].snap => Synced(c)[c] = role[c]
<1>0. DOMAIN role = Conn
      /\ \A d \in Conn : DOMAIN role[d] = {"room", "dsRoom", "seat", "pending", "handed"}
  BY DEF AllInv, AgreeInv, Placed
<1>1. DOMAIN Synced(c) = Conn
  BY DEF Synced
<1>2. ASSUME NEW d \in Conn
      PROVE  /\ DOMAIN Synced(c)[d] = DOMAIN role[d]
             /\ Synced(c)[d].handed = role[d].handed
             /\ Synced(c)[d].room \in {role[d].room, op[c].room}
             /\ UinOf(d) \notin DOMAIN op[c].snap => Synced(c)[d] = role[d]
             /\ ~Online(d) => Synced(c)[d] = role[d]
  BY <1>0 DEF Synced
<1>3. ASSUME NEW d \in Conn \ {c}
      PROVE  Synced(c)[d].room = role[d].room
  <2>1. CASE UinOf(d) \in DOMAIN op[c].snap /\ Online(d)
    <3>1. UinOf(d) \in DOMAIN playerRoom /\ playerRoom[UinOf(d)] = op[c].room
      BY <2>1 DEF AllInv, AgreeInv, Placed
    <3>2. op[d].pc = "idle"
      BY <2>1 DEF OthersQuiet, Quiet, Online
    <3>3. role[d].room = playerRoom[UinOf(d)]
      BY <3>1, <3>2 DEF AllInv, AgreeInv, Placed, Outside, Leaving, Sitting
    <3> QED BY <1>2, <3>1, <3>3
  <2>2. CASE ~(UinOf(d) \in DOMAIN op[c].snap /\ Online(d))
    BY <1>2, <2>2
  <2> QED BY <2>1, <2>2
<1> QED BY <1>1, <1>2, <1>3

LEMMA DsSame ==
  ASSUME UNCHANGED spawnerVars
  PROVE  DsKept
BY DEF DsKept, spawnerVars

(* Only c's own thread, role_state and screen change.                      *)
LEMMA OwnOnly ==
  ASSUME AllInv, NEW c \in Conn, NEW o, op' = [op EXCEPT ![c] = o],
         NEW rl, role' = [role EXCEPT ![c] = rl] \/ role' = role,
         NEW i, ui' = [ui EXCEPT ![c] = i] \/ ui' = ui
  PROVE  OthersKept(c) /\ op'[c] = o
         /\ (role' # role => role'[c] = rl) /\ (ui' # ui => ui'[c] = i)
BY DEF AllInv, ZoneInv, ThreadsOK, AgreeInv, OthersKept

-----------------------------------------------------------------------------
(* Steps that write role_states.                                           *)
LEMMA RoleSteps ==
  ASSUME Serial, AllInv, NEW c \in Conn,
         \/ Sync(c) \/ Close(c) \/ LeaveDone(c) \/ RoomList(c)
         \/ SendHandoff(c) \/ QuitDone(c)
  PROVE  AgreeInv'
<1>0. /\ AgreeInv /\ DOMAIN op = Conn /\ DOMAIN role = Conn /\ DOMAIN ui = Conn
      /\ DOMAIN op[c] = {"pc", "room", "snap", "at", "then"}
      /\ DOMAIN role[c] = {"room", "dsRoom", "seat", "pending", "handed"}
      /\ Placed(op[c], role[c], ui[c], UinOf(c), playerRoom)
      /\ \A r \in DOMAIN rooms : r \in RoomId
           /\ DOMAIN rooms[r].members = Members(playerRoom, r)
  BY DEF AllInv, ZoneInv, ThreadsOK, ThreadOK, AgreeInv, Placed, RegOK
<1>1. CASE Sync(c)
  <2>0. op[c].pc = "sync" /\ Sitting(op[c], ui[c])
    BY <1>1 DEF Sync, Sitting
  <2>1. Balanced(c) /\ op[c].pc # "release"
    BY <1>0, <2>0, BusyBalanced DEF Quiet
  <2>2. \/ role' = [Synced(c) EXCEPT ![c].seat = OwnSeat(c)]
        \/ role' = [Synced(c) EXCEPT ![c].handed = FALSE, ![c].room = op[c].room]
        \/ role' = Synced(c)
    BY <1>1 DEF Sync
  <2>3. /\ op' = [op EXCEPT ![c] = Idle] /\ ui' = ui /\ playerRoom' = playerRoom
        /\ UNCHANGED spawnerVars
    BY <1>1 DEF Sync, registryVars
  <2>4. OthersKept(c)
    BY <1>0, <2>1, <2>2, <2>3, SyncedFacts DEF OthersKept, Balanced
  <2>5. op[c].room = role[c].room /\ role[c].room = playerRoom[UinOf(c)] /\ ui[c] = "room"
        /\ UinOf(c) \in DOMAIN playerRoom /\ role[c].room \in RoomId \cup {0}
    BY <1>0, <2>0 DEF Placed
  <2>6. role'[c].room = role[c].room /\ DOMAIN role'[c] = DOMAIN role[c]
    BY <1>0, <2>1, <2>2, <2>5, SyncedFacts DEF Balanced
  <2>7. op'[c] = Idle /\ ui'[c] = "room"
    BY <1>0, <2>3, <2>5
  <2>8. Placed(op'[c], role'[c], ui'[c], UinOf(c), playerRoom')
    BY <1>0, <2>3, <2>5, <2>6, <2>7
    DEF Placed, Outside, Leaving, Sitting, Idle, At, R!EmptyDict, Quiet
  <2>9. op'[c].pc = "idle"
    BY <2>7 DEF Idle, At
  <2> QED BY <1>0, <2>1, <2>3, <2>4, <2>8, <2>9, DsSame, BalancedStep
<1>2. CASE Close(c)
  <2>0. op[c].pc = "close" /\ Leaving(op[c])
    BY <1>2 DEF Close, Leaving
  <2>1. Balanced(c) /\ op[c].pc # "release"
    BY <1>0, <2>0, BusyBalanced DEF Quiet
  <2>2. /\ op' = [op EXCEPT ![c] = [Idle EXCEPT !.pc = "off"]]
        /\ ui' = [ui EXCEPT ![c] = "lobby"] /\ role' = [role EXCEPT ![c] = NewRole]
        /\ playerRoom' = playerRoom /\ UNCHANGED spawnerVars
    BY <1>2 DEF Close, registryVars
  <2>3. OthersKept(c)
    BY <2>2, OwnOnly
  <2>4. op'[c] = [Idle EXCEPT !.pc = "off"] /\ ui'[c] = "lobby" /\ role'[c] = NewRole
    BY <1>0, <2>2
  <2>5. UinOf(c) \notin DOMAIN playerRoom'
    BY <1>0, <2>0, <2>2 DEF Placed
  <2>6. Placed(op'[c], role'[c], ui'[c], UinOf(c), playerRoom')
    BY <2>4, <2>5 DEF Placed, Outside, Leaving, Sitting, Idle, At, NewRole, R!EmptyDict, Quiet
  <2>7. op'[c].pc = "off"
    BY <2>4 DEF Idle, At
  <2> QED BY <1>0, <2>1, <2>2, <2>3, <2>6, <2>7, DsSame, BalancedStep
<1>3. CASE LeaveDone(c)
  <2>0. op[c].pc = "left" /\ Leaving(op[c])
    BY <1>3 DEF LeaveDone, Leaving
  <2>1. Balanced(c) /\ op[c].pc # "release"
    BY <1>0, <2>0, BusyBalanced DEF Quiet
  <2>2. /\ op' = [op EXCEPT ![c] = Idle]
        /\ ui' = [ui EXCEPT ![c] = "lobby"]
        /\ role' = [Synced(c) EXCEPT ![c].handed = FALSE, ![c].pending = TRUE]
        /\ playerRoom' = playerRoom /\ UNCHANGED spawnerVars
    BY <1>3 DEF LeaveDone, registryVars
  <2>3. OthersKept(c)
    BY <1>0, <2>1, <2>2, SyncedFacts DEF OthersKept, Balanced
  <2>4. UinOf(c) \notin DOMAIN playerRoom /\ UinOf(c) \notin DOMAIN op[c].snap
    BY <1>0, <2>0 DEF Placed
  <2>5. /\ op'[c] = Idle /\ ui'[c] = "lobby" /\ DOMAIN role'[c] = DOMAIN role[c]
        /\ role'[c].handed = FALSE /\ role'[c].room = role[c].room
    BY <1>0, <2>1, <2>2, <2>4, SyncedFacts DEF Balanced
  <2>6. Placed(op'[c], role'[c], ui'[c], UinOf(c), playerRoom')
    BY <1>0, <2>2, <2>4, <2>5
    DEF Placed, Outside, Leaving, Sitting, Idle, At, R!EmptyDict, Quiet
  <2>7. op'[c].pc = "idle"
    BY <2>5 DEF Idle, At
  <2> QED BY <1>0, <2>1, <2>2, <2>3, <2>6, <2>7, DsSame, BalancedStep
<1>4. CASE RoomList(c)
  <2>0. op[c].pc = "idle" /\ ui[c] = "lobby" /\ MayBegin
    BY <1>4 DEF RoomList, Request
  <2>1. Balanced(c)
    BY <1>0, <2>0, BegunBalanced
  <2>2. /\ op' = op /\ ui' = ui /\ role' = [role EXCEPT ![c] = NewRole]
        /\ playerRoom' = playerRoom /\ UNCHANGED spawnerVars
    BY <1>4 DEF RoomList, registryVars
  <2>3. OthersKept(c) /\ role'[c] = NewRole
    BY <1>0, <2>2 DEF OthersKept
  <2>4. Placed(op'[c], role'[c], ui'[c], UinOf(c), playerRoom')
    BY <1>0, <2>0, <2>2, <2>3 DEF Placed, Outside, Leaving, Sitting, NewRole, Quiet
  <2> QED BY <1>0, <2>0, <2>1, <2>2, <2>3, <2>4, DsSame, BalancedStep
<1>5. CASE SendHandoff(c)
  <2>0. op[c].pc = "send" /\ Sitting(op[c], ui[c])
    BY <1>5 DEF SendHandoff, Sitting
  <2>1. Balanced(c) /\ op[c].pc # "release"
    BY <1>0, <2>0, BusyBalanced DEF Quiet
  <2> DEFINE r == RoomOf(c)
             members == IF r \in DOMAIN rooms THEN DOMAIN rooms[r].members ELSE {}
  <2>2. /\ op' = [op EXCEPT ![c] = Idle] /\ ui' = ui
        /\ playerRoom' = playerRoom /\ UNCHANGED spawnerVars
        /\ role' = [d \in Conn |->
                      IF \/ d = c
                         \/ UinOf(d) \in members /\ session[UinOf(d)] = d[2] /\ Online(d)
                      THEN [role[d] EXCEPT !.handed = TRUE] ELSE role[d]]
    BY <1>5 DEF SendHandoff, registryVars
  <2>3. members \subseteq DOMAIN playerRoom
    BY <1>0 DEF Members
  <2> HIDE DEF r, members
  <2>4. \A d \in Conn : DOMAIN role[d] = {"room", "dsRoom", "seat", "pending", "handed"}
    BY DEF AllInv, AgreeInv, Placed
  <2>5. OthersKept(c)
    BY <1>0, <2>2, <2>3, <2>4 DEF OthersKept
  <2>6. op'[c] = Idle /\ role'[c].room = role[c].room /\ DOMAIN role'[c] = DOMAIN role[c]
    BY <1>0, <2>2
  <2>7. Placed(op'[c], role'[c], ui'[c], UinOf(c), playerRoom')
    BY <1>0, <2>0, <2>2, <2>6
    DEF Placed, Outside, Leaving, Sitting, Idle, At, R!EmptyDict, Quiet
  <2>8. op'[c].pc = "idle"
    BY <2>6 DEF Idle, At
  <2> QED BY <1>0, <2>1, <2>2, <2>5, <2>7, <2>8, DsSame, BalancedStep
<1>6. CASE QuitDone(c)
  <2>0. op[c].pc = "quit" /\ Sitting(op[c], ui[c])
    BY <1>6 DEF QuitDone, Sitting
  <2>1. Balanced(c) /\ op[c].pc # "release"
    BY <1>0, <2>0, BusyBalanced DEF Quiet
  <2>2. /\ op' = [op EXCEPT ![c] = Idle] /\ ui' = ui
        /\ role' = [role EXCEPT ![c] = [role[c] EXCEPT !.handed = FALSE]]
        /\ playerRoom' = playerRoom /\ UNCHANGED spawnerVars
    BY <1>0, <1>6 DEF QuitDone, registryVars
  <2>3. OthersKept(c)
    BY <2>2, OwnOnly
  <2>4. op'[c] = Idle /\ role'[c].room = role[c].room /\ DOMAIN role'[c] = DOMAIN role[c]
    BY <1>0, <2>2
  <2>5. Placed(op'[c], role'[c], ui'[c], UinOf(c), playerRoom')
    BY <1>0, <2>0, <2>2, <2>4
    DEF Placed, Outside, Leaving, Sitting, Idle, At, R!EmptyDict, Quiet
  <2>6. op'[c].pc = "idle"
    BY <2>4 DEF Idle, At
  <2> QED BY <1>0, <2>1, <2>2, <2>3, <2>5, <2>6, DsSame, BalancedStep
<1> QED BY <1>1, <1>2, <1>3, <1>4, <1>5, <1>6

-----------------------------------------------------------------------------
(* A member who sits is a player of the room in role_state.                *)
LEMMA SitterPlays ==
  ASSUME AllInv, NEW c \in Conn, Balanced(c), Sitting(op[c], ui[c])
  PROVE  /\ role[c].room \in RoomId /\ RoomOf(c) = role[c].room
         /\ role[c].room = playerRoom[UinOf(c)] /\ UinOf(c) \in DOMAIN playerRoom
         /\ Live(role[c].room) => UinOf(c) \in ds[role[c].room].players
<1>1. /\ UinOf(c) \in DOMAIN playerRoom /\ role[c].room = playerRoom[UinOf(c)]
  BY DEF AllInv, AgreeInv, Placed
<1>2. role[c].room \in RoomId /\ role[c].room # 0
  BY <1>1, ZoneAssumption DEF AllInv, RegOK, RoomId
<1>3. UinOf(c) \in MembersNow[role[c].room]
  BY <1>1, <1>2 DEF MembersNow, Members
<1>4. UinOf(c) \in PlayersNow[role[c].room]
  BY <1>2, <1>3 DEF Balanced, Same
<1>5. Live(role[c].room) => UinOf(c) \in ds[role[c].room].players
  BY <1>2, <1>4 DEF PlayersNow, Players
<1> QED BY <1>1, <1>2, <1>5 DEF RoomOf

(* Steps on an allocation that change neither its players nor its owner.   *)
LEMMA DsSteps ==
  ASSUME Serial, AllInv, NEW c \in Conn,
         BeginMatch(c) \/ ArmLobby(c) \/ SetInMatch(c) \/ QuitMatch(c) \/ EndRound(c)
  PROVE  AgreeInv'
<1>0. /\ AgreeInv /\ DOMAIN op = Conn /\ DOMAIN role = Conn /\ DOMAIN ui = Conn
      /\ DOMAIN op[c] = {"pc", "room", "snap", "at", "then"} /\ op[c].then \in Thens
      /\ DOMAIN role[c] = {"room", "dsRoom", "seat", "pending", "handed"}
      /\ Placed(op[c], role[c], ui[c], UinOf(c), playerRoom)
      /\ DOMAIN ds = RoomId
      /\ \A r \in RoomId : DOMAIN ds[r] = {"state", "owner", "players", "match"}
  BY DEF AllInv, ZoneInv, ThreadsOK, ThreadOK, AgreeInv, Placed, AllocationsOK
<1>1. CASE BeginMatch(c)
  <2>0. op[c].pc = "begin" /\ Sitting(op[c], ui[c])
    BY <1>1 DEF BeginMatch, Sitting
  <2>1. Balanced(c) /\ op[c].pc # "release"
    BY <1>0, <2>0, BusyBalanced DEF Quiet
  <2>2. op[c].at = role[c].room
    BY <1>0, <2>0 DEF Placed
  <2>3. /\ ui' = ui /\ role' = role /\ playerRoom' = playerRoom /\ ownerRoom' = ownerRoom
    BY <1>1 DEF BeginMatch, registryVars, connVars
  <2>4. op' = [op EXCEPT ![c] = [op[c] EXCEPT !.pc = "arm"]] \/ op' = [op EXCEPT ![c] = Idle]
    BY <1>0, <1>1 DEF BeginMatch
  <2>5. op'[c] = [op[c] EXCEPT !.pc = "arm"] \/ op'[c] = Idle
    BY <1>0, <2>4
  <2>6. OthersKept(c)
    BY <1>0, <2>3, <2>4 DEF OthersKept
  <2>7. DsKept
    <3>1. CASE Live(op[c].at)
      <4>1. op[c].at \in RoomId /\ UinOf(c) \in ds[op[c].at].players
        BY <2>0, <2>1, <2>2, <3>1, SitterPlays
      <4> DEFINE all == ds[op[c].at].players \cup {UinOf(c)}
                 fight == IF \/ ds[op[c].at].state \in {"RESERVED", "ROUND_ENDED"}
                             \/ ds[op[c].at].match = {}
                          THEN all ELSE ds[op[c].at].match \cup {UinOf(c)}
      <4>2. ds' = [ds EXCEPT ![op[c].at] =
                     [ds[op[c].at] EXCEPT !.players = all, !.match = fight]]
        BY <1>1, <3>1 DEF BeginMatch
      <4> HIDE DEF fight, all
      <4>3. all = ds[op[c].at].players
        BY <4>1 DEF all
      <4> QED BY <1>0, <2>3, <4>1, <4>2, <4>3 DEF DsKept
    <3>2. CASE ~Live(op[c].at)
      BY <1>1, <2>3, <3>2 DEF BeginMatch, DsKept
    <3> QED BY <3>1, <3>2
  <2>8. Placed(op'[c], role'[c], ui'[c], UinOf(c), playerRoom')
    BY <1>0, <2>0, <2>3, <2>5
    DEF Placed, Outside, Leaving, Sitting, Idle, At, R!EmptyDict, Quiet
  <2>9. op'[c].pc \in {"arm", "idle"}
    BY <1>0, <2>5 DEF Idle, At
  <2> QED BY <1>0, <2>1, <2>3, <2>6, <2>7, <2>8, <2>9, BalancedStep
<1>2. CASE ArmLobby(c)
  <2>0. op[c].pc = "arm" /\ Sitting(op[c], ui[c])
    BY <1>2 DEF ArmLobby, Sitting
  <2>1. Balanced(c) /\ op[c].pc # "release"
    BY <1>0, <2>0, BusyBalanced DEF Quiet
  <2>3. /\ ui' = ui /\ role' = role /\ playerRoom' = playerRoom /\ ownerRoom' = ownerRoom
    BY <1>2 DEF ArmLobby, registryVars, connVars
  <2>4. op' = [op EXCEPT ![c] = [op[c] EXCEPT !.pc = "send"]] \/ op' = [op EXCEPT ![c] = Idle]
    BY <1>0, <1>2 DEF ArmLobby
  <2>5. op'[c] = [op[c] EXCEPT !.pc = "send"] \/ op'[c] = Idle
    BY <1>0, <2>4
  <2>6. OthersKept(c)
    BY <1>0, <2>3, <2>4 DEF OthersKept
  <2>7. DsKept
    <3>1. CASE UNCHANGED ds
      BY <2>3, <3>1 DEF DsKept
    <3>2. CASE /\ ds[op[c].at].state \in {"RESERVED", "ROUND_ENDED"}
               /\ \E s \in {"STARTING", "FAILED"} :
                     ds' = [ds EXCEPT ![op[c].at] = [ds[op[c].at] EXCEPT !.state = s]]
      BY <1>0, <2>3, <3>2 DEF DsKept
    <3> QED BY <1>2, <3>1, <3>2 DEF ArmLobby
  <2>8. Placed(op'[c], role'[c], ui'[c], UinOf(c), playerRoom')
    BY <1>0, <2>0, <2>3, <2>5
    DEF Placed, Outside, Leaving, Sitting, Idle, At, R!EmptyDict, Quiet
  <2>9. op'[c].pc \in {"send", "idle"}
    BY <1>0, <2>5 DEF Idle, At
  <2> QED BY <1>0, <2>1, <2>3, <2>6, <2>7, <2>8, <2>9, BalancedStep
<1>3. CASE SetInMatch(c)
  <2>0. op[c].pc = "idle" /\ MayBegin /\ role[c].handed
    BY <1>3 DEF SetInMatch, Request
  <2>1. Balanced(c) /\ Sitting(op[c], ui[c])
    BY <1>0, <2>0, BegunBalanced DEF Placed, Outside, Leaving, Sitting
  <2>2. op' = op /\ ui' = ui /\ role' = role /\ playerRoom' = playerRoom /\ ownerRoom' = ownerRoom
    BY <1>3 DEF SetInMatch, registryVars
  <2>3. DsKept
    <3> DEFINE r == role[c].room
    <3>3. r \in RoomId /\ UinOf(c) \in ds[r].players
      BY <1>3, <2>1, SitterPlays DEF SetInMatch
    <3>4. ds' = [ds EXCEPT ![r].players = @ \cup {UinOf(c)}, ![r].match = @ \cup {UinOf(c)}]
      BY <1>3, <2>1, SitterPlays DEF SetInMatch
    <3>5. DOMAIN ds = RoomId /\ DOMAIN ds[r] = {"state", "owner", "players", "match"}
      BY <1>0, <3>3
    <3> HIDE DEF r
    <3>6. \A q \in RoomId : q # r => ds'[q] = ds[q]
      BY <3>4, <3>5
    <3>7. /\ ds'[r].players = ds[r].players \cup {UinOf(c)}
          /\ ds'[r].state = ds[r].state /\ ds'[r].owner = ds[r].owner
      BY <3>3, <3>4, <3>5
    <3>8. ds'[r].players = ds[r].players
      BY <3>3, <3>7
    <3> QED BY <2>2, <3>6, <3>7, <3>8 DEF DsKept
  <2>4. OthersKept(c)
    BY <1>0, <2>2 DEF OthersKept
  <2> QED BY <1>0, <2>0, <2>1, <2>2, <2>3, <2>4, BalancedStep
<1>4. CASE QuitMatch(c)
  <2>0. op[c].pc = "idle" /\ MayBegin /\ role[c].handed
    BY <1>4 DEF QuitMatch, Request
  <2>1. Balanced(c) /\ Sitting(op[c], ui[c]) /\ ui[c] = "room"
    BY <1>0, <2>0, BegunBalanced DEF Placed, Outside, Leaving, Sitting
  <2>2. ui' = ui /\ role' = role /\ playerRoom' = playerRoom /\ ownerRoom' = ownerRoom
    BY <1>4 DEF QuitMatch, registryVars
  <2>3. \/ op' = [op EXCEPT ![c] = Calling("end", RoomOf(c), "show")]
        \/ op' = [op EXCEPT ![c] = Calling("quit", RoomOf(c), "idle")]
    BY <1>4 DEF QuitMatch
  <2>4. \/ op'[c] = Calling("end", RoomOf(c), "show")
        \/ op'[c] = Calling("quit", RoomOf(c), "idle")
    BY <1>0, <2>3
  <2>5. DsKept
    <3>1. CASE UNCHANGED ds
      BY <2>2, <3>1 DEF DsKept
    <3>2. CASE \E m : ds' = [ds EXCEPT ![RoomOf(c)] = [ds[RoomOf(c)] EXCEPT !.match = m]]
      BY <1>0, <2>2, <3>2 DEF DsKept
    <3> QED BY <1>4, <3>1, <3>2 DEF QuitMatch
  <2>6. OthersKept(c)
    BY <1>0, <2>2, <2>3 DEF OthersKept
  <2>7. Placed(op'[c], role'[c], ui'[c], UinOf(c), playerRoom')
    BY <1>0, <2>1, <2>2, <2>4
    DEF Placed, Outside, Leaving, Sitting, Calling, At, R!EmptyDict, Quiet
  <2>8. op'[c].pc \in {"end", "quit"}
    BY <2>4 DEF Calling, At
  <2> QED BY <1>0, <2>0, <2>1, <2>2, <2>5, <2>6, <2>7, <2>8, BalancedStep
<1>5. CASE EndRound(c)
  <2>0. op[c].pc = "end"
    BY <1>5 DEF EndRound
  <2>1. Balanced(c) /\ op[c].pc # "release"
    BY <1>0, <2>0, BusyBalanced DEF Quiet
  <2>2. ui' = ui /\ role' = role /\ playerRoom' = playerRoom /\ ownerRoom' = ownerRoom
    BY <1>5 DEF EndRound, registryVars, connVars
  <2>3. op' = [op EXCEPT ![c] = [op[c] EXCEPT !.pc = op[c].then]]
    BY <1>0, <1>5 DEF EndRound
  <2>4. op'[c] = [op[c] EXCEPT !.pc = op[c].then]
    BY <1>0, <2>3
  <2>5. DsKept
    <3>1. CASE UNCHANGED ds
      BY <2>2, <3>1 DEF DsKept
    <3>2. CASE /\ Live(op[c].at)
               /\ ds' = [ds EXCEPT ![op[c].at] =
                           [ds[op[c].at] EXCEPT !.state = "ROUND_ENDED", !.match = {}]]
      BY <1>0, <2>2, <3>2 DEF DsKept, Live
    <3> QED BY <1>5, <3>1, <3>2 DEF EndRound
  <2>6. OthersKept(c)
    BY <1>0, <2>2, <2>3 DEF OthersKept
  <2>7. op[c].then \in {"left", "close", "settings", "show"}
    BY <1>0, <2>0 DEF Placed, Outside, Leaving, Sitting
  <2>8. Placed(op'[c], role'[c], ui'[c], UinOf(c), playerRoom')
    BY <1>0, <2>0, <2>2, <2>4, <2>7 DEF Placed, Outside, Leaving, Sitting, Quiet
  <2>9. op'[c].pc \in {"left", "close", "settings", "show"}
    BY <1>0, <2>4, <2>7
  <2> QED BY <1>0, <2>0, <2>1, <2>2, <2>5, <2>6, <2>8, <2>9, BalancedStep
<1> QED BY <1>1, <1>2, <1>3, <1>4, <1>5

-----------------------------------------------------------------------------
(* A thread that sits goes on to a sync of its own room.                   *)
LEMMA ToSync ==
  ASSUME AllInv, RegOK', NEW c \in Conn, Sitting(op[c], ui[c]),
         playerRoom' = playerRoom, role' = role, ui' = ui,
         NEW r, r = role[c].room, NEW t \in {"idle", "moved", "settled"},
         op' = [op EXCEPT ![c] = At("sync", r, SnapshotAfter(r), t)]
  PROVE  Placed(op'[c], role'[c], ui'[c], UinOf(c), playerRoom') /\ op'[c].pc = "sync"
<1>1. op'[c] = At("sync", r, SnapshotAfter(r), t)
  BY DEF AllInv, ZoneInv, ThreadsOK
<1>2. /\ op'[c].pc = "sync" /\ op'[c].room = r /\ op'[c].then = t
      /\ op'[c].snap = SnapshotAfter(r)
  BY <1>1 DEF At
<1>3. Placed(op[c], role[c], ui[c], UinOf(c), playerRoom)
  BY DEF AllInv, AgreeInv
<1>4. \A v \in DOMAIN op'[c].snap : v \in DOMAIN playerRoom' /\ playerRoom'[v] = op'[c].room
  BY <1>2, SnapshotFacts
<1> QED BY <1>2, <1>3, <1>4 DEF Placed, Outside, Leaving, Sitting, Quiet

(* Registry calls that move no player: a flag, a seat, a room shown or     *)
(* hidden.                                                                 *)
LEMMA RegistryCalls ==
  ASSUME Serial, AllInv, RegOK', NEW c \in Conn,
         \/ \E b \in BOOLEAN : SetReady(c, b)
         \/ \E k \in {0, 1} : ChangeCamp(c, k)
         \/ UpdateRegistry(c) \/ StartMatch(c) \/ ShowRoom(c)
  PROVE  AgreeInv'
<1>0. /\ AgreeInv /\ DOMAIN op = Conn /\ DOMAIN role = Conn /\ DOMAIN ui = Conn
      /\ DOMAIN op[c] = {"pc", "room", "snap", "at", "then"}
      /\ Placed(op[c], role[c], ui[c], UinOf(c), playerRoom)
  BY DEF AllInv, ZoneInv, ThreadsOK, ThreadOK, AgreeInv
<1>1. ASSUME op[c].pc = "idle", MayBegin, ui[c] = "room", NEW o,
             op' = [op EXCEPT ![c] = o], role' = role, ui' = ui, playerRoom' = playerRoom,
             UNCHANGED spawnerVars, o.pc \in {"sync", "handoff"},
             Placed(op'[c], role'[c], ui'[c], UinOf(c), playerRoom')
      PROVE  AgreeInv'
  <2>1. Balanced(c)
    BY <1>0, <1>1, BegunBalanced
  <2>2. OthersKept(c) /\ op'[c] = o
    BY <1>0, <1>1 DEF OthersKept
  <2> QED BY <1>0, <1>1, <2>1, <2>2, DsSame, BalancedStep
<1>2. ASSUME op[c].pc = "idle", ui[c] = "room"
      PROVE  Sitting(op[c], ui[c]) /\ role[c].room = playerRoom[UinOf(c)]
  BY <1>0, <1>2 DEF Placed, Sitting
<1>3. ASSUME NEW b \in BOOLEAN, SetReady(c, b) PROVE AgreeInv'
  <2>1. op[c].pc = "idle" /\ ui[c] = "room" /\ MayBegin
    BY <1>3 DEF SetReady, Request
  <2>2. /\ op' = [op EXCEPT ![c] = At("sync", playerRoom[UinOf(c)],
                                     SnapshotAfter(playerRoom[UinOf(c)]), "idle")]
        /\ role' = role /\ ui' = ui /\ UNCHANGED spawnerVars /\ playerRoom' = playerRoom
    BY <1>3 DEF SetReady, R!SetReady
  <2>3. Placed(op'[c], role'[c], ui'[c], UinOf(c), playerRoom') /\ op'[c].pc = "sync"
    BY <1>2, <2>1, <2>2, ToSync
  <2> QED BY <1>0, <1>1, <2>1, <2>2, <2>3
<1>4. ASSUME NEW k \in {0, 1}, ChangeCamp(c, k) PROVE AgreeInv'
  <2>1. op[c].pc = "idle" /\ ui[c] = "room" /\ MayBegin
    BY <1>4 DEF ChangeCamp, Request
  <2>2. /\ op' = [op EXCEPT ![c] = At("sync", playerRoom[UinOf(c)],
                                     SnapshotAfter(playerRoom[UinOf(c)]), "moved")]
        /\ role' = role /\ ui' = ui /\ UNCHANGED spawnerVars /\ playerRoom' = playerRoom
    <3>1. R!MoveMember(UinOf(c), SeatIn(k, role[c].seat), k)
      BY <1>4 DEF ChangeCamp
    <3>2. playerRoom' = playerRoom
      BY <3>1 DEF R!MoveMember
    <3> QED BY <1>4, <3>2 DEF ChangeCamp
  <2>3. Placed(op'[c], role'[c], ui'[c], UinOf(c), playerRoom') /\ op'[c].pc = "sync"
    BY <1>2, <2>1, <2>2, ToSync
  <2> QED BY <1>0, <1>1, <2>1, <2>2, <2>3
<1>5. CASE StartMatch(c)
  <2>1. op[c].pc = "idle" /\ ui[c] = "room" /\ MayBegin
    BY <1>5 DEF StartMatch, Request
  <2>2. /\ op' = [op EXCEPT ![c] = Calling("handoff", 0, "idle")]
        /\ role' = role /\ ui' = ui /\ UNCHANGED spawnerVars /\ playerRoom' = playerRoom
    BY <1>5 DEF StartMatch, R!SetStarted, registryVars
  <2>3. op'[c] = Calling("handoff", 0, "idle")
    BY <1>0, <2>2
  <2>4. Placed(op'[c], role'[c], ui'[c], UinOf(c), playerRoom') /\ op'[c].pc = "handoff"
    BY <1>0, <1>2, <2>1, <2>2, <2>3
    DEF Placed, Outside, Leaving, Sitting, Calling, At, R!EmptyDict, Quiet
  <2> QED BY <1>0, <1>1, <2>1, <2>2, <2>3, <2>4
<1>6. CASE UpdateRegistry(c)
  <2>0. op[c].pc = "update" /\ Sitting(op[c], ui[c]) /\ op[c].at = role[c].room
    BY <1>0, <1>6 DEF UpdateRegistry, Sitting, Placed
  <2>1. Balanced(c) /\ op[c].pc # "release"
    BY <1>0, <2>0, BusyBalanced DEF Quiet
  <2>2. role' = role /\ ui' = ui /\ UNCHANGED spawnerVars /\ playerRoom' = playerRoom
    BY <1>6 DEF UpdateRegistry, R!SetStarted, registryVars, connVars
  <2>3. CASE op' = [op EXCEPT ![c] = At("sync", op[c].at, SnapshotAfter(op[c].at), "settled")]
    <3>1. Placed(op'[c], role'[c], ui'[c], UinOf(c), playerRoom') /\ op'[c].pc = "sync"
      BY <2>0, <2>2, <2>3, ToSync
    <3>2. OthersKept(c)
      BY <1>0, <2>2, <2>3 DEF OthersKept
    <3> QED BY <1>0, <2>0, <2>1, <2>2, <3>1, <3>2, DsSame, BalancedStep
  <2>4. CASE op' = [op EXCEPT ![c] = Idle]
    <3>1. op'[c] = Idle /\ OthersKept(c)
      BY <1>0, <2>2, <2>4 DEF OthersKept
    <3>2. Placed(op'[c], role'[c], ui'[c], UinOf(c), playerRoom') /\ op'[c].pc = "idle"
      BY <1>0, <2>0, <2>2, <3>1
      DEF Placed, Outside, Leaving, Sitting, Idle, At, R!EmptyDict, Quiet
    <3> QED BY <1>0, <2>0, <2>1, <2>2, <3>1, <3>2, DsSame, BalancedStep
  <2> QED BY <1>6, <2>3, <2>4 DEF UpdateRegistry
<1>7. CASE ShowRoom(c)
  <2>0. op[c].pc = "show" /\ Sitting(op[c], ui[c])
    BY <1>7 DEF ShowRoom, Sitting
  <2>1. Balanced(c) /\ op[c].pc # "release"
    BY <1>0, <2>0, BusyBalanced DEF Quiet
  <2>2. role' = role /\ ui' = ui /\ UNCHANGED spawnerVars /\ playerRoom' = playerRoom
    BY <1>7 DEF ShowRoom, R!SetStarted, registryVars, connVars
  <2>3. op' = [op EXCEPT ![c] = [op[c] EXCEPT !.pc = "quit"]] \/ op' = [op EXCEPT ![c] = Idle]
    BY <1>0, <1>7 DEF ShowRoom
  <2>4. op'[c] = [op[c] EXCEPT !.pc = "quit"] \/ op'[c] = Idle
    BY <1>0, <2>3
  <2>5. OthersKept(c)
    BY <1>0, <2>2, <2>3 DEF OthersKept
  <2>6. Placed(op'[c], role'[c], ui'[c], UinOf(c), playerRoom')
    BY <1>0, <2>0, <2>2, <2>4
    DEF Placed, Outside, Leaving, Sitting, Idle, At, R!EmptyDict, Quiet
  <2>7. op'[c].pc \in {"quit", "idle"}
    BY <1>0, <2>4 DEF Idle, At
  <2> QED BY <1>0, <2>0, <2>1, <2>2, <2>5, <2>6, <2>7, DsSame, BalancedStep
<1> QED BY <1>3, <1>4, <1>5, <1>6, <1>7

(* Steps that read: the settings requests, and the start of a hand-off,    *)
(* which reserves nothing for a player who sits.                           *)
LEMMA ReadingSteps ==
  ASSUME Serial, AllInv, NEW c \in Conn,
         \/ \E r \in RoomId : Settings(c, r)
         \/ UpdateSettings(c) \/ StartRoomAlloc(c) \/ Handoff(c)
  PROVE  AgreeInv'
<1>0. /\ AgreeInv /\ DOMAIN op = Conn /\ DOMAIN role = Conn /\ DOMAIN ui = Conn
      /\ DOMAIN op[c] = {"pc", "room", "snap", "at", "then"}
      /\ Placed(op[c], role[c], ui[c], UinOf(c), playerRoom)
  BY DEF AllInv, ZoneInv, ThreadsOK, ThreadOK, AgreeInv
<1>1. ASSUME Balanced(c), Sitting(op[c], ui[c]), NEW o, op' = [op EXCEPT ![c] = o],
             role' = role, ui' = ui, playerRoom' = playerRoom, UNCHANGED spawnerVars,
             DOMAIN o.snap = {}, o.pc = "idle" => o.then = "idle", Sitting(o, ui[c]),
             o.then = "settings" \/ o.pc \in {"begin", "settings", "update"} => o.at = role[c].room,
             o.pc # "sync"
      PROVE  AgreeInv'
  <2>1. OthersKept(c) /\ op'[c] = o
    BY <1>0, <1>1 DEF OthersKept
  <2>2. op[c].pc # "release" /\ o.pc \notin {"create", "register", "bye", "leave", "release"}
        /\ o.pc # "off"
    BY <1>1 DEF Sitting
  <2>3. Placed(op'[c], role'[c], ui'[c], UinOf(c), playerRoom')
    BY <1>0, <1>1, <2>1, <2>2 DEF Placed, Outside, Leaving, Sitting, Quiet
  <2> QED BY <1>0, <1>1, <2>1, <2>2, <2>3, DsSame, BalancedStep
<1>2. ASSUME op[c].pc = "idle", ui[c] # "lobby", MayBegin
      PROVE  Balanced(c) /\ Sitting(op[c], ui[c]) /\ ui[c] = "room"
  BY <1>0, <1>2, BegunBalanced DEF Placed, Outside, Leaving, Sitting
<1>3. ASSUME NEW r \in RoomId, Settings(c, r) PROVE AgreeInv'
  <2>1. Balanced(c) /\ Sitting(op[c], ui[c])
    BY <1>2, <1>3 DEF Settings, Request
  <2>2. r = role[c].room
    BY <1>3, <2>1, SitterPlays, ZoneAssumption DEF Settings, RoomId
  <2>3. PICK pc \in {"end", "settings"} : op' = [op EXCEPT ![c] = Calling(pc, r, "settings")]
    BY <1>3 DEF Settings
  <2>4. role' = role /\ ui' = ui /\ UNCHANGED spawnerVars /\ playerRoom' = playerRoom
    BY <1>3 DEF Settings, registryVars
  <2> DEFINE o == Calling(pc, r, "settings")
  <2>5. /\ o.pc = pc /\ o.at = r /\ o.then = "settings" /\ DOMAIN o.snap = {}
        /\ Sitting(o, ui[c])
    BY DEF Calling, At, R!EmptyDict, Sitting
  <2> HIDE DEF o
  <2> QED BY <1>1, <2>1, <2>2, <2>3, <2>4, <2>5 DEF o
<1>4. CASE UpdateSettings(c)
  <2>0. op[c].pc = "settings" /\ Sitting(op[c], ui[c]) /\ op[c].at = role[c].room
    BY <1>0, <1>4 DEF UpdateSettings, Sitting, Placed
  <2>1. Balanced(c) /\ op[c].pc # "release"
    BY <1>0, <2>0, BusyBalanced DEF Quiet
  <2>2. ui' = ui /\ role' = role /\ playerRoom' = playerRoom /\ UNCHANGED spawnerVars
    BY <1>4 DEF UpdateSettings, registryVars, connVars
  <2>3. op' = [op EXCEPT ![c] = [op[c] EXCEPT !.pc = "update"]] \/ op' = [op EXCEPT ![c] = Idle]
    BY <1>0, <1>4 DEF UpdateSettings
  <2>4. op'[c] = [op[c] EXCEPT !.pc = "update"] \/ op'[c] = Idle
    BY <1>0, <2>3
  <2>5. OthersKept(c)
    BY <1>0, <2>2, <2>3 DEF OthersKept
  <2>6. Placed(op'[c], role'[c], ui'[c], UinOf(c), playerRoom')
    BY <1>0, <2>0, <2>2, <2>4
    DEF Placed, Outside, Leaving, Sitting, Idle, At, R!EmptyDict, Quiet
  <2>7. op'[c].pc \in {"update", "idle"}
    BY <1>0, <2>4 DEF Idle, At
  <2> QED BY <1>0, <2>0, <2>1, <2>2, <2>5, <2>6, <2>7, DsSame, BalancedStep
<1>5. CASE StartRoomAlloc(c)
  <2>1. Balanced(c) /\ Sitting(op[c], ui[c]) /\ ui[c] = "room"
    BY <1>2, <1>5 DEF StartRoomAlloc, Request, Serial
  <2>2. /\ op' = [op EXCEPT ![c] = Calling("handoff", 0, "idle")]
        /\ role' = role /\ ui' = ui /\ UNCHANGED spawnerVars /\ playerRoom' = playerRoom
    BY <1>5 DEF StartRoomAlloc, registryVars
  <2> DEFINE o == Calling("handoff", 0, "idle")
  <2>3. o.pc = "handoff" /\ o.then = "idle" /\ DOMAIN o.snap = {} /\ Sitting(o, ui[c])
    BY <2>1 DEF Calling, At, R!EmptyDict, Sitting
  <2> HIDE DEF o
  <2> QED BY <1>1, <2>1, <2>2, <2>3 DEF o
<1>6. CASE Handoff(c)
  <2>0. op[c].pc = "handoff" /\ Sitting(op[c], ui[c])
    BY <1>6 DEF Handoff, Sitting
  <2>1. Balanced(c)
    BY <1>0, <2>0, BusyBalanced DEF Quiet
  <2>2. RoomOf(c) = role[c].room /\ RoomOf(c) # 0 /\ ui[c] = "room"
    BY <1>0, <2>0, <2>1, SitterPlays, ZoneAssumption DEF RoomId, Placed
  <2>3. /\ \/ op' = [op EXCEPT ![c] = Idle]
           \/ op' = [op EXCEPT ![c] = Calling("begin", role[c].room, "idle")]
        /\ role' = role /\ ui' = ui /\ UNCHANGED spawnerVars /\ playerRoom' = playerRoom
    BY <1>6, <2>2 DEF Handoff, registryVars
  <2>4. CASE op' = [op EXCEPT ![c] = Idle]
    <3>1. /\ Idle.pc = "idle" /\ Idle.then = "idle" /\ DOMAIN Idle.snap = {}
          /\ Sitting(Idle, ui[c])
      BY <2>2 DEF Idle, At, R!EmptyDict, Sitting
    <3> QED BY <1>1, <2>0, <2>1, <2>3, <2>4, <3>1
  <2>5. CASE op' = [op EXCEPT ![c] = Calling("begin", role[c].room, "idle")]
    <3> DEFINE o == Calling("begin", role[c].room, "idle")
    <3>1. /\ o.pc = "begin" /\ o.then = "idle" /\ DOMAIN o.snap = {} /\ Sitting(o, ui[c])
          /\ o.at = role[c].room
      BY DEF Calling, At, R!EmptyDict, Sitting
    <3> HIDE DEF o
    <3> QED BY <1>1, <2>0, <2>1, <2>3, <2>5, <3>1 DEF o
  <2> QED BY <2>3, <2>4, <2>5
<1> QED BY <1>3, <1>4, <1>5, <1>6

-----------------------------------------------------------------------------
(* The tables, room by room.                                               *)
LEMMA TablesAre ==
  ASSUME NEW r \in RoomId
  PROVE  /\ PlayersNow[r] = (IF Live(r) THEN ds[r].players ELSE {})
         /\ PlayersNow'[r] = (IF Live(r)' THEN ds'[r].players ELSE {})
         /\ MembersNow[r] = {u \in DOMAIN playerRoom : playerRoom[u] = r}
         /\ MembersNow'[r] = {u \in DOMAIN playerRoom' : playerRoom'[u] = r}
         /\ Live(r) <=> ds[r].state \notin {"NONE", "RELEASED"}
         /\ Live(r)' <=> ds'[r].state \notin {"NONE", "RELEASED"}
<1>1. r # 0
  BY ZoneAssumption DEF RoomId
<1>2. /\ Live(r) <=> ds[r].state \notin {"NONE", "RELEASED"}
      /\ Live(r)' <=> ds'[r].state \notin {"NONE", "RELEASED"}
  BY <1>1 DEF Live
<1>3. /\ PlayersNow[r] = Players(ds, r) /\ PlayersNow'[r] = Players(ds', r)
      /\ MembersNow[r] = Members(playerRoom, r) /\ MembersNow'[r] = Members(playerRoom', r)
  BY DEF PlayersNow, MembersNow
<1> QED BY <1>2, <1>3 DEF Players, Members

(* A player comes into a room of the registry.                             *)
LEMMA ComingIn ==
  ASSUME NEW u, NEW r \in RoomId, u \notin DOMAIN playerRoom,
         playerRoom' = R!With(playerRoom, u, r)
  PROVE  /\ MembersNow'[r] = MembersNow[r] \cup {u} /\ u \notin MembersNow[r]
         /\ \A q \in RoomId \ {r} : MembersNow'[q] = MembersNow[q]
         /\ u \in DOMAIN playerRoom' /\ playerRoom'[u] = r
         /\ \A v : v # u => /\ v \in DOMAIN playerRoom' <=> v \in DOMAIN playerRoom
                            /\ v \in DOMAIN playerRoom => playerRoom'[v] = playerRoom[v]
<1>1. /\ u \in DOMAIN playerRoom' /\ playerRoom'[u] = r
      /\ \A v : v # u => /\ v \in DOMAIN playerRoom' <=> v \in DOMAIN playerRoom
                         /\ v \in DOMAIN playerRoom => playerRoom'[v] = playerRoom[v]
  BY DEF R!With
<1>2. \A q \in RoomId : /\ MembersNow[q] = {v \in DOMAIN playerRoom : playerRoom[v] = q}
                        /\ MembersNow'[q] = {v \in DOMAIN playerRoom' : playerRoom'[v] = q}
  BY TablesAre
<1>3. MembersNow'[r] = MembersNow[r] \cup {u} /\ u \notin MembersNow[r]
  BY <1>1, <1>2
<1>4. ASSUME NEW q \in RoomId \ {r} PROVE MembersNow'[q] = MembersNow[q]
  <2>1. \A v : v \in MembersNow'[q] <=> v \in MembersNow[q]
    BY <1>1, <1>2
  <2>2. /\ MembersNow[q] = {v \in DOMAIN playerRoom : playerRoom[v] = q}
        /\ MembersNow'[q] = {v \in DOMAIN playerRoom' : playerRoom'[v] = q}
    BY <1>2
  <2> QED BY <2>1, <2>2
<1> QED BY <1>1, <1>3, <1>4

(* A player is taken out of the registry, or was in no room of it.         *)
LEMMA GoingOut ==
  ASSUME NEW u, LeaveRegistry(u)
  PROVE  /\ \A q \in RoomId : MembersNow'[q] = MembersNow[q] \ {u}
         /\ u \notin DOMAIN playerRoom'
         /\ \A v : v # u => /\ v \in DOMAIN playerRoom' <=> v \in DOMAIN playerRoom
                            /\ v \in DOMAIN playerRoom => playerRoom'[v] = playerRoom[v]
<1>1. /\ u \notin DOMAIN playerRoom'
      /\ \A v : v # u => /\ v \in DOMAIN playerRoom' <=> v \in DOMAIN playerRoom
                         /\ v \in DOMAIN playerRoom => playerRoom'[v] = playerRoom[v]
  BY DEF LeaveRegistry, R!LeaveRoom, R!Without, registryVars
<1>2. ASSUME NEW q \in RoomId PROVE MembersNow'[q] = MembersNow[q] \ {u}
  <2>1. /\ MembersNow[q] = {v \in DOMAIN playerRoom : playerRoom[v] = q}
        /\ MembersNow'[q] = {v \in DOMAIN playerRoom' : playerRoom'[v] = q}
    BY TablesAre
  <2> QED BY <1>1, <2>1
<1> QED BY <1>1, <1>2

(* The spawner's tables stay, and their part of the invariant with them.   *)
LEMMA SpawnerKept ==
  ASSUME AgreeInv, NEW c \in Conn, OthersQuiet(c), op[c].pc # "release",
         UNCHANGED spawnerVars
  PROVE  /\ Owned' /\ Indexed(ownerRoom', ds')
         /\ \A r \in RoomId : PlayersNow'[r] = PlayersNow[r]
<1>1. /\ \A r \in RoomId : PlayersNow'[r] = PlayersNow[r]
      /\ \A r \in RoomId : Live(r)' <=> Live(r)
      /\ Indexed(ownerRoom', ds')
  BY DsSame, DsKeptFacts DEF AgreeInv
<1>2. ASSUME NEW r \in RoomId, Live(r)'
      PROVE  ds'[r].owner \in ds'[r].players
  BY <1>1, <1>2, OwnerPlays DEF AgreeInv, spawnerVars
<1> QED BY <1>1, <1>2 DEF Owned

-----------------------------------------------------------------------------
(* A10A, as a player outside every room: there is no live allocation to    *)
(* get back, so a room is reserved for this player alone.                  *)
LEMMA Reserve ==
  ASSUME Serial, AllInv, NEW c \in Conn, NEW r \in RoomId, CreateReserve(c, r)
  PROVE  AgreeInv'
<1> DEFINE u == UinOf(c)
<1>0. /\ AgreeInv /\ DOMAIN op = Conn /\ DOMAIN role = Conn /\ DOMAIN ui = Conn
      /\ DOMAIN role[c] = {"room", "dsRoom", "seat", "pending", "handed"}
      /\ Placed(op[c], role[c], ui[c], u, playerRoom)
      /\ DOMAIN ds = RoomId /\ u \in Uin
  BY ZoneFacts DEF AllInv, ZoneInv, ThreadsOK, AgreeInv, Placed, AllocationsOK
<1>1. op[c].pc = "idle" /\ MayBegin /\ ui[c] = "lobby" /\ ReserveLobby(u, r)
  BY DEF CreateReserve, Request
<1>2. Balanced(c) /\ OthersQuiet(c) /\ op[c].pc # "release"
  BY <1>0, <1>1, BegunBalanced DEF Balanced
<1>3. u \notin DOMAIN playerRoom /\ ~role[c].handed
  BY <1>0, <1>1 DEF Placed, Outside
<1>4. \A q \in RoomId : MembersNow[q] = PlayersNow[q]
  BY <1>2 DEF Balanced, Same
<1>5. ~OwnsLive(u)
  <2> SUFFICES ASSUME OwnsLive(u) PROVE FALSE
    OBVIOUS
  <2>1. Live(ownerRoom[u]) /\ ownerRoom[u] # 0
    BY DEF OwnsLive, Live
  <2>2. ownerRoom[u] \in RoomId /\ ds[ownerRoom[u]].owner = u
    BY <1>0, <2>1 DEF AgreeInv, Indexed, Live
  <2>3. u \in ds[ownerRoom[u]].players
    BY <1>0, <1>2, <2>1, <2>2, OwnerPlays DEF AgreeInv
  <2> QED BY <1>3, <1>4, <2>1, <2>2, <2>3, TablesAre
<1> DEFINE a == [state |-> "RESERVED", owner |-> u, players |-> {u}, match |-> {}]
<1>6. /\ ds[r].state = "NONE" /\ ds' = [ds EXCEPT ![r] = a]
      /\ ownerRoom' = [ownerRoom EXCEPT ![u] = r]
  BY <1>1, <1>5 DEF ReserveLobby
<1>7. a.state = "RESERVED" /\ a.owner = u /\ a.players = {u}
  OBVIOUS
<1> HIDE DEF a
<1>8. ds'[r] = a /\ \A q \in RoomId \ {r} : ds'[q] = ds[q]
  BY <1>0, <1>6
<1>9. /\ op' = [op EXCEPT ![c] = Calling("create", r, "idle")] /\ ui' = ui
      /\ playerRoom' = playerRoom
      /\ role' = [role EXCEPT ![c] = [role[c] EXCEPT !.dsRoom = r]]
  BY <1>0 DEF CreateReserve, registryVars
<1>10. op'[c] = Calling("create", r, "idle") /\ role'[c] = [role[c] EXCEPT !.dsRoom = r]
  BY <1>0, <1>9
<1>11. OthersKept(c)
  BY <1>9, OwnOnly
<1>12. OnlyOwn(c)
  BY <1>9 DEF OnlyOwn
<1>13. /\ MembersNow[r] = {} /\ PlayersNow'[r] = {u}
       /\ \A q \in RoomId : MembersNow'[q] = MembersNow[q]
       /\ \A q \in RoomId \ {r} : PlayersNow'[q] = PlayersNow[q]
  <2>1. PlayersNow[r] = {} /\ PlayersNow'[r] = {u}
    BY <1>6, <1>7, <1>8, TablesAre
  <2>2. \A q \in RoomId \ {r} : PlayersNow'[q] = PlayersNow[q]
    BY <1>8, TablesAre
  <2>3. MembersNow' = MembersNow
    BY <1>9 DEF MembersNow
  <2> QED BY <1>4, <2>1, <2>2, <2>3
<1>14. Fits(c)
  <2>1. Placed(op'[c], role'[c], ui'[c], u, playerRoom')
    BY <1>0, <1>1, <1>3, <1>9, <1>10
    DEF Placed, Outside, Leaving, Sitting, Calling, At, R!EmptyDict, Quiet
  <2>2. Between(op'[c], role'[c], u, MembersNow', PlayersNow')
    BY <1>4, <1>10, <1>13 DEF Between, Calling, At, Quiet
  <2>3. op'[c].pc \notin Quiet
    BY <1>10 DEF Calling, At, Quiet
  <2> QED BY <2>1, <2>2, <2>3 DEF Fits
<1>15. Owned'
  <2> SUFFICES ASSUME NEW q \in RoomId, Live(q)' PROVE ds'[q].owner \in ds'[q].players
    BY DEF Owned
  <2>1. CASE q = r
    BY <1>7, <1>8, <2>1
  <2>2. CASE q # r
    <3>1. Live(q)
      BY <1>8, <2>2, TablesAre
    <3> QED BY <1>0, <1>2, <1>8, <2>2, <3>1, OwnerPlays DEF AgreeInv
  <2> QED BY <2>1, <2>2
<1>16. Indexed(ownerRoom', ds')
  <2>1. Indexed(ownerRoom, ds)
    BY <1>0 DEF AgreeInv
  <2>2. DOMAIN ownerRoom' = Uin /\ ownerRoom'[u] = r
        /\ \A v \in Uin : v # u => ownerRoom'[v] = ownerRoom[v]
    BY <1>0, <1>6, <2>1 DEF Indexed
  <2>3. ASSUME NEW v \in Uin, v # u, ownerRoom'[v] # 0
        PROVE  /\ ownerRoom'[v] \in RoomId /\ ds'[ownerRoom'[v]].state # "NONE"
               /\ ds'[ownerRoom'[v]].state # "RELEASED" => ds'[ownerRoom'[v]].owner = v
    BY <1>6, <1>8, <2>1, <2>2, <2>3 DEF Indexed
  <2>4. ds'[r].state = "RESERVED" /\ ds'[r].owner = u
    BY <1>7, <1>8
  <2> QED BY <2>2, <2>3, <2>4 DEF Indexed
<1> QED BY <1>0, <1>2, <1>11, <1>12, <1>14, <1>15, <1>16, AgreeStep

-----------------------------------------------------------------------------
(* The other half of A10A: the registry gets the room with its creator.    *)
LEMMA Created ==
  ASSUME Serial, AllInv, RegOK', NEW c \in Conn, CreateRoom(c) \/ CreateRefused(c)
  PROVE  AgreeInv'
<1> DEFINE u == UinOf(c)
           r == op[c].at
<1>0. /\ AgreeInv /\ DOMAIN op = Conn /\ DOMAIN role = Conn /\ DOMAIN ui = Conn
      /\ DOMAIN role[c] = {"room", "dsRoom", "seat", "pending", "handed"}
      /\ Placed(op[c], role[c], ui[c], u, playerRoom)
      /\ Between(op[c], role[c], u, MembersNow, PlayersNow)
  BY DEF AllInv, ZoneInv, ThreadsOK, AgreeInv, Placed
<1>1. op[c].pc = "create"
  BY DEF CreateRoom, CreateRefused
<1>2. OthersQuiet(c)
  BY <1>0, <1>1 DEF AgreeInv, Quiet
<1>3. u \notin DOMAIN playerRoom /\ ~role[c].handed
  BY <1>0, <1>1 DEF Placed, Outside
<1>4. /\ r \in RoomId /\ MembersNow[r] = {} /\ PlayersNow[r] = {u}
      /\ \A q \in RoomId \ {r} : MembersNow[q] = PlayersNow[q]
  BY <1>0, <1>1 DEF Between
<1>5. r \notin DOMAIN rooms
  BY <1>4 DEF AllInv, RegOK, MembersNow
<1>6. CreateRoom(c)
  BY <1>3, <1>5 DEF CreateRefused
<1> HIDE DEF r
<1>7. playerRoom' = R!With(playerRoom, u, r)
  BY <1>6 DEF CreateRoom, R!CreateRoom, r
<1>8. /\ op' = [op EXCEPT ![c] = At("sync", r, SnapshotAfter(r), "idle")]
      /\ ui' = [ui EXCEPT ![c] = "room"] /\ UNCHANGED spawnerVars
      /\ role' = [role EXCEPT ![c].room = r, ![c].dsRoom = r,
                              ![c].pending = FALSE, ![c].seat = 0]
  BY <1>6 DEF CreateRoom, r
<1>9. /\ op'[c] = At("sync", r, SnapshotAfter(r), "idle") /\ ui'[c] = "room"
      /\ role'[c].room = r /\ DOMAIN role'[c] = DOMAIN role[c]
  BY <1>0, <1>8
<1>10. OthersKept(c)
  BY <1>0, <1>8 DEF OthersKept
<1>11. OnlyOwn(c)
  BY <1>3, <1>4, <1>7, ComingIn DEF OnlyOwn
<1>12. Owned' /\ Indexed(ownerRoom', ds') /\ \A q \in RoomId : PlayersNow'[q] = PlayersNow[q]
  BY <1>0, <1>1, <1>2, <1>8, SpawnerKept
<1>13. /\ MembersNow'[r] = MembersNow[r] \cup {u}
       /\ \A q \in RoomId \ {r} : MembersNow'[q] = MembersNow[q]
       /\ u \in DOMAIN playerRoom' /\ playerRoom'[u] = r
  BY <1>3, <1>4, <1>7, ComingIn
<1>14. Same(MembersNow', PlayersNow')
  <2> SUFFICES ASSUME NEW q \in RoomId PROVE MembersNow'[q] = PlayersNow'[q]
    BY DEF Same
  <2>1. CASE q = r
    BY <1>4, <1>12, <1>13, <2>1
  <2>2. CASE q # r
    BY <1>4, <1>12, <1>13, <2>2
  <2> QED BY <2>1, <2>2
<1>15. Placed(op'[c], role'[c], ui'[c], u, playerRoom')
  <2>1. /\ op'[c].pc = "sync" /\ op'[c].room = r /\ op'[c].then = "idle"
        /\ op'[c].snap = SnapshotAfter(r)
    BY <1>9 DEF At
  <2>2. \A v \in DOMAIN op'[c].snap : v \in DOMAIN playerRoom' /\ playerRoom'[v] = op'[c].room
    BY <2>1, SnapshotFacts
  <2> QED BY <1>0, <1>4, <1>9, <1>13, <2>1, <2>2 DEF Placed, Outside, Leaving, Sitting, Quiet
<1>16. Fits(c)
  BY <1>9, <1>14, <1>15 DEF Fits, Between, At
<1> QED BY <1>0, <1>2, <1>10, <1>11, <1>12, <1>16, AgreeStep

(* A104, the registry's half: the player is a member and not yet a player. *)
LEMMA Joined ==
  ASSUME Serial, AllInv, RegOK', NEW c \in Conn, NEW r \in RoomId, JoinRegistry(c, r)
  PROVE  AgreeInv'
<1> DEFINE u == UinOf(c)
<1>0. /\ AgreeInv /\ DOMAIN op = Conn /\ DOMAIN role = Conn /\ DOMAIN ui = Conn
      /\ Placed(op[c], role[c], ui[c], u, playerRoom)
  BY DEF AllInv, ZoneInv, ThreadsOK, AgreeInv
<1>1. op[c].pc = "idle" /\ MayBegin /\ ui[c] = "lobby"
  BY DEF JoinRegistry, Request
<1>2. Balanced(c) /\ OthersQuiet(c) /\ op[c].pc # "release"
  BY <1>0, <1>1, BegunBalanced DEF Balanced
<1>3. u \notin DOMAIN playerRoom /\ ~role[c].handed
  BY <1>0, <1>1 DEF Placed, Outside
<1>4. \A q \in RoomId : MembersNow[q] = PlayersNow[q]
  BY <1>2 DEF Balanced, Same
<1>5. R!JoinRoom(u, r, TRUE, FALSE)
  BY <1>3 DEF JoinRegistry, R!InRoom
<1>6. playerRoom' = R!With(playerRoom, u, r) /\ r \in DOMAIN rooms
  BY <1>5 DEF R!JoinRoom
<1>7. MembersNow[r] # {}
  BY <1>6 DEF AllInv, RegOK, MembersNow
<1>8. /\ op' = [op EXCEPT ![c] = At("register", r, SnapshotAfter(r), "idle")]
      /\ role' = role /\ ui' = ui /\ UNCHANGED spawnerVars
  BY DEF JoinRegistry
<1>9. op'[c] = At("register", r, SnapshotAfter(r), "idle")
  BY <1>0, <1>8
<1>10. OthersKept(c)
  BY <1>0, <1>8 DEF OthersKept
<1>11. OnlyOwn(c)
  BY <1>3, <1>6, ComingIn DEF OnlyOwn
<1>12. Owned' /\ Indexed(ownerRoom', ds') /\ \A q \in RoomId : PlayersNow'[q] = PlayersNow[q]
  BY <1>0, <1>2, <1>8, SpawnerKept
<1>13. /\ MembersNow'[r] = MembersNow[r] \cup {u} /\ u \notin MembersNow[r]
       /\ \A q \in RoomId \ {r} : MembersNow'[q] = MembersNow[q]
       /\ u \in DOMAIN playerRoom' /\ playerRoom'[u] = r
  BY <1>3, <1>6, ComingIn
<1>14. /\ op'[c].pc = "register" /\ op'[c].room = r /\ op'[c].then = "idle"
       /\ op'[c].snap = SnapshotAfter(r)
  BY <1>9 DEF At
<1>15. \A v \in DOMAIN op'[c].snap : v \in DOMAIN playerRoom' /\ playerRoom'[v] = r
  BY <1>14, SnapshotFacts
<1>16. Placed(op'[c], role'[c], ui'[c], u, playerRoom')
  BY <1>0, <1>3, <1>8, <1>13, <1>14, <1>15 DEF Placed, Outside, Leaving, Sitting, Quiet
<1>17. Between(op'[c], role'[c], u, MembersNow', PlayersNow')
  <2>1. PlayersNow'[r] = MembersNow'[r] \ {u} /\ PlayersNow'[r] # {}
    BY <1>4, <1>7, <1>12, <1>13
  <2>2. \A q \in RoomId \ {r} : MembersNow'[q] = PlayersNow'[q]
    BY <1>4, <1>12, <1>13
  <2> QED BY <1>14, <2>1, <2>2 DEF Between
<1>18. Fits(c)
  BY <1>14, <1>16, <1>17 DEF Fits, Quiet
<1> QED BY <1>0, <1>2, <1>10, <1>11, <1>12, <1>18, AgreeStep

(* A104, the spawner's half, which finds the room live, for it has players. *)
LEMMA Registered ==
  ASSUME Serial, AllInv, NEW c \in Conn, JoinRegister(c) \/ JoinHalf(c)
  PROVE  AgreeInv'
<1> DEFINE u == UinOf(c)
           r == op[c].room
<1>0. /\ AgreeInv /\ DOMAIN op = Conn /\ DOMAIN role = Conn /\ DOMAIN ui = Conn
      /\ DOMAIN op[c] = {"pc", "room", "snap", "at", "then"}
      /\ DOMAIN role[c] = {"room", "dsRoom", "seat", "pending", "handed"}
      /\ Placed(op[c], role[c], ui[c], u, playerRoom)
      /\ Between(op[c], role[c], u, MembersNow, PlayersNow)
      /\ DOMAIN ds = RoomId
      /\ \A q \in RoomId : DOMAIN ds[q] = {"state", "owner", "players", "match"}
  BY DEF AllInv, ZoneInv, ThreadsOK, ThreadOK, AgreeInv, Placed, AllocationsOK
<1>1. op[c].pc = "register"
  BY DEF JoinRegister, JoinHalf
<1>2. OthersQuiet(c)
  BY <1>0, <1>1 DEF AgreeInv, Quiet
<1>3. ~role[c].handed /\ op[c].then = "idle" /\ u \in DOMAIN playerRoom /\ playerRoom[u] = r
  BY <1>0, <1>1 DEF Placed
<1>4. /\ r \in RoomId /\ PlayersNow[r] = MembersNow[r] \ {u} /\ PlayersNow[r] # {}
      /\ \A q \in RoomId \ {r} : MembersNow[q] = PlayersNow[q]
  BY <1>0, <1>1 DEF Between
<1>5. Live(r)
  BY <1>4, TablesAre
<1>6. JoinRegister(c)
  BY <1>5 DEF JoinHalf
<1> HIDE DEF r
<1>7. /\ op' = [op EXCEPT ![c].pc = "sync"] /\ ui' = [ui EXCEPT ![c] = "room"]
      /\ playerRoom' = playerRoom /\ ownerRoom' = ownerRoom
      /\ ds' = [ds EXCEPT ![r].players = @ \cup {u}]
  BY <1>6 DEF JoinRegister, registryVars, r
<1>8. role' = [role EXCEPT ![c] = [role[c] EXCEPT !.room = r, !.dsRoom = r,
                                     !.pending = FALSE, !.seat = OwnSeat(c)]]
  BY <1>0, <1>6 DEF JoinRegister, r
<1>9. /\ op'[c] = [op[c] EXCEPT !.pc = "sync"] /\ ui'[c] = "room" /\ role'[c].room = r
      /\ DOMAIN role'[c] = DOMAIN role[c]
  BY <1>0, <1>7, <1>8
<1>10. /\ op'[c].pc = "sync" /\ op'[c].room = r /\ op'[c].snap = op[c].snap
       /\ op'[c].then = "idle"
  BY <1>0, <1>3, <1>9 DEF r
<1>11. OthersKept(c)
  BY <1>0, <1>7, <1>8 DEF OthersKept
<1>12. OnlyOwn(c)
  BY <1>7 DEF OnlyOwn
<1>13. /\ \A q \in RoomId \ {r} : ds'[q] = ds[q]
       /\ ds'[r].players = ds[r].players \cup {u}
       /\ ds'[r].state = ds[r].state /\ ds'[r].owner = ds[r].owner
  BY <1>0, <1>4, <1>7
<1>14. Same(MembersNow', PlayersNow')
  <2>1. MembersNow' = MembersNow
    BY <1>7 DEF MembersNow
  <2>2. u \in MembersNow[r]
    BY <1>3, <1>4, TablesAre
  <2>3. PlayersNow'[r] = PlayersNow[r] \cup {u}
    BY <1>4, <1>5, <1>13, TablesAre
  <2>4. \A q \in RoomId \ {r} : PlayersNow'[q] = PlayersNow[q]
    BY <1>13, TablesAre
  <2>5. MembersNow'[r] = PlayersNow'[r]
    BY <1>4, <2>1, <2>2, <2>3
  <2> QED BY <1>4, <2>1, <2>4, <2>5 DEF Same
<1>15. Placed(op'[c], role'[c], ui'[c], u, playerRoom')
  BY <1>0, <1>3, <1>4, <1>7, <1>9, <1>10 DEF Placed, Outside, Leaving, Sitting, Quiet, r
<1>16. Fits(c)
  BY <1>10, <1>14, <1>15 DEF Fits, Between
<1>17. Owned'
  <2> SUFFICES ASSUME NEW q \in RoomId, Live(q)' PROVE ds'[q].owner \in ds'[q].players
    BY DEF Owned
  <2>1. Live(q)
    BY <1>13, TablesAre
  <2>2. ds[q].owner \in ds[q].players
    BY <1>0, <1>1, <1>2, <2>1, OwnerPlays DEF AgreeInv
  <2> QED BY <1>13, <2>2
<1>18. Indexed(ownerRoom', ds')
  <2>1. \A q \in RoomId : ds'[q].state = ds[q].state /\ ds'[q].owner = ds[q].owner
    BY <1>13
  <2> QED BY <1>0, <1>7, <2>1 DEF AgreeInv, Indexed
<1> QED BY <1>0, <1>2, <1>11, <1>12, <1>16, <1>17, <1>18, AgreeStep

-----------------------------------------------------------------------------
(* A leave and a closed connection: the registry's half.                   *)
LEMMA Departed ==
  ASSUME Serial, AllInv, RegOK', NEW c \in Conn, Leave(c) \/ Disconnect(c)
  PROVE  AgreeInv'
<1> DEFINE u == UinOf(c)
           q == RoomLeft(u)
<1>0. /\ AgreeInv /\ DOMAIN op = Conn /\ DOMAIN role = Conn /\ DOMAIN ui = Conn
      /\ Placed(op[c], role[c], ui[c], u, playerRoom)
  BY DEF AllInv, ZoneInv, ThreadsOK, AgreeInv
<1>1. op[c].pc = "idle" /\ MayBegin /\ LeaveRegistry(u)
  BY DEF Leave, Disconnect, Request
<1>2. Balanced(c) /\ OthersQuiet(c) /\ op[c].pc # "release"
  BY <1>0, <1>1, BegunBalanced DEF Balanced
<1>3. \A r \in RoomId : MembersNow[r] = PlayersNow[r]
  BY <1>2 DEF Balanced, Same
<1>4. \A r \in RoomId : u \in MembersNow[r] => r = role[c].room
  <2>1. u \in DOMAIN playerRoom => role[c].room = playerRoom[u]
    BY <1>0, <1>1 DEF Placed, Outside, Leaving, Sitting
  <2> QED BY <2>1, TablesAre
<1>5. role' = role /\ ui' = ui /\ UNCHANGED spawnerVars
  BY DEF Leave, Disconnect, connVars
<1>6. /\ \A r \in RoomId : MembersNow'[r] = MembersNow[r] \ {u}
      /\ u \notin DOMAIN playerRoom' /\ OnlyOwn(c)
  BY <1>1, GoingOut DEF OnlyOwn
<1>7. Owned' /\ Indexed(ownerRoom', ds') /\ \A r \in RoomId : PlayersNow'[r] = PlayersNow[r]
  BY <1>0, <1>2, <1>5, SpawnerKept
<1>8. ASSUME NEW o, op' = [op EXCEPT ![c] = o], o.room = q, o.snap = SnapshotAfter(q),
             \/ o.pc = "bye" /\ o.then = "close"
             \/ /\ o.pc = "leave" /\ o.then = "left"
                /\ o.at = role[c].room /\ role[c].room \in RoomId
      PROVE  AgreeInv'
  <2>1. op'[c] = o /\ OthersKept(c)
    BY <1>0, <1>5, <1>8 DEF OthersKept
  <2>2. \A v \in DOMAIN o.snap : v \in DOMAIN playerRoom' /\ playerRoom'[v] = o.room
    BY <1>8, SnapshotFacts
  <2>3. Placed(op'[c], role'[c], ui'[c], u, playerRoom')
    BY <1>0, <1>5, <1>6, <1>8, <2>1, <2>2 DEF Placed, Outside, Leaving, Sitting, Quiet
  <2>4. Between(op'[c], role'[c], u, MembersNow', PlayersNow')
    BY <1>3, <1>4, <1>5, <1>6, <1>7, <1>8, <2>1 DEF Between
  <2>5. Fits(c)
    BY <1>8, <2>1, <2>3, <2>4 DEF Fits, Quiet
  <2> QED BY <1>0, <1>2, <1>6, <1>7, <2>1, <2>5, AgreeStep
<1>9. CASE Leave(c)
  <2>1. ui[c] = "room" /\ op' = [op EXCEPT ![c] =
          [At("leave", q, SnapshotAfter(q), "left") EXCEPT !.at = role[c].room]]
    BY <1>9 DEF Leave
  <2>2. role[c].room \in RoomId
    <3>1. Sitting(op[c], ui[c])
      BY <1>1, <2>1 DEF Sitting
    <3> QED BY <1>2, <3>1, SitterPlays
  <2> DEFINE o == [At("leave", q, SnapshotAfter(q), "left") EXCEPT !.at = role[c].room]
  <2>3. /\ o.room = q /\ o.snap = SnapshotAfter(q) /\ o.pc = "leave" /\ o.then = "left"
        /\ o.at = role[c].room
    BY DEF At
  <2> HIDE DEF o
  <2> QED BY <1>8, <2>1, <2>2, <2>3 DEF o
<1>10. CASE Disconnect(c)
  <2>1. op' = [op EXCEPT ![c] = At("bye", q, SnapshotAfter(q), "close")]
    BY <1>10 DEF Disconnect
  <2> DEFINE o == At("bye", q, SnapshotAfter(q), "close")
  <2>2. o.room = q /\ o.snap = SnapshotAfter(q) /\ o.pc = "bye" /\ o.then = "close"
    BY DEF At
  <2> HIDE DEF o
  <2> QED BY <1>8, <2>1, <2>2 DEF o
<1> QED BY <1>9, <1>10

(* The closed connection syncs the others and goes on to the spawner, if   *)
(* role_state has a room: without one nobody lists its account.            *)
LEMMA ByeSynced ==
  ASSUME Serial, AllInv, NEW c \in Conn, DisconnectSync(c)
  PROVE  AgreeInv'
<1> DEFINE u == UinOf(c)
<1>0. /\ AgreeInv /\ DOMAIN op = Conn /\ DOMAIN role = Conn /\ DOMAIN ui = Conn
      /\ DOMAIN op[c] = {"pc", "room", "snap", "at", "then"}
      /\ Placed(op[c], role[c], ui[c], u, playerRoom)
      /\ Between(op[c], role[c], u, MembersNow, PlayersNow)
      /\ op[c].pc = "bye" => op[c].then = "close"
  BY DEF AllInv, ZoneInv, ThreadsOK, ThreadOK, AgreeInv, Placed
<1>1. op[c].pc = "bye" /\ op[c].then = "close"
  BY <1>0 DEF DisconnectSync
<1>2. OthersQuiet(c)
  BY <1>0, <1>1 DEF AgreeInv, Quiet
<1>3. /\ role' = Synced(c) /\ ui' = ui /\ playerRoom' = playerRoom /\ UNCHANGED spawnerVars
      /\ op' = [op EXCEPT ![c] = [op[c] EXCEPT
                  !.pc = IF role'[c].room # 0 THEN "leave" ELSE "close",
                  !.at = role'[c].room]]
  BY <1>0 DEF DisconnectSync, registryVars
<1>4. u \notin DOMAIN playerRoom /\ u \notin DOMAIN op[c].snap
  BY <1>0, <1>1 DEF Placed, Leaving
<1>5. role'[c] = role[c] /\ OthersKept(c)
  BY <1>0, <1>2, <1>3, <1>4, SyncedFacts DEF OthersKept
<1>6. /\ op'[c].pc = IF role[c].room # 0 THEN "leave" ELSE "close"
      /\ op'[c].at = role[c].room /\ op'[c].then = "close"
      /\ op'[c].room = op[c].room /\ op'[c].snap = op[c].snap
  BY <1>0, <1>1, <1>3, <1>5
<1>7. role[c].room \in RoomId \cup {0} /\ 0 \notin RoomId
  BY <1>0, ZoneAssumption DEF Placed, RoomId
<1>8. OnlyOwn(c) /\ MembersNow' = MembersNow
  BY <1>3 DEF OnlyOwn, MembersNow
<1>9. Owned' /\ Indexed(ownerRoom', ds') /\ \A r \in RoomId : PlayersNow'[r] = PlayersNow[r]
  BY <1>0, <1>1, <1>2, <1>3, SpawnerKept
<1>10. \A r \in RoomId : /\ MembersNow[r] = PlayersNow[r] \ {u}
                         /\ u \in PlayersNow[r] => r = role[c].room
  BY <1>0, <1>1 DEF Between
<1>11. Placed(op'[c], role'[c], ui'[c], u, playerRoom')
  BY <1>0, <1>3, <1>4, <1>5, <1>6, <1>7 DEF Placed, Outside, Leaving, Sitting, Quiet
<1>12. Between(op'[c], role'[c], u, MembersNow', PlayersNow')
  <2>1. CASE role[c].room # 0
    BY <1>5, <1>6, <1>8, <1>9, <1>10, <2>1 DEF Between
  <2>2. CASE role[c].room = 0
    <3>1. ASSUME NEW r \in RoomId PROVE MembersNow[r] = PlayersNow[r]
      <4>1. u \notin PlayersNow[r]
        BY <1>7, <1>10, <2>2
      <4>2. MembersNow[r] = PlayersNow[r] \ {u}
        BY <1>10
      <4> QED BY <4>1, <4>2
    <3>2. Same(MembersNow', PlayersNow')
      BY <1>8, <1>9, <3>1 DEF Same
    <3> QED BY <1>6, <2>2, <3>2 DEF Between
  <2> QED BY <2>1, <2>2
<1>13. Fits(c)
  BY <1>6, <1>11, <1>12 DEF Fits, Quiet
<1> QED BY <1>0, <1>2, <1>5, <1>8, <1>9, <1>13, AgreeStep

-----------------------------------------------------------------------------
(* The heir the spawner picks is one of the players that stay.             *)
LEMMA HeirStays ==
  ASSUME NEW S \in SUBSET Nat, S # {}
  PROVE  Heir(S) \in S
<1>1. Registry!RegistryAssumption
  BY ZoneAssumption DEF Registry!RegistryAssumption, Registry!Byte
<1>2. \E m \in S : \A k \in S : m <= k
  BY <1>1, Registry!LeastNatural
<1> QED BY <1>2 DEF Heir

(* The spawner's half of a leave: the player is taken out of the room the  *)
(* registry has already taken it out of, and an owner who leaves hands on. *)
LEMMA Removed ==
  ASSUME Serial, AllInv, NEW c \in Conn, RemoveRoomPlayer(c)
  PROVE  AgreeInv'
<1> DEFINE u == UinOf(c)
           r == op[c].at
           rest == ds[r].players \ {u}
           passOn == ds[r].owner = u /\ rest # {}
<1>0. /\ AgreeInv /\ DOMAIN op = Conn /\ DOMAIN role = Conn /\ DOMAIN ui = Conn
      /\ DOMAIN op[c] = {"pc", "room", "snap", "at", "then"}
      /\ Placed(op[c], role[c], ui[c], u, playerRoom)
      /\ Between(op[c], role[c], u, MembersNow, PlayersNow)
      /\ DOMAIN ds = RoomId
      /\ \A q \in RoomId : DOMAIN ds[q] = {"state", "owner", "players", "match"}
      /\ u \in Uin
  BY ZoneFacts DEF AllInv, ZoneInv, ThreadsOK, ThreadOK, AgreeInv, Placed, AllocationsOK
<1>1. op[c].pc = "leave"
  BY DEF RemoveRoomPlayer
<1>2. OthersQuiet(c)
  BY <1>0, <1>1 DEF AgreeInv, Quiet
<1>3. /\ r \in RoomId /\ r # 0 /\ op[c].then \in {"left", "close"}
      /\ u \notin DOMAIN playerRoom
  BY <1>0, <1>1, ZoneAssumption DEF Placed, Leaving, RoomId
<1>4. \A q \in RoomId : /\ MembersNow[q] = PlayersNow[q] \ {u}
                        /\ u \in PlayersNow[q] => q = r
  BY <1>0, <1>1 DEF Between
<1>5. role' = role /\ ui' = ui /\ playerRoom' = playerRoom
  BY DEF RemoveRoomPlayer, registryVars, connVars
<1>6. OnlyOwn(c) /\ MembersNow' = MembersNow
  BY <1>5 DEF OnlyOwn, MembersNow
<1>7. ASSUME NEW pc \in {"release", "end", "left", "close"},
             op' = [op EXCEPT ![c] = [op[c] EXCEPT !.pc = pc, !.at = r]],
             Same(MembersNow', PlayersNow'), pc = "release" => PlayersNow'[r] = {},
             Owned', Indexed(ownerRoom', ds')
      PROVE  AgreeInv'
  <2>1. op'[c] = [op[c] EXCEPT !.pc = pc, !.at = r] /\ OthersKept(c)
    BY <1>0, <1>5, <1>7 DEF OthersKept
  <2>2. /\ op'[c].pc = pc /\ op'[c].at = r /\ op'[c].then = op[c].then
        /\ op'[c].room = op[c].room /\ op'[c].snap = op[c].snap
    BY <1>0, <2>1
  <2>3. Placed(op'[c], role'[c], ui'[c], u, playerRoom')
    BY <1>0, <1>3, <1>5, <2>2 DEF Placed, Outside, Leaving, Sitting, Quiet
  <2>4. Fits(c)
    BY <1>3, <1>7, <2>2, <2>3 DEF Fits, Between, Quiet
  <2> QED BY <1>0, <1>2, <1>6, <1>7, <2>1, <2>4, AgreeStep
<1>8. CASE ~Live(r)
  <2>1. op' = [op EXCEPT ![c].pc = op[c].then] /\ UNCHANGED spawnerVars
    BY <1>3, <1>8 DEF RemoveRoomPlayer
  <2>2. op' = [op EXCEPT ![c] = [op[c] EXCEPT !.pc = op[c].then, !.at = r]]
    <3>1. [op[c] EXCEPT !.pc = op[c].then, !.at = r] = [op[c] EXCEPT !.pc = op[c].then]
      BY <1>0
    <3> QED BY <1>0, <2>1, <3>1
  <2>3. Owned' /\ Indexed(ownerRoom', ds') /\ \A q \in RoomId : PlayersNow'[q] = PlayersNow[q]
    BY <1>0, <1>1, <1>2, <2>1, SpawnerKept
  <2>4. ASSUME NEW q \in RoomId PROVE MembersNow'[q] = PlayersNow'[q]
    <3>1. PlayersNow[r] = {}
      BY <1>3, <1>8, TablesAre
    <3>2. u \notin PlayersNow[q]
      BY <1>4, <3>1
    <3>3. MembersNow[q] = PlayersNow[q] \ {u}
      BY <1>4
    <3> QED BY <1>6, <2>3, <3>2, <3>3
  <2>5. Same(MembersNow', PlayersNow')
    BY <2>4 DEF Same
  <2> QED BY <1>3, <1>7, <2>2, <2>3, <2>5
<1>9. CASE Live(r)
  <2> DEFINE owner == IF passOn THEN Heir(rest) ELSE ds[r].owner
             a == [ds[r] EXCEPT !.players = rest, !.match = ds[r].match \ {u},
                                !.owner = owner]
  <2>1. /\ ds' = [ds EXCEPT ![r] = a]
        /\ ownerRoom' = IF passOn THEN [ownerRoom EXCEPT ![u] = 0, ![Heir(rest)] = r]
                        ELSE ownerRoom
        /\ op' = [op EXCEPT ![c].pc = AfterRemoval(c, r), ![c].at = r]
    BY <1>3, <1>9 DEF RemoveRoomPlayer
  <2>2. /\ a.players = rest /\ a.owner = owner /\ a.state = ds[r].state
    BY <1>0, <1>3
  <2>3. rest # {} => Heir(rest) \in rest
    <3>1. rest = MembersNow[r]
      BY <1>3, <1>4, <1>9, TablesAre
    <3>2. MembersNow[r] \subseteq Nat
      BY <1>3, TablesAre, ZoneAssumption DEF AllInv, RegOK
    <3> QED BY <3>1, <3>2, HeirStays
  <2>4. ds[r].owner \in ds[r].players
    BY <1>0, <1>1, <1>2, <1>3, <1>9, OwnerPlays DEF AgreeInv
  <2>5. rest # {} => owner \in rest
    BY <2>3, <2>4
  <2>6. ds'[r] = a /\ \A q \in RoomId \ {r} : ds'[q] = ds[q]
    BY <1>0, <1>3, <2>1
  <2> DEFINE pc == AfterRemoval(c, r)
  <2>7. pc \in {"release", "end", "left", "close"} /\ (pc = "release" <=> rest = {})
    BY <1>3 DEF AfterRemoval
  <2>8. Heir(rest) # u \/ rest = {}
    BY <2>3
  <2> HIDE DEF a, owner, pc
  <2>9. op' = [op EXCEPT ![c] = [op[c] EXCEPT !.pc = pc, !.at = r]]
    BY <1>0, <2>1 DEF pc
  <2>10. PlayersNow'[r] = rest /\ \A q \in RoomId \ {r} : PlayersNow'[q] = PlayersNow[q]
    <3>1. PlayersNow'[r] = rest
      BY <1>3, <1>9, <2>2, <2>6, TablesAre
    <3> QED BY <2>6, <3>1, TablesAre
  <2>11. Same(MembersNow', PlayersNow')
    <3> SUFFICES ASSUME NEW q \in RoomId PROVE MembersNow[q] = PlayersNow'[q]
      BY <1>6 DEF Same
    <3>1. CASE q = r
      BY <1>3, <1>4, <1>9, <2>10, <3>1, TablesAre
    <3>2. CASE q # r
      <4>1. u \notin PlayersNow[q] /\ MembersNow[q] = PlayersNow[q] \ {u}
        BY <1>4, <3>2
      <4> QED BY <2>10, <3>2, <4>1
    <3> QED BY <3>1, <3>2
  <2>12. Owned'
    <3> SUFFICES ASSUME NEW q \in RoomId, Live(q)'
                 PROVE  \/ ds'[q].owner \in ds'[q].players
                        \/ op'[c].pc = "release" /\ op'[c].at = q
      BY DEF Owned
    <3>1. CASE q # r
      <4>1. Live(q)
        BY <2>6, <3>1, TablesAre
      <4>2. ds[q].owner \in ds[q].players
        BY <1>0, <1>1, <1>2, <4>1, OwnerPlays DEF AgreeInv
      <4> QED BY <2>6, <3>1, <4>2
    <3>2. CASE q = r /\ rest # {}
      BY <2>2, <2>5, <2>6, <3>2
    <3>3. CASE q = r /\ rest = {}
      <4>1. op'[c].pc = pc /\ op'[c].at = r
        BY <1>0, <2>9
      <4> QED BY <2>7, <3>3, <4>1
    <3> QED BY <3>1, <3>2, <3>3
  <2>13. Indexed(ownerRoom', ds')
    <3>1. Indexed(ownerRoom, ds)
      BY <1>0 DEF AgreeInv
    <3>2. \A q \in RoomId : ds'[q].state = ds[q].state
      BY <2>2, <2>6
    <3>3. CASE ~passOn
      <4>1. \A q \in RoomId : ds'[q].owner = ds[q].owner
        BY <2>2, <2>6, <3>3 DEF owner
      <4> QED BY <2>1, <3>1, <3>2, <3>3, <4>1, ZenonT(60) DEF Indexed
    <3>4. CASE passOn
      <4> DEFINE h == Heir(rest)
      <4>1. h # u /\ owner = h /\ ds[r].owner = u
        BY <2>8, <3>4 DEF owner
      <4>2. ownerRoom' = [ownerRoom EXCEPT ![u] = 0, ![h] = r]
        BY <2>1, <3>4
      <4> HIDE DEF h
      <4>3. /\ DOMAIN ownerRoom' = Uin
            /\ \A v \in Uin : ownerRoom'[v] = IF v = h THEN r ELSE IF v = u THEN 0 ELSE ownerRoom[v]
        BY <3>1, <4>1, <4>2 DEF Indexed
      <4>4. ds[r].state \notin {"NONE", "RELEASED"} /\ ds'[r].owner = h
        BY <1>3, <1>9, <2>2, <2>6, <4>1, TablesAre
      <4>5. ASSUME NEW v \in Uin, ownerRoom'[v] # 0
            PROVE  /\ ownerRoom'[v] \in RoomId /\ ds'[ownerRoom'[v]].state # "NONE"
                   /\ ds'[ownerRoom'[v]].state # "RELEASED" => ds'[ownerRoom'[v]].owner = v
        <5>1. CASE v = h
          BY <1>3, <3>2, <4>3, <4>4, <5>1
        <5>2. CASE v # h
          <6>1. v # u /\ ownerRoom'[v] = ownerRoom[v]
            BY <4>3, <4>5, <5>2
          <6>2. /\ ownerRoom[v] \in RoomId /\ ds[ownerRoom[v]].state # "NONE"
                /\ ds[ownerRoom[v]].state # "RELEASED" => ds[ownerRoom[v]].owner = v
            BY <3>1, <4>5, <6>1 DEF Indexed
          <6>3. ownerRoom[v] # r
            BY <4>1, <4>4, <6>1, <6>2
          <6> QED BY <2>6, <3>2, <6>1, <6>2, <6>3
        <5> QED BY <5>1, <5>2
      <4> QED BY <4>3, <4>5 DEF Indexed
    <3> QED BY <3>3, <3>4
  <2> QED BY <1>7, <2>7, <2>9, <2>10, <2>11, <2>12, <2>13
<1> QED BY <1>8, <1>9

(* The last player's release ends an allocation nobody plays in.           *)
LEMMA Released ==
  ASSUME Serial, AllInv, NEW c \in Conn, ReleaseLobby(c)
  PROVE  AgreeInv'
<1> DEFINE u == UinOf(c)
<1>0. /\ AgreeInv /\ DOMAIN op = Conn /\ DOMAIN role = Conn /\ DOMAIN ui = Conn
      /\ DOMAIN op[c] = {"pc", "room", "snap", "at", "then"}
      /\ Placed(op[c], role[c], ui[c], u, playerRoom)
      /\ Between(op[c], role[c], u, MembersNow, PlayersNow)
      /\ DOMAIN ds = RoomId
  BY DEF AllInv, ZoneInv, ThreadsOK, ThreadOK, AgreeInv, Placed, AllocationsOK
<1>1. op[c].pc = "release"
  BY DEF ReleaseLobby
<1>2. OthersQuiet(c) /\ Same(MembersNow, PlayersNow)
  BY <1>0, <1>1, BusyBalanced DEF Quiet, Balanced
<1>3. PICK r \in RoomId : /\ r = op[c].at /\ op[c].then \in {"left", "close"}
                         /\ u \notin DOMAIN playerRoom /\ PlayersNow[r] = {}
  BY <1>0, <1>1 DEF Placed, Leaving, Between
<1>4. /\ role' = role /\ ui' = ui /\ playerRoom' = playerRoom
      /\ op' = [op EXCEPT ![c] = [op[c] EXCEPT !.pc = op[c].then]]
  BY <1>0 DEF ReleaseLobby, registryVars, connVars
<1>5. OnlyOwn(c) /\ MembersNow' = MembersNow
  BY <1>4 DEF OnlyOwn, MembersNow
<1>6. op'[c] = [op[c] EXCEPT !.pc = op[c].then] /\ OthersKept(c)
  BY <1>0, <1>4 DEF OthersKept
<1>7. /\ op'[c].pc = op[c].then /\ op'[c].at = op[c].at /\ op'[c].then = op[c].then
      /\ op'[c].room = op[c].room /\ op'[c].snap = op[c].snap
  BY <1>0, <1>6
<1>8. Placed(op'[c], role'[c], ui'[c], u, playerRoom')
  BY <1>0, <1>3, <1>4, <1>7 DEF Placed, Outside, Leaving, Sitting, Quiet
<1>9. /\ \A q \in RoomId \ {r} : ds'[q] = ds[q]
      /\ ~Live(r)'
      /\ Live(r) => ds'[r].state = "RELEASED"
      /\ ~Live(r) => UNCHANGED spawnerVars
  <2>1. CASE Live(r)
    <3>1. ds' = [ds EXCEPT ![r] = [Unreserved EXCEPT !.state = "RELEASED"]]
      BY <1>3, <2>1 DEF ReleaseLobby
    <3>2. ds'[r].state = "RELEASED" /\ \A q \in RoomId \ {r} : ds'[q] = ds[q]
      BY <1>0, <1>3, <3>1 DEF Unreserved
    <3> QED BY <1>3, <2>1, <3>2, TablesAre
  <2>2. CASE ~Live(r)
    <3>1. UNCHANGED spawnerVars
      BY <1>3, <2>2 DEF ReleaseLobby
    <3>2. ds' = ds
      BY <3>1 DEF spawnerVars
    <3> QED BY <1>3, <2>2, <3>1, <3>2, TablesAre
  <2> QED BY <2>1, <2>2
<1>10. ASSUME NEW q \in RoomId PROVE PlayersNow'[q] = PlayersNow[q]
  <2>1. CASE q = r
    BY <1>3, <1>9, <2>1, TablesAre
  <2>2. CASE q # r
    BY <1>9, <2>2, TablesAre
  <2> QED BY <2>1, <2>2
<1>11. Same(MembersNow', PlayersNow')
  BY <1>2, <1>5, <1>10 DEF Same
<1>12. Fits(c)
  BY <1>3, <1>7, <1>8, <1>11 DEF Fits, Between
<1>13. Owned'
  <2> SUFFICES ASSUME NEW q \in RoomId, Live(q)' PROVE ds'[q].owner \in ds'[q].players
    BY DEF Owned
  <2>1. q # r /\ Live(q) /\ ds'[q] = ds[q]
    BY <1>9, TablesAre
  <2>2. ~(\E d \in Conn : op[d].pc = "release" /\ op[d].at = q)
    BY <1>2, <1>3, <2>1 DEF OthersQuiet, Quiet
  <2> QED BY <1>0, <2>1, <2>2 DEF AgreeInv, Owned
<1>14. Indexed(ownerRoom', ds')
  <2>1. Indexed(ownerRoom, ds)
    BY <1>0 DEF AgreeInv
  <2>2. CASE ~Live(r)
    BY <1>9, <2>1, <2>2 DEF spawnerVars
  <2>3. CASE Live(r)
    <3>1. ownerRoom' = [ownerRoom EXCEPT ![ds[r].owner] = 0] /\ ds'[r].state = "RELEASED"
      BY <1>3, <1>9, <2>3 DEF ReleaseLobby
    <3>2. /\ DOMAIN ownerRoom' = Uin
          /\ \A v \in Uin : ownerRoom'[v] = 0 \/ ownerRoom'[v] = ownerRoom[v]
      BY <2>1, <3>1 DEF Indexed
    <3> QED BY <1>9, <2>1, <3>1, <3>2 DEF Indexed
  <2> QED BY <2>2, <2>3
<1> QED BY <1>0, <1>2, <1>5, <1>6, <1>12, <1>13, <1>14, AgreeStep

-----------------------------------------------------------------------------
(* Nobody's thread goes on, and both tables stay: a login, a report of the *)
(* bridge, a step that changes nothing.                                    *)
LEMMA NobodyMoves ==
  ASSUME AgreeInv, DOMAIN op = Conn, playerRoom' = playerRoom, role' = role, ui' = ui, DsKept,
         \/ op' = op
         \/ \E c \in Conn : op[c].pc = "off" /\ op' = [op EXCEPT ![c] = Idle]
  PROVE  AgreeInv'
<1>1. MembersNow' = MembersNow
  BY DEF MembersNow
<1>2. PlayersNow' = PlayersNow
  <2>1. \A r \in RoomId : PlayersNow'[r] = PlayersNow[r]
    BY DsKeptFacts
  <2> QED BY <2>1 DEF PlayersNow
<1>3. \A c \in Conn : /\ op'[c].pc \in Quiet <=> op[c].pc \in Quiet
                      /\ op'[c] # op[c] => op[c].pc = "off" /\ op'[c] = Idle
  BY DEF Quiet, Idle, At
<1>4. ASSUME NEW c \in Conn
      PROVE  Placed(op'[c], role'[c], ui'[c], UinOf(c), playerRoom')
  <2>1. Placed(op[c], role[c], ui[c], UinOf(c), playerRoom)
    BY DEF AgreeInv
  <2>2. CASE op'[c] = op[c]
    BY <2>1, <2>2
  <2>3. CASE op[c].pc = "off" /\ op'[c] = Idle
    BY <2>1, <2>3 DEF Placed, Outside, Leaving, Sitting, Quiet, Idle, At, R!EmptyDict
  <2> QED BY <1>3, <2>2, <2>3
<1>5. ASSUME NEW c \in Conn
      PROVE  Between(op'[c], role'[c], UinOf(c), MembersNow', PlayersNow')
  <2>1. Between(op[c], role[c], UinOf(c), MembersNow, PlayersNow)
    BY DEF AgreeInv
  <2>2. CASE op'[c] = op[c]
    BY <1>1, <1>2, <2>1, <2>2
  <2>3. CASE op'[c] = Idle
    BY <2>3 DEF Between, Quiet, Idle, At
  <2> QED BY <1>3, <2>2, <2>3
<1>6. \A c \in Conn : op'[c].pc \notin Quiet => OthersQuiet(c)'
  BY <1>3 DEF AgreeInv, OthersQuiet
<1>7. AllQuiet' => Same(MembersNow', PlayersNow')
  BY <1>1, <1>2, <1>3 DEF AgreeInv, AllQuiet
<1>8. Owned'
  <2> SUFFICES ASSUME NEW r \in RoomId, Live(r)'
               PROVE  \/ ds'[r].owner \in ds'[r].players
                      \/ \E c \in Conn : op'[c].pc = "release" /\ op'[c].at = r
    BY DEF Owned
  <2>1. Live(r) /\ ds'[r].owner = ds[r].owner /\ ds'[r].players = ds[r].players
    BY DsKeptFacts DEF DsKept
  <2>2. \/ ds[r].owner \in ds[r].players
        \/ \E c \in Conn : op[c].pc = "release" /\ op[c].at = r
    BY <2>1 DEF AgreeInv, Owned
  <2> QED BY <1>3, <2>1, <2>2
<1>9. Indexed(ownerRoom', ds')
  BY DsKeptFacts DEF AgreeInv
<1> QED BY <1>4, <1>5, <1>6, <1>7, <1>8, <1>9 DEF AgreeInv

LEMMA AgreeInit == Init => AgreeInv
<1> SUFFICES ASSUME Init PROVE AgreeInv
  OBVIOUS
<1>1. \A c \in Conn : op[c] = At("off", 0, R!EmptyDict, "idle") /\ role[c] = NewRole
                        /\ ui[c] = "lobby"
  BY DEF Init
<1>2. DOMAIN playerRoom = {} /\ DOMAIN role = Conn /\ DOMAIN ui = Conn
  BY DEF Init, R!Init, R!EmptyDict
<1>3. \A c \in Conn : op[c].pc = "off" /\ op[c].then = "idle" /\ DOMAIN op[c].snap = {}
  BY <1>1 DEF At, R!EmptyDict
<1>4. \A c \in Conn : Placed(op[c], role[c], ui[c], UinOf(c), playerRoom)
  BY <1>1, <1>2, <1>3 DEF Placed, Outside, Leaving, Sitting, Quiet, NewRole
<1>5. \A c \in Conn : Between(op[c], role[c], UinOf(c), MembersNow, PlayersNow)
  BY <1>3 DEF Between, Quiet
<1>6. \A r \in RoomId : ds[r].state = "NONE"
  BY DEF Init, Unreserved
<1>7. ASSUME NEW r \in RoomId PROVE MembersNow[r] = PlayersNow[r]
  BY <1>2, <1>6, TablesAre
<1>8. Same(MembersNow, PlayersNow)
  BY <1>7 DEF Same
<1>9. Owned
  BY <1>6, TablesAre DEF Owned
<1>10. Indexed(ownerRoom, ds)
  BY DEF Init, Indexed
<1> QED BY <1>2, <1>3, <1>4, <1>5, <1>8, <1>9, <1>10 DEF AgreeInv, Quiet

LEMMA AgreeNext ==
  ASSUME Serial
  PROVE  AllInv /\ RegOK' /\ [Next]_vars => AgreeInv'
<1> SUFFICES ASSUME AllInv, RegOK', [Next]_vars PROVE AgreeInv'
  OBVIOUS
<1>1. ASSUME NEW c \in Conn, Connect(c) PROVE AgreeInv'
  BY <1>1, DsSame, NobodyMoves DEF Connect, registryVars, AllInv, ZoneInv, ThreadsOK
<1>2. ASSUME NEW c \in Conn, Create(c) PROVE AgreeInv'
  BY <1>2, Reserve, Created DEF Create
<1>3. ASSUME NEW c \in Conn, Join(c) PROVE AgreeInv'
  BY <1>3, Joined, Registered DEF Join
<1>4. ASSUME NEW c \in Conn, Depart(c) PROVE AgreeInv'
  BY <1>4, RoleSteps, Departed, ByeSynced DEF Depart
<1>5. ASSUME NEW c \in Conn, Lobby(c) PROVE AgreeInv'
  BY <1>5, RoleSteps, RegistryCalls, ReadingSteps DEF Lobby
<1>6. ASSUME NEW c \in Conn, Match(c) PROVE AgreeInv'
  BY <1>6, RoleSteps, RegistryCalls, ReadingSteps, DsSteps DEF Match
<1>7. ASSUME NEW c \in Conn, Spawner(c) PROVE AgreeInv'
  BY <1>7, Removed, Released, DsSteps DEF Spawner
<1>8. ASSUME NEW r \in RoomId, Monitor(r) PROVE AgreeInv'
  <2>1. DsKept
    BY <1>8 DEF Monitor, DsKept, AllInv, ZoneInv, AllocationsOK
  <2> QED BY <1>8, <2>1, NobodyMoves
          DEF Monitor, registryVars, connVars, AllInv, ZoneInv, ThreadsOK
<1>9. CASE UNCHANGED vars
  <2>1. DsKept
    BY <1>9 DEF vars, DsKept
  <2> QED BY <1>9, <2>1, NobodyMoves DEF vars, AllInv, ZoneInv, ThreadsOK
<1> QED BY <1>1, <1>2, <1>3, <1>4, <1>5, <1>6, <1>7, <1>8, <1>9 DEF Next

-----------------------------------------------------------------------------
(* What the registry's own invariant says in the words used here.          *)
LEMMA RegistryInOrder == Registry!IInv => RegOK
<1> SUFFICES ASSUME Registry!IInv PROVE RegOK
  OBVIOUS
<1>1. Registry!TypeOK /\ Registry!MembershipAgrees /\ Registry!OwnerSound
  BY DEF Registry!IInv
<1>2. /\ DOMAIN playerRoom \subseteq Uin /\ playerRoom \in [DOMAIN playerRoom -> RoomId]
      /\ DOMAIN rooms \subseteq RoomId
      /\ \A r \in DOMAIN rooms : DOMAIN rooms[r].members \subseteq Uin
  BY <1>1 DEF Registry!TypeOK, Registry!IsDict, Registry!IsRoom
<1>3. \A r \in DOMAIN rooms : DOMAIN rooms[r].members # {}
  BY <1>1 DEF Registry!OwnerSound
<1>4. ASSUME NEW r \in RoomId
      PROVE  (IF r \in DOMAIN rooms THEN DOMAIN rooms[r].members ELSE {}) = Members(playerRoom, r)
  BY <1>1, <1>2 DEF Registry!MembershipAgrees, Members
<1>5. \A r \in DOMAIN rooms : r \in RoomId /\ Members(playerRoom, r) # {}
  BY <1>2, <1>3, <1>4
<1> QED BY <1>2, <1>4, <1>5 DEF RegOK

LEMMA RegistryAlwaysInOrder == Spec => []RegOK
<1>1. Spec => []Registry!IInv
  BY SharedRegistryInvariant
<1> QED BY <1>1, RegistryInOrder, PTL

LEMMA AgreeInvariant ==
  ASSUME Serial
  PROVE  Spec => []AllInv
<1>1. ZoneInv /\ RegOK /\ RegOK' /\ AgreeInv /\ [Next]_vars => AgreeInv'
  BY AgreeNext DEF AllInv
<1>2. Spec => [](ZoneInv /\ RegOK)
  BY ZoneInvariant, RegistryAlwaysInOrder, PTL
<1>3. Spec => []AgreeInv
  BY <1>1, <1>2, AgreeInit, PTL DEF Spec
<1> QED BY <1>2, <1>3, PTL DEF AllInv

(* Handled one request at a time, whatever the clients do in whatever      *)
(* order, the registry and the spawner list the same players for every     *)
(* room, and no allocation outlives its last player.  The two accounts of  *)
(* a room are kept by different calls, so this rests on where every thread *)
(* is between its calls (AgreeInv).                                        *)
THEOREM TablesAlwaysAgree ==
  ASSUME Serial
  PROVE  Spec => []TablesAgree
<1>1. AllInv => TablesAgree
  <2> SUFFICES ASSUME AllInv, Resting, NEW r \in RoomId
               PROVE  (IF r \in DOMAIN rooms THEN DOMAIN rooms[r].members ELSE {})
                        = (IF Live(r) THEN ds[r].players ELSE {})
    BY DEF TablesAgree
  <2>1. MembersNow[r] = PlayersNow[r]
    BY DEF AllInv, AgreeInv, Resting, AllQuiet, Quiet, Same
  <2>2. (IF r \in DOMAIN rooms THEN DOMAIN rooms[r].members ELSE {}) = MembersNow[r]
    BY DEF AllInv, RegOK, MembersNow
  <2> QED BY <2>1, <2>2, TablesAre
<1> QED BY <1>1, AgreeInvariant, PTL

-----------------------------------------------------------------------------
(* The pictures of the clients (module RoomViews), still with requests     *)
(* handled one at a time.  Members are those of one room, by account.      *)
MembersOK(m) ==
  \A u \in DOMAIN m :
    /\ DOMAIN m[u] = {"seat", "ready", "owner", "camp", "observer"}
    /\ \A v \in DOMAIN m \ {u} : m[u].seat # m[v].seat
SeatsOK == \A r \in DOMAIN rooms : MembersOK(rooms[r].members)

(* Picture v shows members m, each in its seat.                            *)
Shows(v, m) ==
  /\ DOMAIN v = {m[u].seat : u \in DOMAIN m}
  /\ \A u \in DOMAIN m :
       /\ DOMAIN v[m[u].seat] = {"uin", "ready"} /\ v[m[u].seat].uin = u
       /\ m[u].ready => v[m[u].seat].ready

MembersOf(c) == rooms[playerRoom[UinOf(c)]].members
SeatOf(c) == MembersOf(c)[UinOf(c)].seat

(* A joiner has been let in and waits for its A105.  Everybody else who    *)
(* sits has a picture.                                                     *)
Joining(c) == op[c].pc = "register" \/ (op[c].pc = "sync" /\ mail[c].cmd = "A106")
Viewing(c) == Sitting(op[c], ui[c]) /\ ~Joining(c)

(* The message of thread c, with the seat that A112 gets at the sync.      *)
Letter(c) ==
  IF op[c].pc = "sync" /\ mail[c].cmd = "A112"
  THEN [mail[c] EXCEPT !.seat = OwnSeat(c)] ELSE mail[c]

(* Thread c still has its message to send to the client of d.              *)
Owes(c, d) ==
  IF mail[c].room # 0 THEN playerRoom[UinOf(d)] = mail[c].room
                      ELSE UinOf(d) \in mail[c].to

(* A client's picture is right once it has read what it is still owed.     *)
Right(d) ==
  Viewing(d) =>
    /\ (\A c \in Conn : ~Owes(c, d)) => Shows(view[d], MembersOf(d))
    /\ \A c \in Conn : Owes(c, d) => Shows(Shown(view[d], Letter(c)), MembersOf(d))

(* A message is posted while its thread is in the middle of the request    *)
(* and when it is back at rest or closing, and only then.                  *)
Posted(m, o, u) ==
  /\ DOMAIN m = {"cmd", "seat", "from", "seats", "room", "to"}
  /\ m = Nothing \/ m.room # 0 \/ m.to # {}
  /\ m.room # 0 => m.to = {} /\ m.cmd # "A106"
  /\ u \notin m.to \/ m.cmd # "A106"
  /\ m # Nothing => o.pc \in {"idle", "register", "sync"} \/ Leaving(o)
  /\ o.pc = "register" => m.cmd = "A106"

(* What the thread has of the registry is what the registry has: the       *)
(* snapshot, and the own seat in role_state.                               *)
Current(c) ==
  /\ op[c].pc # "off" => session[UinOf(c)] = c[2]
  /\ \A v \in DOMAIN op[c].snap : op[c].snap[v] = rooms[op[c].room].members[v].seat
  /\ op[c].pc \in {"register", "sync"} => UinOf(c) \in DOMAIN op[c].snap
  /\ op[c].pc = "sync" => op[c].then \in {"idle", "moved", "settled"}
  /\ Sitting(op[c], ui[c]) /\ op[c].pc # "sync" => role[c].seat = SeatOf(c)
  /\ Joining(c) => Shows(mail[c].seats, MembersOf(c))
  /\ mail[c].cmd = "A109" => ~Sitting(op[c], ui[c])

Clear(c) == op[c].pc \in Quiet /\ mail[c] = Nothing

ViewInv ==
  /\ DOMAIN view = Conn /\ DOMAIN mail = Conn /\ DOMAIN session = Uin
  /\ \A c, d \in Conn : Clear(c) \/ Clear(d) \/ c = d
  /\ \A c \in Conn : Posted(mail[c], op[c], UinOf(c))
  /\ \A c \in Conn : Current(c)
  /\ \A c \in Conn : Right(c)

-----------------------------------------------------------------------------
(* What each message makes of a right picture.                             *)
LEMMA SeatedFacts ==
  ASSUME NEW m, MembersOK(m)
  PROVE  /\ Shows(Seated(m), m)
         /\ \A u \in DOMAIN m : Seated(m)[m[u].seat] = [uin |-> u, ready |-> m[u].ready]
<1>1. DOMAIN Seated(m) = {m[u].seat : u \in DOMAIN m}
  BY DEF Seated
<1>2. ASSUME NEW u \in DOMAIN m
      PROVE  Seated(m)[m[u].seat] = [uin |-> u, ready |-> m[u].ready]
  <2>1. PICK w : /\ w = CHOOSE v \in DOMAIN m : m[v].seat = m[u].seat
                 /\ Seated(m)[m[u].seat] = [uin |-> w, ready |-> m[w].ready]
    BY DEF Seated
  <2>2. w \in DOMAIN m /\ m[w].seat = m[u].seat
    BY <2>1
  <2>3. w = u
    BY <2>2 DEF MembersOK
  <2> QED BY <2>1, <2>3
<1>3. ASSUME NEW u \in DOMAIN m
      PROVE  /\ DOMAIN Seated(m)[m[u].seat] = {"uin", "ready"}
             /\ Seated(m)[m[u].seat].uin = u
             /\ m[u].ready => Seated(m)[m[u].seat].ready
  <2>1. PICK e : e = [uin |-> u, ready |-> m[u].ready]
    OBVIOUS
  <2>2. Seated(m)[m[u].seat] = e
    BY <1>2, <2>1
  <2>3. DOMAIN e = {"uin", "ready"} /\ e.uin = u /\ (m[u].ready => e.ready)
    BY <2>1
  <2> QED BY <2>2, <2>3
<1>4. Shows(Seated(m), m)
  BY <1>1, <1>3 DEF Shows
<1> QED BY <1>2, <1>4

LEMMA JoinShown ==
  ASSUME NEW v, NEW m, NEW u, NEW e, NEW l, Shows(v, m), u \notin DOMAIN m,
         MembersOK(R!With(m, u, e)), l.cmd = "A106", l.seat = e.seat,
         l.seats = Seated(R!With(m, u, e))
  PROVE  Shows(Shown(v, l), R!With(m, u, e))
<1> DEFINE n == R!With(m, u, e)
<1>1. /\ DOMAIN n = DOMAIN m \cup {u} /\ n[u] = e
      /\ \A w \in DOMAIN m : n[w] = m[w]
  BY DEF R!With
<1>2. MembersOK(n) /\ l.seats = Seated(n)
  OBVIOUS
<1> HIDE DEF n
<1>3. l.seats[l.seat] = [uin |-> u, ready |-> e.ready]
  BY <1>1, <1>2, SeatedFacts
<1>4. Shown(v, l) = R!With(v, l.seat, l.seats[l.seat])
  BY DEF Shown
<1>5. \A w \in DOMAIN m : m[w].seat # e.seat
  BY <1>1, <1>2 DEF MembersOK
<1>6. DOMAIN Shown(v, l) = {n[w].seat : w \in DOMAIN n}
  BY <1>1, <1>4 DEF Shows, R!With
<1>7. Shown(v, l)[e.seat] = [uin |-> u, ready |-> e.ready]
  BY <1>3, <1>4 DEF R!With
<1>8. \A w \in DOMAIN m : Shown(v, l)[m[w].seat] = v[m[w].seat]
  BY <1>4, <1>5 DEF R!With, Shows
<1>9. ASSUME NEW w \in DOMAIN n
      PROVE  /\ DOMAIN Shown(v, l)[n[w].seat] = {"uin", "ready"}
             /\ Shown(v, l)[n[w].seat].uin = w
             /\ n[w].ready => Shown(v, l)[n[w].seat].ready
  <2>1. CASE w = u
    BY <1>1, <1>7, <2>1
  <2>2. CASE w # u
    BY <1>1, <1>8, <2>2 DEF Shows
  <2> QED BY <2>1, <2>2
<1> QED BY <1>6, <1>9 DEF Shows, n

LEMMA SameShown ==
  ASSUME NEW v, NEW m, NEW n, Shows(v, m), DOMAIN n = DOMAIN m,
         \A w \in DOMAIN m : n[w].seat = m[w].seat /\ (n[w].ready => m[w].ready)
  PROVE  Shows(v, n)
BY DEF Shows

LEMMA ReadyShown ==
  ASSUME NEW v, NEW m, NEW n, NEW u \in DOMAIN m, NEW l, Shows(v, m), MembersOK(m),
         DOMAIN n = DOMAIN m, \A w \in DOMAIN m : n[w].seat = m[w].seat,
         \A w \in DOMAIN m \ {u} : n[w].ready = m[w].ready,
         l.cmd = "A112", l.seat = m[u].seat
  PROVE  Shows(Shown(v, l), n)
<1>1. l.seat \in DOMAIN v /\ DOMAIN v[l.seat] = {"uin", "ready"}
  BY DEF Shows
<1>2. Shown(v, l) = [v EXCEPT ![l.seat].ready = TRUE]
  BY <1>1 DEF Shown
<1>3. /\ DOMAIN Shown(v, l) = DOMAIN v
      /\ DOMAIN Shown(v, l)[l.seat] = {"uin", "ready"}
      /\ Shown(v, l)[l.seat].uin = v[l.seat].uin /\ Shown(v, l)[l.seat].ready = TRUE
      /\ \A s \in DOMAIN v : s # l.seat => Shown(v, l)[s] = v[s]
  BY <1>1, <1>2
<1>4. \A w \in DOMAIN m \ {u} : m[w].seat # l.seat
  BY DEF MembersOK
<1>5. ASSUME NEW w \in DOMAIN n
      PROVE  /\ DOMAIN Shown(v, l)[n[w].seat] = {"uin", "ready"}
             /\ Shown(v, l)[n[w].seat].uin = w
             /\ n[w].ready => Shown(v, l)[n[w].seat].ready
  <2>1. CASE w = u
    BY <1>3, <2>1 DEF Shows
  <2>2. CASE w # u
    BY <1>3, <1>4, <2>2 DEF Shows
  <2> QED BY <2>1, <2>2
<1>6. DOMAIN Shown(v, l) = {n[w].seat : w \in DOMAIN n}
  BY <1>3 DEF Shows
<1> QED BY <1>5, <1>6 DEF Shows

LEMMA MoveShown ==
  ASSUME NEW v, NEW m, NEW n, NEW u \in DOMAIN m, NEW l, Shows(v, m),
         MembersOK(m), MembersOK(n), DOMAIN n = DOMAIN m,
         \A w \in DOMAIN m : n[w].ready = m[w].ready,
         \A w \in DOMAIN m \ {u} : n[w].seat = m[w].seat,
         l.cmd = "A10F", l.from = m[u].seat, l.seat = n[u].seat
  PROVE  Shows(Shown(v, l), n)
<1>1. l.from \in DOMAIN v
  BY DEF Shows
<1>2. Shown(v, l) = R!With(R!Without(v, l.from), l.seat, v[l.from])
  BY <1>1 DEF Shown
<1>3. /\ DOMAIN Shown(v, l) = (DOMAIN v \ {l.from}) \cup {l.seat}
      /\ Shown(v, l)[l.seat] = v[l.from]
      /\ \A s \in DOMAIN v \ {l.from} : s # l.seat => Shown(v, l)[s] = v[s]
  BY <1>2 DEF R!With, R!Without
<1>4. \A w \in DOMAIN m \ {u} : m[w].seat # l.from /\ m[w].seat # l.seat
  BY DEF MembersOK
<1>5. ASSUME NEW w \in DOMAIN n
      PROVE  /\ DOMAIN Shown(v, l)[n[w].seat] = {"uin", "ready"}
             /\ Shown(v, l)[n[w].seat].uin = w
             /\ n[w].ready => Shown(v, l)[n[w].seat].ready
  <2>1. CASE w = u
    BY <1>3, <2>1 DEF Shows
  <2>2. CASE w # u
    BY <1>3, <1>4, <2>2 DEF Shows
  <2> QED BY <2>1, <2>2
<1>6. DOMAIN Shown(v, l) = {n[w].seat : w \in DOMAIN n}
  BY <1>3, <1>4 DEF Shows
<1> QED BY <1>5, <1>6 DEF Shows

(* Members n are members m without u.                                      *)
Rest(m, u, n) ==
  /\ DOMAIN n = DOMAIN m \ {u}
  /\ \A w \in DOMAIN n : n[w].seat = m[w].seat /\ n[w].ready = m[w].ready

LEMMA LeaveShown ==
  ASSUME NEW v, NEW m, NEW n, NEW u \in DOMAIN m, NEW l, Shows(v, m), MembersOK(m),
         Rest(m, u, n), l.cmd = "A109", l.seat = m[u].seat
  PROVE  Shows(Shown(v, l), n)
<1>1. Shown(v, l) = R!Without(v, l.seat)
  BY DEF Shown
<1>2. /\ DOMAIN Shown(v, l) = DOMAIN v \ {l.seat}
      /\ \A s \in DOMAIN v \ {l.seat} : Shown(v, l)[s] = v[s]
  BY <1>1 DEF R!Without
<1>3. \A w \in DOMAIN n : m[w].seat # l.seat
  BY DEF MembersOK, Rest
<1>4. DOMAIN Shown(v, l) = {n[w].seat : w \in DOMAIN n}
  BY <1>2, <1>3 DEF Shows, Rest
<1>5. \A w \in DOMAIN n : Shown(v, l)[n[w].seat] = v[m[w].seat]
  BY <1>2, <1>3 DEF Shows, Rest
<1> QED BY <1>4, <1>5 DEF Shows, Rest

-----------------------------------------------------------------------------
(* What a step of thread c leaves of the other threads' screens, sessions  *)
(* and cached seats.                                                       *)
Apart(c) ==
  /\ DOMAIN op' = Conn /\ DOMAIN role' = Conn /\ DOMAIN ui' = Conn
  /\ DOMAIN session' = Uin /\ \A u \in Uin : session'[u] = session[u]
  /\ \A d \in Conn \ {c} :
       /\ op'[d] = op[d] /\ ui'[d] = ui[d]
       /\ \/ role'[d].seat = role[d].seat
          \/ UinOf(d) \in DOMAIN op[c].snap /\ role'[d].seat = op[c].snap[UinOf(d)]

LEMMA SyncedSeats ==
  ASSUME AllInv, NEW c \in Conn, NEW d \in Conn
  PROVE  /\ DOMAIN Synced(c) = Conn
         /\ DOMAIN Synced(c)[d] = {"room", "dsRoom", "seat", "pending", "handed"}
         /\ \/ Synced(c)[d].seat = role[d].seat
            \/ UinOf(d) \in DOMAIN op[c].snap /\ Synced(c)[d].seat = op[c].snap[UinOf(d)]
         /\ UinOf(d) \in DOMAIN op[c].snap /\ session[UinOf(d)] = d[2] /\ Online(d)
              => Synced(c)[d].seat = op[c].snap[UinOf(d)]
<1>1. DOMAIN role[d] = {"room", "dsRoom", "seat", "pending", "handed"}
  BY DEF AllInv, AgreeInv, Placed
<1> QED BY <1>1 DEF Synced

(* Every step but a login is such a step: the session is the one the       *)
(* thread already is.                                                      *)
LEMMA StepsApart ==
  ASSUME AllInv, ViewInv, NEW c \in Conn, op[c].pc # "off",
         Create(c) \/ Join(c) \/ Depart(c) \/ Lobby(c) \/ Match(c) \/ Spawner(c)
  PROVE  Apart(c)
<1>0. /\ DOMAIN op = Conn /\ DOMAIN role = Conn /\ DOMAIN ui = Conn /\ DOMAIN session = Uin
      /\ ThreadsOK /\ session[UinOf(c)] = c[2] /\ UinOf(c) \in Uin
  BY ZoneFacts DEF AllInv, ZoneInv, ThreadsOK, AgreeInv, ViewInv, Current
<1>1. DOMAIN op' = Conn /\ \A d \in Conn : d # c => op'[d] = op[d]
  BY <1>0, ThreadSteps DEF ThreadTo
<1>2. ASSUME \/ UNCHANGED session \/ session' = [session EXCEPT ![UinOf(c)] = c[2]],
             \/ UNCHANGED ui \/ \E i : ui' = [ui EXCEPT ![c] = i],
             \/ UNCHANGED role
             \/ \E rl : role' = [role EXCEPT ![c] = rl]
             \/ DOMAIN role' = Conn /\ \A d \in Conn \ {c} : role'[d] = Synced(c)[d]
             \/ DOMAIN role' = Conn /\ \A d \in Conn \ {c} : role'[d].seat = role[d].seat
      PROVE  Apart(c)
  <2>1. DOMAIN session' = Uin /\ \A u \in Uin : session'[u] = session[u]
    BY <1>0, <1>2
  <2>2. DOMAIN ui' = Conn /\ \A d \in Conn \ {c} : ui'[d] = ui[d]
    BY <1>0, <1>2
  <2>3. /\ DOMAIN role' = Conn
        /\ \A d \in Conn \ {c} :
             \/ role'[d].seat = role[d].seat
             \/ UinOf(d) \in DOMAIN op[c].snap /\ role'[d].seat = op[c].snap[UinOf(d)]
    BY <1>0, <1>2, SyncedSeats
  <2> QED BY <1>1, <2>1, <2>2, <2>3 DEF Apart
<1> USE DEF Request
<1>3. CASE Create(c)
  BY <1>2, <1>3 DEF Create, CreateReserve, CreateRoom, CreateRefused, connVars
<1>4. CASE Join(c)
  BY <1>2, <1>4 DEF Join, JoinRegistry, JoinRegister, JoinHalf, connVars
<1>5. CASE Depart(c)
  <2>1. CASE Leave(c) \/ RoomList(c) \/ Disconnect(c) \/ Close(c)
    BY <1>2, <2>1 DEF Leave, RoomList, Disconnect, Close, connVars
  <2>2. CASE LeaveDone(c) \/ DisconnectSync(c)
    <3>1. DOMAIN role' = Conn /\ \A d \in Conn \ {c} : role'[d] = Synced(c)[d]
      BY <2>2, SyncedSeats DEF LeaveDone, DisconnectSync
    <3> QED BY <1>2, <2>2, <3>1 DEF LeaveDone, DisconnectSync
  <2> QED BY <1>5, <2>1, <2>2 DEF Depart
<1>6. CASE Lobby(c)
  <2>1. CASE Sync(c)
    <3>1. DOMAIN role' = Conn /\ \A d \in Conn \ {c} : role'[d] = Synced(c)[d]
      BY <2>1, SyncedSeats DEF Sync
    <3> QED BY <1>2, <2>1, <3>1 DEF Sync
  <2>2. CASE ~Sync(c)
    <3>1. ASSUME NEW k \in {0, 1}, ChangeCamp(c, k)
          PROVE  Apart(c)
      BY <1>2, <3>1 DEF ChangeCamp
    <3> QED BY <1>2, <1>6, <2>2, <3>1
            DEF Lobby, SetReady, Settings, UpdateSettings, UpdateRegistry, connVars
  <2> QED BY <2>1, <2>2
<1>7. CASE Match(c)
  <2>1. CASE SendHandoff(c)
    <3>0. \A d \in Conn : DOMAIN role[d] = {"room", "dsRoom", "seat", "pending", "handed"}
      BY DEF AllInv, AgreeInv, Placed
    <3>1. DOMAIN role' = Conn /\ \A d \in Conn \ {c} : role'[d].seat = role[d].seat
      BY <2>1, <3>0 DEF SendHandoff
    <3> QED BY <1>2, <2>1, <3>1 DEF SendHandoff
  <2>2. CASE StartMatch(c) \/ StartRoomAlloc(c) \/ SetInMatch(c) \/ QuitMatch(c)
    BY <1>2, <2>2 DEF StartMatch, StartRoomAlloc, SetInMatch, QuitMatch
  <2>3. CASE Handoff(c) \/ QuitDone(c)
    BY <1>0, <1>2, <2>3 DEF Handoff, QuitDone
  <2>4. CASE BeginMatch(c) \/ ArmLobby(c) \/ ShowRoom(c)
    BY <1>2, <2>4 DEF BeginMatch, ArmLobby, ShowRoom, connVars
  <2> QED BY <1>7, <2>1, <2>2, <2>3, <2>4 DEF Match
<1>8. CASE Spawner(c)
  BY <1>2, <1>8 DEF Spawner, RemoveRoomPlayer, ReleaseLobby, EndRound, connVars
<1> QED BY <1>3, <1>4, <1>5, <1>6, <1>7, <1>8

-----------------------------------------------------------------------------
(* With every other thread clear, only c's message is on its way.          *)
OthersClear(c) == \A d \in Conn \ {c} : Clear(d)
RightBy(c, e) ==
  Shows(IF Owes(c, e) THEN Shown(view[e], Letter(c)) ELSE view[e], MembersOf(e))

LEMMA RightAlone ==
  ASSUME NEW c \in Conn, NEW e \in Conn
  PROVE  /\ OthersClear(c) => (Right(e) <=> (Viewing(e) => RightBy(c, e)))
         /\ OthersClear(c)' => (Right(e)' <=> (Viewing(e)' => RightBy(c, e)'))
<1>1. /\ OthersClear(c) => \A d \in Conn \ {c} : ~Owes(d, e)
      /\ OthersClear(c)' => \A d \in Conn \ {c} : ~Owes(d, e)'
  BY DEF OthersClear, Clear, Owes, Nothing
<1> QED BY <1>1 DEF Right, RightBy

LEMMA SitterFacts ==
  ASSUME NEW c \in Conn
  PROVE  /\ AllInv /\ Sitting(op[c], ui[c]) =>
              /\ playerRoom[UinOf(c)] \in RoomId /\ playerRoom[UinOf(c)] # 0
              /\ playerRoom[UinOf(c)] \in DOMAIN rooms /\ UinOf(c) \in DOMAIN playerRoom
              /\ UinOf(c) \in DOMAIN MembersOf(c) /\ ui[c] = "room"
         /\ AllInv' /\ Sitting(op'[c], ui'[c]) =>
              /\ playerRoom'[UinOf(c)] \in RoomId /\ playerRoom'[UinOf(c)] # 0
              /\ playerRoom'[UinOf(c)] \in DOMAIN rooms' /\ UinOf(c) \in DOMAIN playerRoom'
              /\ UinOf(c) \in DOMAIN MembersOf(c)' /\ ui'[c] = "room"
<1>1. ASSUME AllInv, Sitting(op[c], ui[c])
      PROVE  /\ playerRoom[UinOf(c)] \in RoomId /\ playerRoom[UinOf(c)] # 0
             /\ playerRoom[UinOf(c)] \in DOMAIN rooms /\ UinOf(c) \in DOMAIN playerRoom
             /\ UinOf(c) \in DOMAIN MembersOf(c) /\ ui[c] = "room"
  <2>1. UinOf(c) \in DOMAIN playerRoom /\ ui[c] = "room"
    BY <1>1 DEF AllInv, AgreeInv, Placed
  <2>2. playerRoom[UinOf(c)] \in RoomId /\ playerRoom[UinOf(c)] # 0
    BY <1>1, <2>1, ZoneAssumption DEF AllInv, RegOK, RoomId
  <2>3. UinOf(c) \in Members(playerRoom, playerRoom[UinOf(c)])
    BY <2>1 DEF Members
  <2> QED BY <1>1, <2>1, <2>2, <2>3 DEF AllInv, RegOK, MembersOf
<1>2. ASSUME AllInv', Sitting(op'[c], ui'[c])
      PROVE  /\ playerRoom'[UinOf(c)] \in RoomId /\ playerRoom'[UinOf(c)] # 0
             /\ playerRoom'[UinOf(c)] \in DOMAIN rooms' /\ UinOf(c) \in DOMAIN playerRoom'
             /\ UinOf(c) \in DOMAIN MembersOf(c)' /\ ui'[c] = "room"
  <2>1. UinOf(c) \in DOMAIN playerRoom' /\ ui'[c] = "room"
    BY <1>2 DEF AllInv, AgreeInv, Placed
  <2>2. playerRoom'[UinOf(c)] \in RoomId /\ playerRoom'[UinOf(c)] # 0
    BY <1>2, <2>1, ZoneAssumption DEF AllInv, RegOK, RoomId
  <2>3. UinOf(c) \in Members(playerRoom', playerRoom'[UinOf(c)])
    BY <2>1 DEF Members
  <2> QED BY <1>2, <2>1, <2>2, <2>3 DEF AllInv, RegOK, MembersOf
<1> QED BY <1>1, <1>2

(* What a step of c has to show for itself.                                *)
LEMMA ViewStep ==
  ASSUME ViewInv, AllInv, NEW c \in Conn, OthersClear(c), Apart(c),
         DOMAIN view' = Conn, DOMAIN mail' = Conn,
         \A d \in Conn \ {c} : mail'[d] = mail[d],
         \A d \in Conn \ {c} : Sitting(op[d], ui[d]) => SeatOf(d)' = SeatOf(d),
         Posted(mail'[c], op'[c], UinOf(c)), Current(c)',
         \A e \in Conn : Viewing(e)' => RightBy(c, e)'
  PROVE  ViewInv'
<1>1. /\ \A d \in Conn \ {c} : op'[d] = op[d] /\ mail'[d] = mail[d] /\ ui'[d] = ui[d]
      /\ DOMAIN session' = Uin
  BY DEF Apart
<1>2. OthersClear(c)'
  BY <1>1 DEF OthersClear, Clear
<1>3. \A d, e \in Conn : Clear(d)' \/ Clear(e)' \/ d = e
  BY <1>2 DEF OthersClear
<1>4. \A d \in Conn : Posted(mail'[d], op'[d], UinOf(d))
  BY <1>1 DEF ViewInv
<1>5. ASSUME NEW d \in Conn, d # c PROVE Current(d)'
  <2>1. /\ op'[d] = op[d] /\ mail'[d] = Nothing /\ ui'[d] = ui[d]
        /\ op[d].pc \in Quiet /\ Current(d)
    BY <1>1, <1>5 DEF OthersClear, Clear, ViewInv
  <2>2. DOMAIN op[d].snap = {}
    BY <2>1 DEF AllInv, AgreeInv, Placed
  <2>3. op[d].pc # "off" => session'[UinOf(d)] = d[2]
    BY <2>1, ZoneFacts DEF Current, Apart
  <2>4. ASSUME Sitting(op[d], ui[d]) PROVE role'[d].seat = SeatOf(d)'
    <3>1. SeatOf(d)' = SeatOf(d) /\ role[d].seat = SeatOf(d)
      BY <1>5, <2>1, <2>4 DEF Current, Quiet
    <3>2. CASE role'[d].seat = role[d].seat
      BY <3>1, <3>2
    <3>3. CASE UinOf(d) \in DOMAIN op[c].snap /\ role'[d].seat = op[c].snap[UinOf(d)]
      <4>1. playerRoom[UinOf(d)] = op[c].room
        BY <3>3 DEF AllInv, AgreeInv, Placed
      <4>2. op[c].snap[UinOf(d)] = rooms[op[c].room].members[UinOf(d)].seat
        BY <3>3 DEF ViewInv, Current
      <4> QED BY <3>1, <3>3, <4>1, <4>2 DEF SeatOf, MembersOf
    <3> QED BY <1>5, <3>2, <3>3 DEF Apart
  <2>5. ~Joining(d)' /\ mail'[d].cmd = "none"
    BY <2>1 DEF Joining, Quiet, Nothing
  <2> QED BY <2>1, <2>2, <2>3, <2>4, <2>5 DEF Current, Quiet
<1>6. \A e \in Conn : Right(e)'
  BY <1>2, RightAlone
<1> QED BY <1>1, <1>3, <1>4, <1>5, <1>6 DEF ViewInv

(* A step after which everybody's room is as before and nobody is told     *)
(* anything; a client whose connection ends or who is back in the lobby    *)
(* forgets its room.                                                       *)
SameRooms ==
  /\ playerRoom' = playerRoom
  /\ \A r \in DOMAIN rooms : r \in DOMAIN rooms' /\ rooms'[r].members = rooms[r].members

Silent(c) ==
  /\ SameRooms /\ op[c].pc \notin {"off", "register", "sync"}
  /\ DOMAIN mail' = Conn /\ \A d \in Conn : mail'[d] = mail[d]
  /\ view' = view \/ (view' = [view EXCEPT ![c] = NoSeats] /\ ui'[c] = "lobby")
  /\ ui'[c] \in {ui[c], "lobby"}
  /\ mail[c] # Nothing => op'[c].pc \notin {"off", "create", "register"}
  /\ op'[c].pc # "register"
  /\ op'[c].pc = "sync" => op'[c].then = "settled" /\ UinOf(c) \in DOMAIN op'[c].snap
  /\ \/ DOMAIN op'[c].snap = {} \/ op'[c].snap = SnapshotAfter(op'[c].room)
     \/ op'[c].snap = op[c].snap /\ op'[c].room = op[c].room
  /\ Sitting(op'[c], ui'[c]) => role'[c].seat = role[c].seat

LEMMA SilentStep ==
  ASSUME ViewInv, AllInv, AllInv', NEW c \in Conn, OthersClear(c), Apart(c),
         op[c].pc = "idle" => Clear(c), Silent(c)
  PROVE  ViewInv'
<1>0. /\ playerRoom' = playerRoom /\ \A d \in Conn : mail'[d] = mail[d]
      /\ \A r \in DOMAIN rooms : r \in DOMAIN rooms' /\ rooms'[r].members = rooms[r].members
      /\ op[c].pc \notin {"off", "register", "sync"}
  BY DEF Silent, SameRooms
<1>1. DOMAIN view' = Conn /\ DOMAIN mail' = Conn
  BY DEF Silent, ViewInv
<1>2. \A e \in Conn : Sitting(op[e], ui[e]) => MembersOf(e)' = MembersOf(e)
  BY <1>0, SitterFacts DEF MembersOf
<1>3. \A d \in Conn : Sitting(op[d], ui[d]) => SeatOf(d)' = SeatOf(d)
  BY <1>0, <1>2 DEF SeatOf
<1>4. Placed(op[c], role[c], ui[c], UinOf(c), playerRoom)
      /\ Placed(op'[c], role'[c], ui'[c], UinOf(c), playerRoom)
      /\ Posted(mail[c], op[c], UinOf(c)) /\ Current(c)
  BY <1>0 DEF AllInv, AgreeInv, ViewInv
<1>5. ASSUME Sitting(op'[c], ui'[c])
      PROVE  Sitting(op[c], ui[c]) /\ ui'[c] = ui[c] /\ mail[c] = Nothing /\ ~Joining(c)
  <2>1. ui'[c] = "room" /\ UinOf(c) \in DOMAIN playerRoom
    BY <1>4, <1>5 DEF Placed
  <2>2. ui[c] = "room" /\ ui'[c] = ui[c]
    BY <2>1 DEF Silent
  <2>3. Sitting(op[c], ui[c]) /\ ~Leaving(op[c])
    BY <1>0, <1>4, <2>1, <2>2 DEF Placed
  <2>4. mail[c] = Nothing
    BY <1>0, <1>4, <2>3 DEF Posted, Clear
  <2> QED BY <1>0, <2>2, <2>3, <2>4 DEF Joining
<1>6. Posted(mail'[c], op'[c], UinOf(c))
  <2>1. CASE mail[c] = Nothing
    BY <1>0, <1>4, <2>1 DEF Posted, Silent
  <2>2. CASE mail[c] # Nothing
    <3>1. ~Sitting(op'[c], ui'[c]) /\ op'[c].pc \notin {"off", "create", "register"}
      BY <1>5, <2>2 DEF Silent
    <3>2. op'[c].pc = "idle" \/ Leaving(op'[c])
      BY <1>4, <3>1 DEF Placed, Outside
    <3> QED BY <1>0, <1>4, <3>1, <3>2 DEF Posted
  <2> QED BY <2>1, <2>2
<1>7. Current(c)'
  <2>1. session'[UinOf(c)] = c[2]
    BY <1>0, <1>4, ZoneFacts DEF Apart, Current
  <2>2. ASSUME NEW v \in DOMAIN op'[c].snap
        PROVE  op'[c].snap[v] = rooms'[op'[c].room].members[v].seat
    <3>1. CASE op'[c].snap = SnapshotAfter(op'[c].room)
      BY <2>2, <3>1 DEF SnapshotAfter, R!EmptyDict
    <3>2. CASE op'[c].snap = op[c].snap /\ op'[c].room = op[c].room
      <4>1. v \in DOMAIN playerRoom /\ playerRoom[v] = op[c].room
        BY <1>4, <2>2, <3>2 DEF Placed
      <4>2. op[c].room \in DOMAIN rooms
        BY <4>1 DEF AllInv, RegOK, Members
      <4>3. op[c].snap[v] = rooms[op[c].room].members[v].seat
        BY <1>4, <2>2, <3>2 DEF Current
      <4> QED BY <1>0, <3>2, <4>2, <4>3
    <3> QED BY <2>2, <3>1, <3>2 DEF Silent
  <2>3. op'[c].pc \in {"register", "sync"} => UinOf(c) \in DOMAIN op'[c].snap
    BY DEF Silent
  <2>4. Sitting(op'[c], ui'[c]) => role'[c].seat = SeatOf(c)'
    <3> SUFFICES ASSUME Sitting(op'[c], ui'[c]) PROVE role'[c].seat = SeatOf(c)'
      OBVIOUS
    <3>1. Sitting(op[c], ui[c])
      BY <1>5
    <3>2. role[c].seat = SeatOf(c) /\ role'[c].seat = role[c].seat
      BY <1>0, <1>4, <3>1 DEF Current, Silent
    <3> QED BY <1>3, <3>1, <3>2
  <2>5. ~Joining(c)' /\ (mail'[c].cmd = "A109" => ~Sitting(op'[c], ui'[c]))
    <3>1. Sitting(op'[c], ui'[c]) => mail'[c].cmd = "none"
      BY <1>0, <1>5 DEF Nothing
    <3> QED BY <3>1 DEF Joining, Silent, Sitting
  <2> QED BY <2>1, <2>2, <2>3, <2>4, <2>5 DEF Current, Silent
<1>8. ASSUME NEW e \in Conn, Viewing(e)' PROVE RightBy(c, e)'
  <2>1. Viewing(e) /\ view'[e] = view[e]
    <3>1. CASE e = c
      <4>1. Sitting(op'[c], ui'[c])
        BY <1>8, <3>1 DEF Viewing
      <4>2. Viewing(c) /\ ui'[c] # "lobby"
        BY <1>5, <4>1, SitterFacts DEF Viewing
      <4> QED BY <3>1, <4>2 DEF Silent
    <3>2. CASE e # c
      <4>1. op'[e] = op[e] /\ ui'[e] = ui[e] /\ mail'[e] = mail[e]
        BY <1>0, <3>2 DEF Apart
      <4> QED BY <1>1, <1>8, <3>2, <4>1 DEF Viewing, Joining, Silent
    <3> QED BY <3>1, <3>2
  <2>2. RightBy(c, e)
    BY <2>1, RightAlone DEF ViewInv
  <2>3. MembersOf(e)' = MembersOf(e)
    BY <1>2, <2>1 DEF Viewing
  <2>4. Owes(c, e)' <=> Owes(c, e)
    BY <1>0 DEF Owes
  <2>5. Letter(c)' = Letter(c) \/ ~Owes(c, e)
    <3>1. CASE op'[c].pc = "sync"
      <4>1. mail[c] = Nothing
        BY <1>5, <3>1 DEF Sitting
      <4> QED BY <4>1 DEF Owes, Nothing
    <3>2. CASE op'[c].pc # "sync"
      BY <1>0, <3>2 DEF Letter
    <3> QED BY <3>1, <3>2
  <2> QED BY <2>1, <2>2, <2>3, <2>4, <2>5 DEF RightBy
<1> QED BY <1>0, <1>1, <1>3, <1>6, <1>7, <1>8, ViewStep

-----------------------------------------------------------------------------
LEMMA ShownOrHidden ==
  ASSUME AllInv
  PROVE  /\ UNCHANGED registryVars => SameRooms
         /\ \A r, b : R!SetStarted(r, b) => SameRooms
BY DEF AllInv, ZoneInv, RoomsOK, R!SetStarted, SameRooms, registryVars

(* Most silent steps move the thread on and change nothing else of it.     *)
Onward(c, o) ==
  /\ SameRooms /\ op'[c] = o /\ ui' = ui
  /\ op[c].pc \notin {"off", "register", "sync"}
  /\ o.pc \notin {"off", "register", "sync"}
  /\ o.pc = "create" => op[c].pc = "idle"
  /\ DOMAIN o.snap = {} \/ (o.snap = op[c].snap /\ o.room = op[c].room)
  /\ Sitting(o, ui[c]) => role'[c].seat = role[c].seat

LEMMA OnwardSilent ==
  ASSUME ViewInv, NEW c \in Conn, NEW o, Onward(c, o),
         op[c].pc = "idle" => Clear(c), mail' = mail, view' = view
  PROVE  Silent(c)
BY DEF Onward, Silent, Clear, ViewInv

LEMMA OnwardSteps ==
  ASSUME AllInv, NEW c \in Conn,
         \/ \E r \in RoomId : CreateReserve(c, r) \/ Settings(c, r)
         \/ RoomList(c) \/ DisconnectSync(c) \/ Spawner(c) \/ UpdateSettings(c)
         \/ Match(c)
  PROVE  \E o : Onward(c, o)
<1>0. /\ DOMAIN op = Conn /\ DOMAIN role = Conn
      /\ DOMAIN op[c] = {"pc", "room", "snap", "at", "then"}
      /\ DOMAIN role[c] = {"room", "dsRoom", "seat", "pending", "handed"}
      /\ Placed(op[c], role[c], ui[c], UinOf(c), playerRoom)
      /\ op[c].pc \in {"bye", "close"} => op[c].then = "close"
  BY DEF AllInv, ZoneInv, ThreadsOK, ThreadOK, AgreeInv, Placed
<1>1. UNCHANGED registryVars => SameRooms
  BY ShownOrHidden
<1>2. ASSUME NEW pc, NEW r, NEW t
      PROVE  LET o == Calling(pc, r, t)
             IN  o.pc = pc /\ DOMAIN o.snap = {} /\ o.then = t
  BY DEF Calling, At, R!EmptyDict
<1>3. Idle.pc = "idle" /\ DOMAIN Idle.snap = {}
  BY DEF Idle, At, R!EmptyDict
<1>4. ASSUME NEW pc
      PROVE  LET o == [op[c] EXCEPT !.pc = pc]
             IN  o.pc = pc /\ o.snap = op[c].snap /\ o.room = op[c].room
                 /\ o.then = op[c].then
  BY <1>0
<1>5. ASSUME NEW r \in RoomId, CreateReserve(c, r) PROVE \E o : Onward(c, o)
  <2>1. /\ op'[c] = Calling("create", r, "idle") /\ op[c].pc = "idle"
        /\ ui' = ui /\ SameRooms /\ role'[c].seat = role[c].seat
    BY <1>0, <1>1, <1>5 DEF CreateReserve, Request
  <2>2. Onward(c, Calling("create", r, "idle"))
    BY <1>2, <2>1 DEF Onward
  <2> QED BY <2>2
<1>6. ASSUME NEW r \in RoomId, Settings(c, r) PROVE \E o : Onward(c, o)
  <2>1. PICK pc \in {"end", "settings"} : op' = [op EXCEPT ![c] = Calling(pc, r, "settings")]
    BY <1>6 DEF Settings
  <2>2. /\ op'[c] = Calling(pc, r, "settings") /\ op[c].pc = "idle"
        /\ ui' = ui /\ SameRooms /\ role' = role
    BY <1>0, <1>1, <1>6, <2>1 DEF Settings, Request
  <2>3. Onward(c, Calling(pc, r, "settings"))
    BY <1>2, <2>2 DEF Onward
  <2> QED BY <2>3
<1>7. CASE RoomList(c)
  <2>1. /\ op'[c] = op[c] /\ op[c].pc = "idle" /\ ui[c] = "lobby" /\ ui' = ui /\ SameRooms
        /\ DOMAIN op[c].snap = {}
    BY <1>0, <1>1, <1>7 DEF RoomList, Request, Placed, Quiet
  <2>2. Onward(c, op[c])
    BY <2>1 DEF Onward, Sitting
  <2> QED BY <2>2
<1>8. CASE DisconnectSync(c)
  <2>1. PICK pc \in {"leave", "close"} : op' = [op EXCEPT ![c].pc = pc, ![c].at = role'[c].room]
    BY <1>8 DEF DisconnectSync
  <2>2. PICK o : o = op'[c]
    OBVIOUS
  <2>3. /\ o.pc = pc /\ o.snap = op[c].snap /\ o.room = op[c].room
        /\ op[c].pc = "bye" /\ ui' = ui /\ SameRooms
    BY <1>0, <1>1, <1>8, <2>1, <2>2 DEF DisconnectSync
  <2>4. Onward(c, o)
    BY <2>2, <2>3 DEF Onward, Sitting
  <2> QED BY <2>4
<1>9. CASE Spawner(c)
  <2>1. UNCHANGED registryVars /\ ui' = ui /\ role' = role
    BY <1>9 DEF Spawner, RemoveRoomPlayer, ReleaseLobby, EndRound, connVars
  <2>2. /\ op[c].pc \in {"leave", "release", "end"}
        /\ op[c].pc \in {"leave", "release"} => op[c].then \in {"left", "close"}
        /\ op[c].pc = "end" => op[c].then \in {"left", "close", "settings", "show"}
    BY <1>0, <1>9
    DEF Spawner, RemoveRoomPlayer, ReleaseLobby, EndRound, Placed, Outside, Leaving, Sitting
  <2>3. PICK pc, r : /\ \/ op' = [op EXCEPT ![c].pc = pc, ![c].at = r]
                        \/ op' = [op EXCEPT ![c].pc = pc]
                     /\ pc \in {"release", "end", op[c].then}
                     /\ op[c].pc # "leave" => pc = op[c].then
    BY <1>9 DEF Spawner, RemoveRoomPlayer, ReleaseLobby, EndRound, AfterRemoval
  <2>4. PICK o : o = op'[c]
    OBVIOUS
  <2>5. o.pc = pc /\ o.snap = op[c].snap /\ o.room = op[c].room /\ o.then = op[c].then
    BY <1>0, <2>3, <2>4
  <2>6. Onward(c, o)
    BY <1>1, <2>1, <2>2, <2>3, <2>4, <2>5 DEF Onward
  <2> QED BY <2>6
<1>10. CASE UpdateSettings(c)
  <2>1. op' = [op EXCEPT ![c] = [op[c] EXCEPT !.pc = "update"]] \/ op' = [op EXCEPT ![c] = Idle]
    BY <1>0, <1>10 DEF UpdateSettings
  <2>2. op'[c] = [op[c] EXCEPT !.pc = "update"] \/ op'[c] = Idle
    BY <1>0, <2>1
  <2>3. op[c].pc = "settings" /\ ui' = ui /\ role' = role /\ SameRooms
    BY <1>1, <1>10 DEF UpdateSettings, connVars
  <2>4. Onward(c, [op[c] EXCEPT !.pc = "update"]) \/ Onward(c, Idle)
    BY <1>3, <1>4, <2>2, <2>3 DEF Onward
  <2> QED BY <2>4
<1>11. ASSUME op[c].pc \in {"handoff", "begin", "arm", "send", "show", "quit"} \/ op[c].pc = "idle",
              SameRooms, ui' = ui, role'[c].seat = role[c].seat, NEW pc, NEW r, NEW t,
              \/ op' = [op EXCEPT ![c] = Idle] \/ op' = [op EXCEPT ![c] = Calling(pc, r, t)]
              \/ op' = [op EXCEPT ![c].pc = pc] \/ (op' = op /\ op[c].pc = "idle"),
              pc \in {"handoff", "begin", "arm", "send", "end", "quit"}
       PROVE  \E o : Onward(c, o)
  <2>1. CASE op' = [op EXCEPT ![c] = Idle]
    <3>1. Onward(c, Idle)
      BY <1>0, <1>3, <1>11, <2>1 DEF Onward
    <3> QED BY <3>1
  <2>2. CASE op' = [op EXCEPT ![c] = Calling(pc, r, t)]
    <3>1. op'[c] = Calling(pc, r, t)
      BY <1>0, <2>2
    <3>2. Onward(c, Calling(pc, r, t))
      BY <1>2, <1>11, <3>1 DEF Onward
    <3> QED BY <3>2
  <2>3. CASE op' = [op EXCEPT ![c].pc = pc]
    <3>1. op'[c] = [op[c] EXCEPT !.pc = pc]
      BY <1>0, <2>3
    <3>2. Onward(c, [op[c] EXCEPT !.pc = pc])
      BY <1>4, <1>11, <3>1 DEF Onward
    <3> QED BY <3>2
  <2>4. CASE op' = op /\ op[c].pc = "idle"
    <3>1. Onward(c, op[c])
      BY <1>11, <2>4 DEF Onward
    <3> QED BY <3>1
  <2> QED BY <1>11, <2>1, <2>2, <2>3, <2>4
<1>12. CASE Match(c)
  <2>1. CASE StartMatch(c)
    <3>1. SameRooms
      BY <2>1, ShownOrHidden DEF StartMatch
    <3> QED BY <1>11, <2>1, <3>1 DEF StartMatch, Request
  <2>2. CASE StartRoomAlloc(c)
    BY <1>1, <1>11, <2>2 DEF StartRoomAlloc, Request
  <2>3. CASE Handoff(c)
    <3>1. role'[c].seat = role[c].seat
      BY <1>0, <2>3 DEF Handoff
    <3>2. op[c].pc = "handoff" /\ SameRooms /\ ui' = ui
      BY <1>1, <2>3 DEF Handoff
    <3>3. op' = [op EXCEPT ![c] = Idle] \/ \E r : op' = [op EXCEPT ![c] = Calling("begin", r, "idle")]
      BY <2>3 DEF Handoff
    <3> QED BY <1>11, <3>1, <3>2, <3>3
  <2>4. CASE BeginMatch(c)
    BY <1>1, <1>11, <2>4 DEF BeginMatch, connVars
  <2>5. CASE ArmLobby(c)
    BY <1>1, <1>11, <2>5 DEF ArmLobby, connVars
  <2>6. CASE SendHandoff(c)
    <3>1. role'[c].seat = role[c].seat
      BY <1>0, <2>6 DEF SendHandoff
    <3> QED BY <1>1, <1>11, <2>6, <3>1 DEF SendHandoff
  <2>7. CASE SetInMatch(c)
    BY <1>1, <1>11, <2>7 DEF SetInMatch, Request
  <2>8. CASE QuitMatch(c)
    BY <1>1, <1>11, <2>8 DEF QuitMatch, Request
  <2>9. CASE ShowRoom(c)
    <3>1. SameRooms
      BY <1>1, <2>9, ShownOrHidden DEF ShowRoom
    <3> QED BY <1>11, <2>9, <3>1 DEF ShowRoom, connVars
  <2>10. CASE QuitDone(c)
    <3>1. role'[c].seat = role[c].seat
      BY <1>0, <2>10 DEF QuitDone
    <3> QED BY <1>1, <1>11, <2>10, <3>1 DEF QuitDone
  <2> QED BY <1>12, <2>1, <2>2, <2>3, <2>4, <2>5, <2>6, <2>7, <2>8, <2>9, <2>10 DEF Match
<1> QED BY <1>5, <1>6, <1>7, <1>8, <1>9, <1>10, <1>12

LEMMA OtherSilent ==
  ASSUME AllInv, ViewInv, NEW c \in Conn, mail' = mail,
         \/ UpdateRegistry(c) /\ view' = view
         \/ LeaveDone(c) /\ view' = [view EXCEPT ![c] = NoSeats]
         \/ Close(c) /\ view' = [view EXCEPT ![c] = NoSeats] /\ ~Sending(c)
  PROVE  Silent(c)
<1>0. /\ DOMAIN op = Conn /\ DOMAIN ui = Conn /\ ThreadOK(op[c])
      /\ Placed(op[c], role[c], ui[c], UinOf(c), playerRoom)
      /\ Posted(mail[c], op[c], UinOf(c))
      /\ DOMAIN mail' = Conn /\ \A d \in Conn : mail'[d] = mail[d]
  BY DEF AllInv, ZoneInv, ThreadsOK, AgreeInv, ViewInv
<1>1. CASE UpdateRegistry(c) /\ view' = view
  <2>1. /\ op[c].pc = "update" /\ role' = role /\ ui' = ui
        /\ Sitting(op[c], ui[c]) /\ op[c].at = playerRoom[UinOf(c)]
    BY <1>0, <1>1 DEF UpdateRegistry, connVars, Placed, Sitting
  <2>2. SameRooms
    BY <1>1, ShownOrHidden DEF UpdateRegistry
  <2>3. mail[c] = Nothing
    BY <1>0, <2>1 DEF Posted, Leaving
  <2>4. CASE op' = [op EXCEPT ![c] = Idle]
    <3>1. op'[c] = Idle /\ Idle.pc = "idle" /\ DOMAIN Idle.snap = {}
      BY <1>0, <2>4 DEF Idle, At, R!EmptyDict
    <3> QED BY <1>0, <1>1, <2>1, <2>2, <2>3, <3>1 DEF Silent
  <2>5. CASE op' = [op EXCEPT ![c] = At("sync", op[c].at, SnapshotAfter(op[c].at), "settled")]
    <3>1. op'[c] = At("sync", op[c].at, SnapshotAfter(op[c].at), "settled")
      BY <1>0, <2>5
    <3>2. /\ op'[c].pc = "sync" /\ op'[c].then = "settled" /\ op'[c].room = op[c].at
          /\ op'[c].snap = SnapshotAfter(op[c].at)
      BY <3>1 DEF At
    <3>3. UinOf(c) \in DOMAIN SnapshotAfter(op[c].at)
      BY <2>1, <2>2, SitterFacts DEF SameRooms, SnapshotAfter, MembersOf
    <3> QED BY <1>0, <1>1, <2>1, <2>2, <2>3, <3>2, <3>3 DEF Silent
  <2> QED BY <1>1, <2>4, <2>5 DEF UpdateRegistry
<1>2. CASE LeaveDone(c) /\ view' = [view EXCEPT ![c] = NoSeats]
  <2>1. op[c].pc = "left" /\ op'[c] = Idle /\ ui'[c] = "lobby" /\ SameRooms
    BY <1>0, <1>2, ShownOrHidden DEF LeaveDone
  <2>2. Idle.pc = "idle" /\ DOMAIN Idle.snap = {}
    BY DEF Idle, At, R!EmptyDict
  <2> QED BY <1>0, <1>2, <2>1, <2>2 DEF Silent, Sitting
<1>3. CASE Close(c) /\ view' = [view EXCEPT ![c] = NoSeats] /\ ~Sending(c)
  <2>1. /\ op[c].pc = "close" /\ op'[c] = [Idle EXCEPT !.pc = "off"]
        /\ ui'[c] = "lobby" /\ SameRooms
    BY <1>0, <1>3, ShownOrHidden DEF Close
  <2>2. mail[c] = Nothing
    BY <1>0, <1>3, <2>1 DEF ThreadOK, Sending, Posted
  <2>3. op'[c].pc = "off" /\ DOMAIN op'[c].snap = {}
    BY <2>1 DEF Idle, At, R!EmptyDict
  <2> QED BY <1>0, <1>3, <2>1, <2>2, <2>3 DEF Silent, Sitting
<1> QED BY <1>1, <1>2, <1>3

-----------------------------------------------------------------------------
(* With nobody busy nothing is on its way, and with one thread busy only   *)
(* that one's message.                                                     *)
LEMMA NobodyBusy ==
  ASSUME ViewInv, Busy = {}
  PROVE  \A d \in Conn : Clear(d)
<1> SUFFICES ASSUME NEW d \in Conn PROVE Clear(d)
  OBVIOUS
<1>1. op[d].pc \in Quiet /\ ~Sending(d)
  BY DEF Busy, Quiet
<1>2. Posted(mail[d], op[d], UinOf(d))
  BY DEF ViewInv
<1> QED BY <1>1, <1>2 DEF Clear, Sending, Posted, Leaving, Quiet

LEMMA OneAtATime ==
  ASSUME Serial, ViewInv, NEW c \in Conn, op[c].pc # "off",
         op[c].pc = "idle" => Cardinality(Busy) < MaxBusy
  PROVE  OthersClear(c) /\ (op[c].pc = "idle" => Clear(c))
<1>1. CASE op[c].pc = "idle"
  <2>1. IsFiniteSet(Busy)
    BY ZoneAssumption, FS_Subset DEF ZoneAssumption, Busy
  <2>2. Cardinality(Busy) \in Nat /\ Cardinality(Busy) < 1
    BY <1>1, <2>1, FS_CardinalityType DEF Serial
  <2>3. Cardinality(Busy) = 0
    BY <2>2
  <2>4. Busy = {}
    BY <2>1, <2>3, FS_EmptySet
  <2> QED BY <2>4, NobodyBusy DEF OthersClear
<1>2. CASE op[c].pc # "idle"
  BY <1>2 DEF ViewInv, OthersClear, Clear, Quiet
<1> QED BY <1>1, <1>2

(* The spawner's half of a create and of a join is never refused.          *)
LEMMA NeverRefused ==
  ASSUME AllInv, NEW c \in Conn
  PROVE  ~CreateRefused(c) /\ ~JoinHalf(c)
<1>0. /\ Placed(op[c], role[c], ui[c], UinOf(c), playerRoom)
      /\ Between(op[c], role[c], UinOf(c), MembersNow, PlayersNow)
  BY DEF AllInv, AgreeInv
<1>1. ASSUME CreateRefused(c) PROVE FALSE
  <2>1. UinOf(c) \notin DOMAIN playerRoom
    BY <1>0, <1>1 DEF CreateRefused, Placed, Outside
  <2>2. op[c].at \in RoomId /\ MembersNow[op[c].at] = {}
    BY <1>0, <1>1 DEF CreateRefused, Between
  <2>3. op[c].at \notin DOMAIN rooms
    BY <2>2 DEF AllInv, RegOK, MembersNow
  <2> QED BY <1>1, <2>1, <2>3 DEF CreateRefused
<1>2. ASSUME JoinHalf(c) PROVE FALSE
  <2>1. op[c].room \in RoomId /\ PlayersNow[op[c].room] # {}
    BY <1>0, <1>2 DEF JoinHalf, Between
  <2> QED BY <1>2, <2>1, TablesAre DEF JoinHalf
<1> QED BY <1>1, <1>2

(* What the code tells nobody about.                                       *)
LEMMA UntoldSteps ==
  ASSUME Serial, AllInv, AllInv', ViewInv, NEW c \in Conn, op[c].pc # "off", ~Sending(c),
         op[c].pc = "idle" => Cardinality(Busy) < MaxBusy,
         BackInLobby(c) \/ (Untold(c) /\ ~JoinRegister(c))
  PROVE  ViewInv'
<1>1. OthersClear(c) /\ (op[c].pc = "idle" => Clear(c))
  BY OneAtATime
<1>2. CASE BackInLobby(c)
  <2>1. Silent(c)
    BY <1>2, OtherSilent DEF BackInLobby
  <2>2. Apart(c)
    BY <1>2, StepsApart DEF BackInLobby, Depart
  <2> QED BY <1>1, <2>1, <2>2, SilentStep
<1>3. CASE Untold(c) /\ ~JoinRegister(c)
  <2>1. \/ RoomList(c) \/ DisconnectSync(c) \/ Spawner(c) \/ Match(c)
        \/ UpdateSettings(c) \/ UpdateRegistry(c)
        \/ \E r \in RoomId : CreateReserve(c, r) \/ Settings(c, r)
    BY <1>3, NeverRefused DEF Untold, Connect
  <2>2. Apart(c)
    BY <2>1, StepsApart DEF Create, Depart, Lobby
  <2>3. view' = view
    BY <1>3 DEF Untold
  <2>4. CASE UpdateRegistry(c)
    <3>1. mail' = mail
      BY <1>3, <2>4 DEF Untold, UpdateRegistry
    <3> QED BY <1>1, <2>2, <2>3, <2>4, <3>1, OtherSilent, SilentStep
  <2>5. CASE ~UpdateRegistry(c)
    <3>1. PICK o : Onward(c, o)
      BY <2>1, <2>5, OnwardSteps
    <3>2. mail' = mail
      BY <1>3, <3>1 DEF Untold, Onward
    <3> QED BY <1>1, <2>2, <2>3, <3>1, <3>2, OnwardSilent, SilentStep
  <2> QED BY <2>4, <2>5
<1> QED BY <1>2, <1>3

(* A login: the client is in the lobby.                                    *)
LEMMA LoggedIn ==
  ASSUME Serial, AllInv, ViewInv, NEW c \in Conn, Connect(c), UNCHANGED <<view, mail>>
  PROVE  ViewInv'
<1>0. /\ DOMAIN op = Conn /\ DOMAIN session = Uin /\ UinOf(c) \in Uin
      /\ Placed(op[c], role[c], ui[c], UinOf(c), playerRoom)
      /\ Posted(mail[c], op[c], UinOf(c))
  BY ZoneFacts DEF AllInv, ZoneInv, ThreadsOK, AgreeInv, ViewInv
<1>1. /\ op[c].pc = "off" /\ op'[c] = Idle /\ ui' = ui /\ role' = role /\ rooms' = rooms
      /\ playerRoom' = playerRoom /\ session'[UinOf(c)] = c[2] /\ DOMAIN session' = Uin
      /\ \A d \in Conn \ {c} : op'[d] = op[d] /\ session'[UinOf(d)] = session[UinOf(d)]
      /\ view' = view /\ mail' = mail
  BY <1>0 DEF Connect, registryVars, Serial
<1>2. mail[c] = Nothing /\ ui[c] = "lobby"
  BY <1>0, <1>1 DEF Posted, Leaving, Placed, Outside
<1>3. op'[c].pc = "idle" /\ DOMAIN op'[c].snap = {}
  BY <1>1 DEF Idle, At, R!EmptyDict
<1>4. \A d \in Conn : Clear(d)' <=> Clear(d)
  BY <1>1, <1>2, <1>3 DEF Clear, Quiet
<1>5. \A d \in Conn : Posted(mail'[d], op'[d], UinOf(d))
  BY <1>0, <1>1, <1>2, <1>3 DEF ViewInv, Posted
<1>6. \A d \in Conn : MembersOf(d)' = MembersOf(d) /\ SeatOf(d)' = SeatOf(d)
  BY <1>1 DEF MembersOf, SeatOf
<1>7. ~Sitting(op'[c], ui'[c]) /\ ~Joining(c)' /\ ~Viewing(c)'
  BY <1>1, <1>2, <1>3 DEF Sitting, Joining, Viewing
<1>8. ASSUME NEW d \in Conn PROVE Current(d)'
  <2>1. CASE d = c
    BY <1>1, <1>2, <1>3, <1>7, <2>1 DEF Current, Nothing
  <2>2. CASE d # c
    <3>1. Current(d) /\ op'[d] = op[d] /\ session'[UinOf(d)] = session[UinOf(d)]
      BY <1>1, <2>2 DEF ViewInv
    <3>2. Joining(d)' <=> Joining(d)
      BY <1>1, <3>1 DEF Joining
    <3> QED BY <1>1, <1>6, <3>1, <3>2 DEF Current
  <2> QED BY <2>1, <2>2
<1>9. ASSUME NEW d \in Conn PROVE Right(d)'
  <2>1. CASE d = c
    BY <1>7, <2>1 DEF Right
  <2>2. CASE d # c
    <3>1. Viewing(d)' <=> Viewing(d)
      BY <1>1, <2>2 DEF Viewing, Joining
    <3>2. \A e \in Conn : Owes(e, d)' <=> Owes(e, d)
      BY <1>1 DEF Owes
    <3>3. \A e \in Conn : e = c \/ Letter(e)' = Letter(e)
      BY <1>1 DEF Letter, OwnSeat
    <3>4. ~Owes(c, d)
      BY <1>2 DEF Owes, Nothing
    <3>5. Right(d)
      BY DEF ViewInv
    <3> QED BY <1>1, <1>6, <3>1, <3>2, <3>3, <3>4, <3>5 DEF Right
  <2> QED BY <2>1, <2>2
<1> QED BY <1>1, <1>4, <1>5, <1>8, <1>9 DEF ViewInv

-----------------------------------------------------------------------------
(* A request that changes room r and posts its news.  Everybody else in    *)
(* the room keeps the seat, and whoever sits in it is told what makes a    *)
(* right picture of the room a right picture of it as it is now.           *)
News(c, r) ==
  /\ r \in DOMAIN rooms /\ view' = view
  /\ DOMAIN mail' = Conn /\ \A d \in Conn \ {c} : mail'[d] = mail[d]
  /\ \A q \in DOMAIN rooms \ {r} : q \in DOMAIN rooms' /\ rooms'[q].members = rooms[q].members
  /\ \A d \in Conn \ {c} : UinOf(d) \in DOMAIN playerRoom =>
        playerRoom'[UinOf(d)] = playerRoom[UinOf(d)]
  /\ \A v \in DOMAIN rooms[r].members \ {UinOf(c)} :
        rooms'[r].members[v].seat = rooms[r].members[v].seat
  /\ Viewing(c)' => Viewing(c) /\ playerRoom'[UinOf(c)] = playerRoom[UinOf(c)]
                      /\ playerRoom[UinOf(c)] = r
  /\ \A e \in Conn : Viewing(e) /\ playerRoom[UinOf(e)] # r => ~Owes(c, e)'

Told(c, r) ==
  \A e \in Conn : \A v :
    Viewing(e) /\ Viewing(e)' /\ playerRoom[UinOf(e)] = r /\ Shows(v, rooms[r].members)
      => Shows(IF Owes(c, e)' THEN Shown(v, Letter(c)') ELSE v, rooms'[r].members)

LEMMA NewsStep ==
  ASSUME Serial, ViewInv, AllInv, NEW c \in Conn, OthersClear(c), Clear(c), Apart(c),
         NEW r \in RoomId, News(c, r), Told(c, r),
         Posted(mail'[c], op'[c], UinOf(c)), Current(c)'
  PROVE  ViewInv'
<1>1. /\ view' = view /\ DOMAIN mail' = Conn /\ \A d \in Conn \ {c} : mail'[d] = mail[d]
      /\ DOMAIN view' = Conn
  BY DEF News, ViewInv
<1>2. ASSUME NEW d \in Conn \ {c}, Sitting(op[d], ui[d])
      PROVE  /\ playerRoom'[UinOf(d)] = playerRoom[UinOf(d)]
             /\ playerRoom[UinOf(d)] # r => MembersOf(d)' = MembersOf(d)
             /\ SeatOf(d)' = SeatOf(d) \/ UinOf(d) = UinOf(c)
  <2>1. playerRoom'[UinOf(d)] = playerRoom[UinOf(d)]
    BY <1>2, SitterFacts DEF News
  <2>2. CASE playerRoom[UinOf(d)] # r
    BY <1>2, <2>1, <2>2, SitterFacts DEF News, MembersOf, SeatOf
  <2>3. CASE playerRoom[UinOf(d)] = r
    BY <1>2, <2>1, <2>3, SitterFacts DEF News, MembersOf, SeatOf
  <2> QED BY <2>1, <2>2, <2>3
<1>3. ASSUME NEW e \in Conn, Viewing(e)' PROVE RightBy(c, e)'
  <2>1. Viewing(e) /\ playerRoom'[UinOf(e)] = playerRoom[UinOf(e)]
    <3>1. CASE e = c
      BY <1>3, <3>1 DEF News
    <3>2. CASE e # c
      <4>1. op'[e] = op[e] /\ ui'[e] = ui[e] /\ mail'[e] = mail[e]
        BY <1>1, <3>2 DEF Apart
      <4>2. Viewing(e)
        BY <1>3, <4>1 DEF Viewing, Joining
      <4> QED BY <1>2, <3>2, <4>2 DEF Viewing
    <3> QED BY <3>1, <3>2
  <2>2. Shows(view[e], MembersOf(e))
    <3>1. RightBy(c, e) /\ ~Owes(c, e)
      BY <2>1, RightAlone DEF ViewInv, Clear, Owes, Nothing
    <3> QED BY <3>1 DEF RightBy
  <2>3. CASE playerRoom[UinOf(e)] = r
    <3>1. MembersOf(e) = rooms[r].members /\ MembersOf(e)' = rooms'[r].members
      BY <2>1, <2>3 DEF MembersOf
    <3>2. PICK v : v = view[e]
      OBVIOUS
    <3>3. Shows(IF Owes(c, e)' THEN Shown(v, Letter(c)') ELSE v, rooms'[r].members)
      BY <1>3, <2>1, <2>2, <2>3, <3>1, <3>2 DEF Told
    <3> QED BY <1>1, <3>1, <3>2, <3>3 DEF RightBy
  <2>4. CASE playerRoom[UinOf(e)] # r
    <3>1. e # c
      BY <1>3, <2>4 DEF News
    <3>2. MembersOf(e)' = MembersOf(e) /\ ~Owes(c, e)'
      BY <1>2, <2>1, <2>4, <3>1 DEF News, Viewing
    <3> QED BY <1>1, <2>2, <3>2 DEF RightBy
  <2> QED BY <2>3, <2>4
<1>4. \A d \in Conn \ {c} : Sitting(op[d], ui[d]) => SeatOf(d)' = SeatOf(d)
  BY <1>2 DEF Serial
<1> QED BY <1>1, <1>3, <1>4, ViewStep

LEMMA JoinedNews ==
  ASSUME Serial, ViewInv, AllInv, AllInv', SeatsOK', NEW c \in Conn, NEW r \in RoomId,
         OthersClear(c), Clear(c), JoinNoted(c, r)
  PROVE  ViewInv'
<1> DEFINE u == UinOf(c)
<1>0. /\ DOMAIN op = Conn /\ DOMAIN mail = Conn /\ DOMAIN view = Conn /\ u \in Uin
      /\ Placed(op[c], role[c], ui[c], u, playerRoom)
      /\ \A q \in DOMAIN rooms : DOMAIN rooms[q] =
           {"owner", "fighters", "observers", "locked", "started", "members"}
      /\ \A q \in DOMAIN rooms : q \in RoomId /\ DOMAIN rooms[q].members = Members(playerRoom, q)
                                   /\ Members(playerRoom, q) # {}
  BY ZoneFacts DEF AllInv, ZoneInv, ThreadsOK, RoomsOK, AgreeInv, ViewInv, RegOK
<1>1. JoinRegistry(c, r) /\ op[c].pc = "idle" /\ ui[c] = "lobby" /\ ui' = ui
  BY DEF JoinNoted, JoinRegistry, Request
<1>2. u \notin DOMAIN playerRoom
  BY <1>0, <1>1 DEF Placed, Outside
<1>3. R!JoinRoom(u, r, TRUE, FALSE)
  BY <1>1, <1>2 DEF JoinRegistry, R!InRoom
<1>4. PICK e : /\ rooms' = [rooms EXCEPT ![r].members = R!With(rooms[r].members, u, e)]
               /\ r \in DOMAIN rooms /\ playerRoom' = R!With(playerRoom, u, r)
               /\ e.seat \in {e.seat}
  BY <1>3 DEF R!JoinRoom
<1> DEFINE m == rooms[r].members
           n == R!With(m, u, e)
           l == mail'[c]
<1>5. /\ rooms'[r].members = n /\ DOMAIN rooms' = DOMAIN rooms
      /\ \A q \in DOMAIN rooms \ {r} : rooms'[q] = rooms[q]
  BY <1>0, <1>4
<1>6. DOMAIN m = Members(playerRoom, r) /\ u \notin DOMAIN m /\ DOMAIN m # {}
  BY <1>0, <1>2, <1>4 DEF Members
<1>7. DOMAIN n = DOMAIN m \cup {u} /\ n[u] = e /\ \A v \in DOMAIN m : n[v] = m[v]
  BY <1>6 DEF R!With
<1>8. MembersOK(n)
  BY <1>4, <1>5 DEF SeatsOK
<1> HIDE DEF m, n
<1>9. /\ l = [About("A106", 0, e.seat) EXCEPT !.seats = Seated(n), !.to = DOMAIN n \ {u}]
      /\ DOMAIN mail' = Conn /\ view' = view /\ \A d \in Conn \ {c} : mail'[d] = mail[d]
  BY <1>0, <1>5, <1>7 DEF JoinNoted
<1>10. /\ l.cmd = "A106" /\ l.room = 0 /\ l.seat = e.seat /\ l.seats = Seated(n)
       /\ l.to = DOMAIN m /\ DOMAIN l = {"cmd", "seat", "from", "seats", "room", "to"}
  <2>1. l.to = DOMAIN n \ {u} /\ DOMAIN n \ {u} = DOMAIN m
    BY <1>6, <1>7, <1>9 DEF About, Nothing
  <2> QED BY <1>9, <2>1 DEF About, Nothing
<1> HIDE DEF l
<1>11. /\ op'[c].pc = "register" /\ op'[c].room = r
       /\ op'[c].snap = [v \in DOMAIN n |-> n[v].seat]
  <2>1. op'[c] = At("register", r, SnapshotAfter(r), "idle")
    BY <1>0, <1>1 DEF JoinRegistry
  <2>2. SnapshotAfter(r) = [v \in DOMAIN n |-> n[v].seat]
    BY <1>4, <1>5 DEF SnapshotAfter
  <2> QED BY <2>1, <2>2 DEF At
<1>12. playerRoom'[u] = r /\ \A v \in DOMAIN playerRoom : playerRoom'[v] = playerRoom[v]
  BY <1>2, <1>4 DEF R!With
<1>13. Apart(c)
  BY <1>1, StepsApart DEF Join
<1>14. MembersOf(c)' = n
  BY <1>5, <1>12 DEF MembersOf
<1>15. ~Sitting(op'[c], ui'[c]) /\ ~Viewing(c)'
  BY <1>11 DEF Sitting, Viewing
<1>16. Letter(c)' = l
  BY <1>11 DEF Letter, l
<1>17. News(c, r)
  <2>1. \A v \in DOMAIN m \ {u} : n[v].seat = m[v].seat
    BY <1>7
  <2>2. ASSUME NEW d \in Conn, Viewing(d), playerRoom[UinOf(d)] # r PROVE ~Owes(c, d)'
    <3>1. UinOf(d) \notin DOMAIN m
      BY <1>6, <2>2 DEF Members
    <3> QED BY <1>10, <3>1 DEF Owes, l
  <2>3. \A v \in DOMAIN rooms[r].members \ {u} : rooms'[r].members[v].seat = rooms[r].members[v].seat
    BY <1>5, <2>1 DEF m
  <2>4. \A q \in DOMAIN rooms \ {r} : q \in DOMAIN rooms' /\ rooms'[q].members = rooms[q].members
    BY <1>5
  <2> QED BY <1>4, <1>9, <1>12, <1>15, <2>2, <2>3, <2>4 DEF News
<1>18. Told(c, r)
  <2> SUFFICES ASSUME NEW d \in Conn, NEW v, Viewing(d), Viewing(d)',
                      playerRoom[UinOf(d)] = r, Shows(v, m)
               PROVE  Owes(c, d)' /\ Shows(Shown(v, l), n)
    BY <1>5, <1>16 DEF Told, m
  <2>1. UinOf(d) \in DOMAIN m
    BY <1>6, SitterFacts DEF Viewing, Members
  <2>2. Owes(c, d)'
    BY <1>10, <2>1 DEF Owes, l
  <2>3. Shows(Shown(v, l), n)
    BY <1>6, <1>8, <1>10, JoinShown DEF n
  <2> QED BY <2>2, <2>3
<1>19. Posted(mail'[c], op'[c], u)
  BY <1>6, <1>10, <1>11 DEF Posted, l
<1>20. Current(c)'
  <2>1. session'[u] = c[2]
    BY <1>0, <1>1, <1>13 DEF Apart, ViewInv, Current
  <2>2. Shows(mail'[c].seats, MembersOf(c)')
    BY <1>8, <1>10, <1>14, SeatedFacts DEF l
  <2> QED BY <1>5, <1>7, <1>11, <1>15, <2>1, <2>2 DEF Current
<1> QED BY <1>13, <1>17, <1>18, <1>19, <1>20, NewsStep

(* A110 and A10D change the entry of the player who asks, and go on to the *)
(* sync.                                                                   *)
Rewrites(c, r, x, l) ==
  /\ op[c].pc = "idle" /\ ui[c] = "room" /\ ui' = ui /\ view' = view
  /\ r = playerRoom[UinOf(c)] /\ playerRoom' = playerRoom
  /\ rooms' = [rooms EXCEPT ![r].members[UinOf(c)] = x]
  /\ \E t \in {"idle", "moved"} : op' = [op EXCEPT ![c] = At("sync", r, SnapshotAfter(r), t)]
  /\ mail' = [mail EXCEPT ![c] = l]
  /\ l = Nothing \/ l.room = r
  /\ l.to = {} /\ l.cmd \in {"none", "A112", "A10F"}

LEMMA OwnEntry ==
  ASSUME Serial, ViewInv, AllInv, SeatsOK', NEW c \in Conn, Clear(c), Apart(c),
         NEW r, NEW x, NEW l, Rewrites(c, r, x, l)
  PROVE  /\ News(c, r) /\ Current(c)' /\ r \in RoomId /\ r \in DOMAIN rooms /\ r # 0
         /\ UinOf(c) \in DOMAIN rooms[r].members
         /\ DOMAIN rooms'[r].members = DOMAIN rooms[r].members
         /\ rooms'[r].members[UinOf(c)] = x
         /\ \A v \in DOMAIN rooms[r].members \ {UinOf(c)} :
              rooms'[r].members[v] = rooms[r].members[v]
         /\ MembersOK(rooms'[r].members)
         /\ mail'[c] = l /\ op'[c].pc = "sync" /\ OwnSeat(c)' = x.seat
<1> DEFINE u == UinOf(c)
           m == rooms[r].members
           n == rooms'[r].members
<1>a. /\ op[c].pc = "idle" /\ ui[c] = "room" /\ ui' = ui /\ view' = view
      /\ r = playerRoom[UinOf(c)] /\ playerRoom' = playerRoom
      /\ rooms' = [rooms EXCEPT ![r].members[UinOf(c)] = x]
      /\ mail' = [mail EXCEPT ![c] = l]
      /\ l = Nothing \/ l.room = r
      /\ l.to = {} /\ l.cmd \in {"none", "A112", "A10F"}
  BY DEF Rewrites
<1>b. PICK t \in {"idle", "moved"} : op' = [op EXCEPT ![c] = At("sync", r, SnapshotAfter(r), t)]
  BY DEF Rewrites
<1>0. /\ DOMAIN op = Conn /\ DOMAIN mail = Conn /\ u \in Uin
      /\ \A q \in DOMAIN rooms : DOMAIN rooms[q] =
           {"owner", "fighters", "observers", "locked", "started", "members"}
  BY ZoneFacts DEF AllInv, ZoneInv, ThreadsOK, RoomsOK, ViewInv
<1>1. Sitting(op[c], ui[c]) /\ Viewing(c)
  BY <1>a DEF Sitting, Viewing, Joining
<1>2. r \in RoomId /\ r # 0 /\ r \in DOMAIN rooms /\ u \in DOMAIN playerRoom /\ u \in DOMAIN m
  BY <1>a, <1>1, SitterFacts DEF MembersOf
<1>3. /\ DOMAIN n = DOMAIN m /\ n[u] = x /\ \A v \in DOMAIN m \ {u} : n[v] = m[v]
      /\ DOMAIN rooms' = DOMAIN rooms /\ \A q \in DOMAIN rooms \ {r} : rooms'[q] = rooms[q]
  BY <1>a, <1>0, <1>2
<1>4. MembersOK(n)
  BY <1>2, <1>3 DEF SeatsOK
<1>5. mail'[c] = l /\ DOMAIN mail' = Conn /\ \A d \in Conn \ {c} : mail'[d] = mail[d]
  BY <1>a, <1>0
<1>6. SnapshotAfter(r) = [v \in DOMAIN n |-> n[v].seat]
  BY <1>2, <1>3 DEF SnapshotAfter
<1>7. /\ op'[c].pc = "sync" /\ op'[c].room = r /\ op'[c].then = t
      /\ op'[c].snap = [v \in DOMAIN n |-> n[v].seat]
  BY <1>b, <1>0, <1>6 DEF At
<1>8. OwnSeat(c)' = x.seat
  BY <1>2, <1>3, <1>7 DEF OwnSeat
<1>9. News(c, r)
  <2>1. \A v \in DOMAIN m \ {u} : n[v].seat = m[v].seat
    BY <1>3
  <2>2. \A q \in DOMAIN rooms \ {r} : q \in DOMAIN rooms' /\ rooms'[q].members = rooms[q].members
    BY <1>3
  <2>3. \A d \in Conn : playerRoom[UinOf(d)] # r => ~Owes(c, d)'
    BY <1>a, <1>5 DEF Owes, Nothing
  <2> QED BY <1>a, <1>1, <1>2, <1>5, <2>1, <2>2, <2>3 DEF News
<1>10. Current(c)'
  <2>1. session'[u] = c[2]
    BY <1>a, <1>0 DEF Apart, ViewInv, Current
  <2>2. ~Joining(c)' /\ mail'[c].cmd # "A109"
    BY <1>a, <1>5, <1>7 DEF Joining
  <2> QED BY <1>2, <1>3, <1>7, <2>1, <2>2 DEF Current
<1> QED BY <1>2, <1>3, <1>4, <1>5, <1>7, <1>8, <1>9, <1>10

LEMMA ReadyNews ==
  ASSUME Serial, ViewInv, AllInv, SeatsOK, SeatsOK', NEW c \in Conn, NEW b \in BOOLEAN,
         OthersClear(c), Clear(c), ReadyNoted(c, b)
  PROVE  ViewInv'
<1> DEFINE u == UinOf(c)
<1>1. SetReady(c, b) /\ op[c].pc = "idle" /\ ui[c] = "room" /\ ui' = ui /\ view' = view
  BY DEF ReadyNoted, SetReady, Request
<1>2. Apart(c)
  BY <1>1, StepsApart DEF Lobby
<1>3. PICK r, x, l :
        /\ r = playerRoom[u] /\ x = [rooms[r].members[u] EXCEPT !.ready = b]
        /\ l = IF b THEN About("A112", r, 0) ELSE Nothing
        /\ rooms' = [rooms EXCEPT ![r].members[u] = x] /\ playerRoom' = playerRoom
        /\ op' = [op EXCEPT ![c] = At("sync", r, SnapshotAfter(r), "idle")]
        /\ mail' = [mail EXCEPT ![c] = l]
  BY DEF ReadyNoted, SetReady, R!SetReady
<1>4. /\ b => (l.cmd = "A112" /\ l.room = r)
      /\ ~b => l = Nothing
      /\ l.to = {} /\ l.cmd \in {"none", "A112"}
      /\ DOMAIN l = {"cmd", "seat", "from", "seats", "room", "to"}
      /\ DOMAIN [l EXCEPT !.seat = x.seat] = DOMAIN l
      /\ [l EXCEPT !.seat = x.seat].cmd = l.cmd /\ [l EXCEPT !.seat = x.seat].seat = x.seat
  BY <1>3 DEF About, Nothing
<1>5. l = Nothing \/ l.room = r
  BY <1>4
<1>6. /\ News(c, r) /\ Current(c)' /\ r \in RoomId /\ r \in DOMAIN rooms /\ r # 0
      /\ u \in DOMAIN rooms[r].members
      /\ DOMAIN rooms'[r].members = DOMAIN rooms[r].members
      /\ rooms'[r].members[u] = x
      /\ \A v \in DOMAIN rooms[r].members \ {u} : rooms'[r].members[v] = rooms[r].members[v]
      /\ mail'[c] = l /\ op'[c].pc = "sync" /\ OwnSeat(c)' = x.seat
  <2>1. Rewrites(c, r, x, l)
    BY <1>1, <1>3, <1>4, <1>5 DEF Rewrites
  <2> QED BY <1>2, <2>1, OwnEntry
<1>7. MembersOK(rooms[r].members)
  BY <1>6 DEF SeatsOK
<1>8. x.seat = rooms[r].members[u].seat /\ (x.ready <=> b)
  BY <1>3, <1>6, <1>7 DEF MembersOK
<1>9. Posted(mail'[c], op'[c], u)
  BY <1>4, <1>6 DEF Posted
<1>10. Told(c, r)
  <2> SUFFICES ASSUME NEW d \in Conn, NEW v, Viewing(d), Viewing(d)',
                      playerRoom[UinOf(d)] = r, Shows(v, rooms[r].members)
               PROVE  Shows(IF Owes(c, d)' THEN Shown(v, Letter(c)') ELSE v, rooms'[r].members)
    BY DEF Told
  <2>1. CASE b
    <3>1. Letter(c)' = [l EXCEPT !.seat = x.seat] /\ Owes(c, d)'
      BY <1>3, <1>4, <1>6, <2>1 DEF Letter, Owes
    <3>2. \A w \in DOMAIN rooms[r].members : rooms'[r].members[w].seat = rooms[r].members[w].seat
      BY <1>6, <1>8
    <3>3. PICK p : p = Letter(c)' /\ p.cmd = "A112" /\ p.seat = rooms[r].members[u].seat
      BY <1>4, <1>8, <2>1, <3>1
    <3>4. Shows(Shown(v, p), rooms'[r].members)
      BY <1>6, <1>7, <3>2, <3>3, ReadyShown
    <3> QED BY <3>1, <3>3, <3>4
  <2>2. CASE ~b
    <3>1. ~Owes(c, d)'
      BY <1>4, <1>6, <2>2 DEF Owes, Nothing
    <3>2. \A w \in DOMAIN rooms[r].members :
            /\ rooms'[r].members[w].seat = rooms[r].members[w].seat
            /\ rooms'[r].members[w].ready => rooms[r].members[w].ready
      BY <1>6, <1>8, <2>2
    <3>3. Shows(v, rooms'[r].members)
      BY <1>6, <3>2, SameShown
    <3> QED BY <3>1, <3>3
  <2> QED BY <2>1, <2>2
<1> QED BY <1>2, <1>6, <1>9, <1>10, NewsStep

LEMMA MoveNews ==
  ASSUME Serial, ViewInv, AllInv, SeatsOK, SeatsOK', NEW c \in Conn, NEW k \in {0, 1},
         OthersClear(c), Clear(c), MoveNoted(c, k)
  PROVE  ViewInv'
<1> DEFINE u == UinOf(c)
<1>1. ChangeCamp(c, k) /\ op[c].pc = "idle" /\ ui[c] = "room" /\ ui' = ui /\ view' = view
  BY DEF MoveNoted, ChangeCamp, Request
<1>2. Apart(c)
  BY <1>1, StepsApart DEF Lobby
<1>3. PICK s : R!MoveMember(u, s, k)
  BY <1>1 DEF ChangeCamp
<1>4. PICK r, x :
        /\ r = playerRoom[u] /\ x = [rooms[r].members[u] EXCEPT !.seat = s, !.camp = k]
        /\ rooms' = [rooms EXCEPT ![r].members[u] = x] /\ playerRoom' = playerRoom
        /\ op' = [op EXCEPT ![c] = At("sync", r, SnapshotAfter(r), "moved")]
  BY <1>1, <1>3 DEF ChangeCamp, R!MoveMember
<1>5. PICK l : /\ l = [About("A10F", r, rooms'[r].members[u].seat)
                         EXCEPT !.from = rooms[r].members[u].seat]
               /\ mail' = [mail EXCEPT ![c] = l]
  BY <1>4 DEF MoveNoted
<1>6. /\ l.cmd = "A10F" /\ l.room = r /\ l.seat = rooms'[r].members[u].seat
      /\ l.from = rooms[r].members[u].seat /\ l.to = {}
      /\ DOMAIN l = {"cmd", "seat", "from", "seats", "room", "to"}
  BY <1>5 DEF About, Nothing
<1>7. /\ News(c, r) /\ Current(c)' /\ r \in RoomId /\ r \in DOMAIN rooms /\ r # 0
      /\ u \in DOMAIN rooms[r].members
      /\ DOMAIN rooms'[r].members = DOMAIN rooms[r].members
      /\ rooms'[r].members[u] = x
      /\ \A v \in DOMAIN rooms[r].members \ {u} : rooms'[r].members[v] = rooms[r].members[v]
      /\ MembersOK(rooms'[r].members)
      /\ mail'[c] = l /\ op'[c].pc = "sync"
  <2>1. Rewrites(c, r, x, l)
    BY <1>1, <1>4, <1>5, <1>6 DEF Rewrites
  <2> QED BY <1>2, <2>1, OwnEntry
<1>8. MembersOK(rooms[r].members)
  BY <1>7 DEF SeatsOK
<1>9. Posted(mail'[c], op'[c], u)
  BY <1>6, <1>7 DEF Posted
<1>10. Told(c, r)
  <2> SUFFICES ASSUME NEW d \in Conn, NEW v, Viewing(d), Viewing(d)',
                      playerRoom[UinOf(d)] = r, Shows(v, rooms[r].members)
               PROVE  Shows(IF Owes(c, d)' THEN Shown(v, Letter(c)') ELSE v, rooms'[r].members)
    BY DEF Told
  <2>1. Letter(c)' = l /\ Owes(c, d)'
    BY <1>4, <1>6, <1>7 DEF Letter, Owes
  <2>2. \A w \in DOMAIN rooms[r].members : rooms'[r].members[w].ready = rooms[r].members[w].ready
    <3>1. x.ready = rooms[r].members[u].ready
      BY <1>4, <1>7, <1>8 DEF MembersOK
    <3> QED BY <1>7, <3>1
  <2>3. Shows(Shown(v, l), rooms'[r].members)
    BY <1>6, <1>7, <1>8, <2>2, MoveShown
  <2> QED BY <2>1, <2>3
<1> QED BY <1>2, <1>7, <1>9, <1>10, NewsStep

(* A player who leaves, one way or the other.                              *)
LEMMA RestStays ==
  ASSUME AllInv, SeatsOK, NEW u \in DOMAIN playerRoom, R!LeaveRoom(u), NEW r, r = playerRoom[u]
  PROVE  /\ r \in RoomId /\ r # 0 /\ r \in DOMAIN rooms /\ u \in DOMAIN rooms[r].members
         /\ R!InRoom(u) /\ playerRoom' = R!Without(playerRoom, u)
         /\ \A q \in DOMAIN rooms \ {r} : q \in DOMAIN rooms' /\ rooms'[q].members = rooms[q].members
         /\ \A v \in DOMAIN rooms[r].members \ {u} :
              /\ DOMAIN rooms'[r].members = DOMAIN rooms[r].members \ {u}
              /\ rooms'[r].members[v].seat = rooms[r].members[v].seat
              /\ rooms'[r].members[v].ready = rooms[r].members[v].ready
<1> DEFINE m == rooms[r].members
           rest == R!Without(m, u)
<1>1. r \in RoomId /\ r # 0 /\ u \in Members(playerRoom, r)
  BY ZoneAssumption DEF AllInv, RegOK, RoomId, Members
<1>2. r \in DOMAIN rooms /\ u \in DOMAIN m /\ MembersOK(m)
  BY <1>1 DEF AllInv, RegOK, SeatsOK
<1>3. DOMAIN rooms[r] = {"owner", "fighters", "observers", "locked", "started", "members"}
  BY <1>2 DEF AllInv, ZoneInv, RoomsOK
<1>4. R!InRoom(u) /\ playerRoom' = R!Without(playerRoom, u)
  BY <1>2 DEF R!InRoom, R!LeaveRoom
<1>5. rooms' = IF DOMAIN m = {u} THEN R!Without(rooms, r)
               ELSE [rooms EXCEPT ![r] = R!RoomAfterLeave(rooms[r], u)]
  BY <1>4 DEF R!LeaveRoom
<1>6. \A q \in DOMAIN rooms \ {r} : q \in DOMAIN rooms' /\ rooms'[q].members = rooms[q].members
  BY <1>5 DEF R!Without
<1>7. DOMAIN rest = DOMAIN m \ {u} /\ \A v \in DOMAIN m \ {u} : rest[v] = m[v]
  BY DEF R!Without
<1> HIDE DEF m, rest
<1>8. \/ R!RoomAfterLeave(rooms[r], u).members = rest
      \/ \E h : R!RoomAfterLeave(rooms[r], u).members =
                  [v \in DOMAIN rest |-> [rest[v] EXCEPT !.owner = (v = h)]]
  BY <1>3 DEF R!RoomAfterLeave, m, rest
<1>9. ASSUME NEW v \in DOMAIN m \ {u}
      PROVE  /\ DOMAIN rooms'[r].members = DOMAIN m \ {u}
             /\ rooms'[r].members[v].seat = m[v].seat
             /\ rooms'[r].members[v].ready = m[v].ready
  <2>1. rooms'[r] = R!RoomAfterLeave(rooms[r], u)
    BY <1>2, <1>5, <1>9
  <2>2. DOMAIN m[v] = {"seat", "ready", "owner", "camp", "observer"}
    BY <1>2 DEF MembersOK
  <2>3. CASE R!RoomAfterLeave(rooms[r], u).members = rest
    BY <1>7, <2>1, <2>3
  <2>4. ASSUME NEW h, R!RoomAfterLeave(rooms[r], u).members =
                        [w \in DOMAIN rest |-> [rest[w] EXCEPT !.owner = (w = h)]]
        PROVE  /\ DOMAIN rooms'[r].members = DOMAIN m \ {u}
               /\ rooms'[r].members[v].seat = m[v].seat
               /\ rooms'[r].members[v].ready = m[v].ready
    <3>1. rooms'[r].members[v] = [m[v] EXCEPT !.owner = (v = h)]
      BY <1>7, <2>1, <2>4
    <3> QED BY <1>7, <2>1, <2>2, <2>4, <3>1
  <2> QED BY <1>8, <2>3, <2>4
<1> QED BY <1>1, <1>2, <1>4, <1>6, <1>9 DEF m

LEMMA LeaverNews ==
  ASSUME Serial, ViewInv, AllInv, SeatsOK, NEW c \in Conn, OthersClear(c), Clear(c), Apart(c),
         UinOf(c) \in DOMAIN playerRoom, R!LeaveRoom(UinOf(c)),
         NEW r, r = playerRoom[UinOf(c)], op[c].pc = "idle", view' = view,
         op'[c].pc \in {"leave", "bye"}, op'[c].room = r, op'[c].snap = SnapshotAfter(r),
         mail' = [mail EXCEPT ![c] = About("A109", r, rooms[r].members[UinOf(c)].seat)]
  PROVE  ViewInv'
<1> DEFINE u == UinOf(c)
<1>0. DOMAIN op = Conn /\ DOMAIN mail = Conn /\ u \in Uin
  BY ZoneFacts DEF AllInv, ZoneInv, ThreadsOK, ViewInv
<1>1. PICK l : l = mail'[c]
  OBVIOUS
<1>2. /\ l.cmd = "A109" /\ l.room = r /\ l.seat = rooms[r].members[u].seat /\ l.to = {}
      /\ DOMAIN l = {"cmd", "seat", "from", "seats", "room", "to"}
      /\ DOMAIN mail' = Conn /\ \A d \in Conn \ {c} : mail'[d] = mail[d]
  BY <1>0, <1>1 DEF About, Nothing
<1>3. /\ r \in RoomId /\ r # 0 /\ r \in DOMAIN rooms /\ u \in DOMAIN rooms[r].members
      /\ R!InRoom(u) /\ playerRoom' = R!Without(playerRoom, u)
      /\ \A q \in DOMAIN rooms \ {r} : q \in DOMAIN rooms' /\ rooms'[q].members = rooms[q].members
      /\ \A v \in DOMAIN rooms[r].members \ {u} :
           /\ DOMAIN rooms'[r].members = DOMAIN rooms[r].members \ {u}
           /\ rooms'[r].members[v].seat = rooms[r].members[v].seat
           /\ rooms'[r].members[v].ready = rooms[r].members[v].ready
  BY RestStays
<1>4. MembersOK(rooms[r].members)
  BY <1>3 DEF SeatsOK
<1>5. ~Sitting(op'[c], ui'[c]) /\ ~Viewing(c)' /\ ~Joining(c)' /\ Letter(c)' = l
  BY <1>1 DEF Sitting, Viewing, Joining, Letter
<1>6. \A d \in Conn \ {c} : UinOf(d) # u
  BY DEF Serial
<1>7. \A d \in Conn \ {c} : UinOf(d) \in DOMAIN playerRoom =>
         playerRoom'[UinOf(d)] = playerRoom[UinOf(d)]
  BY <1>3, <1>6 DEF R!Without
<1>8. News(c, r)
  <2>1. ASSUME NEW d \in Conn, Viewing(d), playerRoom[UinOf(d)] # r PROVE ~Owes(c, d)'
    <3>1. d # c
      BY <2>1
    <3>2. playerRoom'[UinOf(d)] = playerRoom[UinOf(d)]
      BY <1>7, <2>1, <3>1, SitterFacts DEF Viewing
    <3> QED BY <1>1, <1>2, <1>3, <2>1, <3>2 DEF Owes
  <2> QED BY <1>2, <1>3, <1>5, <1>7, <2>1 DEF News
<1>9. Told(c, r)
  <2> SUFFICES ASSUME NEW d \in Conn, NEW v, Viewing(d), Viewing(d)',
                      playerRoom[UinOf(d)] = r, Shows(v, rooms[r].members)
               PROVE  Owes(c, d)' /\ Shows(Shown(v, l), rooms'[r].members)
    BY <1>5 DEF Told
  <2>1. UinOf(d) \in DOMAIN rooms[r].members \ {u} /\ d # c
    BY <1>5, <1>6, SitterFacts DEF Viewing, MembersOf
  <2>2. playerRoom'[UinOf(d)] = r
    BY <1>7, <2>1, SitterFacts DEF Viewing
  <2>3. Shows(Shown(v, l), rooms'[r].members)
    <3>1. PICK m, n : m = rooms[r].members /\ n = rooms'[r].members
      OBVIOUS
    <3>2. Rest(m, u, n)
      BY <1>3, <2>1, <3>1 DEF Rest
    <3>3. u \in DOMAIN m /\ MembersOK(m) /\ Shows(v, m) /\ l.seat = m[u].seat /\ l.cmd = "A109"
      BY <1>2, <1>3, <1>4, <3>1
    <3>4. Shows(Shown(v, l), n)
      BY <3>2, <3>3, LeaveShown
    <3> QED BY <3>1, <3>4
  <2> QED BY <1>1, <1>2, <1>3, <2>2, <2>3 DEF Owes
<1>10. Posted(mail'[c], op'[c], u)
  BY <1>1, <1>2, <1>3 DEF Posted, Leaving
<1>11. Current(c)'
  <2>1. session'[u] = c[2]
    BY <1>0 DEF Apart, ViewInv, Current
  <2>2. \A v \in DOMAIN op'[c].snap : op'[c].snap[v] = rooms'[op'[c].room].members[v].seat
    BY DEF SnapshotAfter, R!EmptyDict
  <2> QED BY <1>5, <2>1, <2>2 DEF Current
<1> QED BY <1>3, <1>8, <1>9, <1>10, <1>11, NewsStep

LEMMA DepartedNews ==
  ASSUME Serial, ViewInv, AllInv, AllInv', SeatsOK, NEW c \in Conn, OthersClear(c), Clear(c),
         LeaveNoted(c) \/ DisconnectNoted(c)
  PROVE  ViewInv'
<1> DEFINE u == UinOf(c)
           r == RoomLeft(u)
<1>0. /\ DOMAIN op = Conn /\ DOMAIN mail = Conn
      /\ Placed(op[c], role[c], ui[c], u, playerRoom)
  BY DEF AllInv, ZoneInv, ThreadsOK, AgreeInv, ViewInv
<1>1. /\ op[c].pc = "idle" /\ LeaveRegistry(u) /\ view' = view /\ ui' = ui /\ role' = role
      /\ Leave(c) \/ Disconnect(c)
  BY DEF LeaveNoted, DisconnectNoted, Leave, Disconnect, Request, connVars
<1>2. Apart(c)
  BY <1>1, StepsApart DEF Depart
<1>3. /\ op'[c].pc \in {"leave", "bye"} /\ op'[c].room = r /\ op'[c].snap = SnapshotAfter(r)
  <2>1. \/ op'[c] = [At("leave", r, SnapshotAfter(r), "left") EXCEPT !.at = role[c].room]
        \/ op'[c] = At("bye", r, SnapshotAfter(r), "close")
    BY <1>0, <1>1 DEF Leave, Disconnect
  <2> QED BY <2>1 DEF At
<1>4. CASE u \in DOMAIN playerRoom
  <2>1. R!LeaveRoom(u)
    BY <1>1, <1>4 DEF LeaveRegistry
  <2>2. R!InRoom(u) /\ r = playerRoom[u] /\ r \in DOMAIN rooms
    BY <1>4, <2>1, RestStays DEF RoomLeft
  <2>3. CASE LeaveNoted(c)
    <3>1. ui[c] = "room" /\ mail' = [mail EXCEPT ![c] = About("A109", r, role[c].seat)]
      BY <2>3 DEF LeaveNoted, Leave, LeftSeat
    <3>2. Sitting(op[c], ui[c]) /\ role[c].seat = rooms[r].members[u].seat
      BY <1>1, <2>2, <3>1 DEF Sitting, ViewInv, Current, SeatOf, MembersOf
    <3> QED BY <1>1, <1>2, <1>3, <1>4, <2>1, <2>2, <3>1, <3>2, LeaverNews
  <2>4. CASE DisconnectNoted(c)
    <3>1. mail' = [mail EXCEPT ![c] = About("A109", r, rooms[r].members[u].seat)]
      BY <2>2, <2>4 DEF DisconnectNoted
    <3> QED BY <1>1, <1>2, <1>3, <1>4, <2>1, <2>2, <3>1, LeaverNews
  <2> QED BY <2>3, <2>4
<1>5. CASE u \notin DOMAIN playerRoom
  <2>1. ~Sitting(op[c], ui[c])
    BY <1>0, <1>5 DEF Placed
  <2>2. DisconnectNoted(c) /\ Disconnect(c)
    BY <1>1, <2>1 DEF LeaveNoted, Leave, Sitting, DisconnectNoted
  <2>3. SameRooms
    BY <1>1, <1>5, ShownOrHidden DEF LeaveRegistry
  <2>4. mail' = [mail EXCEPT ![c] = Nothing] /\ mail[c] = Nothing
    BY <1>5, <2>2 DEF DisconnectNoted, R!InRoom, Clear
  <2>5. DOMAIN mail' = Conn /\ \A d \in Conn : mail'[d] = mail[d]
    BY <1>0, <2>4
  <2>6. ~Sitting(op'[c], ui'[c])
    BY <1>3 DEF Sitting
  <2>7. Silent(c)
    BY <1>1, <1>3, <2>3, <2>4, <2>5, <2>6 DEF Silent
  <2> QED BY <1>2, <2>7, SilentStep
<1> QED BY <1>4, <1>5

-----------------------------------------------------------------------------
(* The creator is shown the new room; the others are in other rooms.       *)
LEMMA CreatedShown ==
  ASSUME Serial, ViewInv, AllInv, AllInv', SeatsOK', NEW c \in Conn, OthersClear(c),
         CreateShown(c)
  PROVE  ViewInv'
<1> DEFINE u == UinOf(c)
           r == op[c].at
<1>0. /\ DOMAIN op = Conn /\ DOMAIN role = Conn /\ DOMAIN view = Conn /\ DOMAIN mail = Conn
      /\ u \in Uin
      /\ Placed(op[c], role[c], ui[c], u, playerRoom) /\ Posted(mail[c], op[c], u)
      /\ DOMAIN role[c] = {"room", "dsRoom", "seat", "pending", "handed"}
  BY ZoneFacts DEF AllInv, ZoneInv, ThreadsOK, AgreeInv, ViewInv, Placed
<1>1. /\ op[c].pc = "create" /\ op'[c] = At("sync", r, SnapshotAfter(r), "idle")
      /\ role'[c].seat = 0 /\ mail' = mail
      /\ R!CreateRoom(u, r, Cap, 0, FALSE)
      /\ view' = [view EXCEPT ![c] = Seated(rooms'[r].members)]
  BY <1>0 DEF CreateShown, CreateRoom
<1>2. mail[c] = Nothing /\ u \notin DOMAIN playerRoom
  BY <1>0, <1>1 DEF Posted, Leaving, Placed, Outside
<1>3. PICK x : /\ rooms' = R!With(rooms, r, x) /\ playerRoom' = R!With(playerRoom, u, r)
               /\ r \notin DOMAIN rooms
               /\ x.members = R!With(R!EmptyDict, u, R!NewMember(0, TRUE, FALSE))
  <2> DEFINE new == [owner |-> u, fighters |-> R!FighterCapacity(Cap), observers |-> 0,
                     locked |-> FALSE, started |-> FALSE,
                     members |-> R!With(R!EmptyDict, u, R!NewMember(0, TRUE, FALSE))]
  <2>1. new.members = R!With(R!EmptyDict, u, R!NewMember(0, TRUE, FALSE))
    OBVIOUS
  <2>2. /\ rooms' = R!With(rooms, r, new) /\ playerRoom' = R!With(playerRoom, u, r)
        /\ r \notin DOMAIN rooms
    BY <1>1 DEF R!CreateRoom
  <2> HIDE DEF new
  <2> QED BY <2>1, <2>2
<1>4. /\ rooms'[r].members = x.members /\ r \in DOMAIN rooms'
      /\ DOMAIN x.members = {u} /\ x.members[u].seat = 0
      /\ \A q \in DOMAIN rooms : rooms'[q] = rooms[q] /\ q # r
      /\ playerRoom'[u] = r /\ \A v \in DOMAIN playerRoom : playerRoom'[v] = playerRoom[v]
  BY <1>2, <1>3 DEF R!With, R!EmptyDict, R!NewMember
<1>5. MembersOf(c)' = x.members /\ MembersOK(x.members)
  BY <1>4 DEF MembersOf, SeatsOK
<1>6. Apart(c)
  BY <1>1, StepsApart DEF Create, CreateShown
<1>7. \A d \in Conn \ {c} : Sitting(op[d], ui[d]) => MembersOf(d)' = MembersOf(d)
  BY <1>4, SitterFacts DEF MembersOf
<1>8. \A d \in Conn \ {c} : Sitting(op[d], ui[d]) => SeatOf(d)' = SeatOf(d)
  BY <1>7 DEF SeatOf
<1>9. /\ op'[c].pc = "sync" /\ op'[c].room = r /\ op'[c].then = "idle"
      /\ op'[c].snap = [v \in {u} |-> 0]
  <2>1. SnapshotAfter(r) = [v \in DOMAIN x.members |-> x.members[v].seat]
    BY <1>4 DEF SnapshotAfter
  <2>2. SnapshotAfter(r) = [v \in {u} |-> 0]
    BY <1>4, <2>1
  <2> QED BY <1>1, <2>2 DEF At
<1>10. Posted(mail'[c], op'[c], u)
  BY <1>0, <1>1, <1>2, <1>9 DEF Posted
<1>11. Current(c)'
  <2>1. session'[u] = c[2]
    BY <1>0, <1>1, <1>6 DEF Apart, ViewInv, Current
  <2>2. role'[c].seat = SeatOf(c)'
    BY <1>1, <1>4, <1>5 DEF SeatOf
  <2>3. \A v \in DOMAIN op'[c].snap : op'[c].snap[v] = rooms'[op'[c].room].members[v].seat
    BY <1>4, <1>9
  <2>4. op'[c].pc = "sync" /\ op'[c].then = "idle" /\ u \in DOMAIN op'[c].snap
    BY <1>9
  <2>5. mail'[c].cmd = "none" /\ ~Joining(c)'
    BY <1>1, <1>2, <1>9 DEF Joining, Nothing
  <2> QED BY <2>1, <2>2, <2>3, <2>4, <2>5 DEF Current
<1>12. ASSUME NEW e \in Conn, Viewing(e)' PROVE RightBy(c, e)'
  <2>1. ~Owes(c, e)'
    BY <1>1, <1>2 DEF Owes, Nothing
  <2>2. CASE e = c
    <3>1. Shows(Seated(x.members), x.members)
      BY <1>5, SeatedFacts
    <3>2. view'[c] = Seated(x.members)
      BY <1>0, <1>1, <1>4
    <3> QED BY <1>5, <2>1, <2>2, <3>1, <3>2 DEF RightBy
  <2>3. CASE e # c
    <3>1. Viewing(e) /\ view'[e] = view[e]
      BY <1>0, <1>1, <1>6, <1>12, <2>3 DEF Apart, Viewing, Joining
    <3>2. RightBy(c, e) /\ ~Owes(c, e)
      BY <1>2, <3>1, RightAlone DEF ViewInv, Owes, Nothing
    <3> QED BY <1>7, <2>1, <2>3, <3>1, <3>2 DEF RightBy, Viewing
  <2> QED BY <2>2, <2>3
<1> QED BY <1>0, <1>1, <1>6, <1>8, <1>10, <1>11, <1>12, ViewStep

(* The joiner's own room, as the registry returned it, is still right.     *)
LEMMA JoinerRegistered ==
  ASSUME Serial, ViewInv, AllInv, AllInv', NEW c \in Conn, OthersClear(c),
         JoinRegister(c), UNCHANGED <<view, mail>>
  PROVE  ViewInv'
<1> DEFINE u == UinOf(c)
<1>0. /\ DOMAIN op = Conn /\ DOMAIN mail = Conn /\ DOMAIN view = Conn
      /\ DOMAIN op[c] = {"pc", "room", "snap", "at", "then"}
      /\ Placed(op[c], role[c], ui[c], u, playerRoom) /\ Posted(mail[c], op[c], u)
      /\ Current(c)
  BY DEF AllInv, ZoneInv, ThreadsOK, ThreadOK, AgreeInv, ViewInv
<1>1. /\ op[c].pc = "register" /\ op'[c] = [op[c] EXCEPT !.pc = "sync"]
      /\ rooms' = rooms /\ playerRoom' = playerRoom /\ view' = view /\ mail' = mail
  BY <1>0 DEF JoinRegister, registryVars
<1>2. /\ op'[c].pc = "sync" /\ op'[c].room = op[c].room /\ op'[c].snap = op[c].snap
      /\ op'[c].then = "idle" /\ mail[c].cmd = "A106"
  BY <1>0, <1>1 DEF Placed, Posted
<1>3. Apart(c)
  BY <1>1, StepsApart DEF Join
<1>4. \A d \in Conn : MembersOf(d)' = MembersOf(d) /\ SeatOf(d)' = SeatOf(d)
  BY <1>1 DEF MembersOf, SeatOf
<1>5. Joining(c) /\ Joining(c)' /\ ~Viewing(c)' /\ Letter(c)' = Letter(c)
  BY <1>1, <1>2 DEF Joining, Viewing, Letter
<1>6. Posted(mail'[c], op'[c], u)
  BY <1>0, <1>1, <1>2 DEF Posted
<1>7. Current(c)'
  BY <1>0, <1>1, <1>2, <1>3, <1>4, <1>5, ZoneFacts DEF Current, Apart
<1>8. ASSUME NEW e \in Conn, Viewing(e)' PROVE RightBy(c, e)'
  <2>1. e # c
    BY <1>5, <1>8
  <2>2. Viewing(e)
    BY <1>1, <1>3, <1>8, <2>1 DEF Apart, Viewing, Joining
  <2>3. RightBy(c, e) /\ (Owes(c, e)' <=> Owes(c, e))
    BY <1>1, <2>2, RightAlone DEF ViewInv, Owes
  <2> QED BY <1>1, <1>4, <1>5, <2>3 DEF RightBy
<1> QED BY <1>0, <1>1, <1>3, <1>4, <1>6, <1>7, <1>8, ViewStep

(* The sync gives the others nothing new, a joiner its A105, and A112 its  *)
(* seat.                                                                   *)
LEMMA SyncedNews ==
  ASSUME Serial, ViewInv, AllInv, AllInv', NEW c \in Conn, OthersClear(c), SyncNoted(c)
  PROVE  ViewInv'
<1> DEFINE u == UinOf(c)
<1>0. /\ DOMAIN op = Conn /\ DOMAIN mail = Conn /\ DOMAIN view = Conn /\ DOMAIN role = Conn
      /\ Placed(op[c], role[c], ui[c], u, playerRoom) /\ Posted(mail[c], op[c], u)
      /\ Current(c)
  BY DEF AllInv, ZoneInv, ThreadsOK, AgreeInv, ViewInv
<1>1. /\ op[c].pc = "sync" /\ op'[c] = Idle /\ ui' = ui
      /\ rooms' = rooms /\ playerRoom' = playerRoom /\ Sync(c)
  BY <1>0 DEF SyncNoted, Sync, registryVars, Sitting
<1>2. op'[c].pc = "idle" /\ DOMAIN op'[c].snap = {}
  BY <1>1 DEF Idle, At, R!EmptyDict
<1>3. Sitting(op[c], ui[c]) /\ ui[c] = "room" /\ op[c].room = playerRoom[u]
  BY <1>0, <1>1 DEF Placed, Sitting
<1>4. Apart(c)
  BY <1>1, StepsApart DEF Lobby
<1>5. \A d \in Conn : MembersOf(d)' = MembersOf(d) /\ SeatOf(d)' = SeatOf(d)
  BY <1>1 DEF MembersOf, SeatOf
<1>6. OwnSeat(c) = SeatOf(c)
  BY <1>0, <1>1, <1>3 DEF Current, OwnSeat, SeatOf, MembersOf
<1>7. role'[c].seat = OwnSeat(c)
  <2>1. u \in DOMAIN op[c].snap /\ session[u] = c[2] /\ Online(c)
    BY <1>0, <1>1 DEF Current, Online
  <2>2. /\ DOMAIN Synced(c) = Conn /\ Synced(c)[c].seat = OwnSeat(c)
        /\ DOMAIN Synced(c)[c] = {"room", "dsRoom", "seat", "pending", "handed"}
    BY <2>1, SyncedSeats DEF OwnSeat
  <2>3. \/ role' = [Synced(c) EXCEPT ![c].seat = OwnSeat(c)]
        \/ role' = [Synced(c) EXCEPT ![c].handed = FALSE, ![c].room = op[c].room]
        \/ role' = Synced(c)
    BY <1>1 DEF Sync
  <2> QED BY <2>2, <2>3
<1>8. /\ DOMAIN mail' = Conn /\ \A d \in Conn \ {c} : mail'[d] = mail[d]
      /\ mail'[c] = Letter(c)
  <2>1. CASE mail[c].cmd = "A112"
    <3>1. mail' = [mail EXCEPT ![c] = [mail[c] EXCEPT !.seat = role'[c].seat]]
      BY <1>0, <2>1 DEF SyncNoted
    <3> QED BY <1>0, <1>1, <1>7, <2>1, <3>1 DEF Letter
  <2>2. CASE mail[c].cmd # "A112"
    <3>1. mail[c] = Nothing \/ mail[c].room # 0 \/ mail[c].to # {}
      BY <1>0 DEF Posted
    <3>2. mail[c].cmd # "A106" \/ mail[c].to # {}
      BY <1>0, <3>1 DEF Posted, Nothing
    <3>3. mail' = mail
      BY <2>2, <3>2 DEF SyncNoted
    <3> QED BY <1>0, <2>2, <3>3 DEF Letter
  <2> QED BY <2>1, <2>2
<1>9. /\ DOMAIN Letter(c) = DOMAIN mail[c] /\ Letter(c).cmd = mail[c].cmd
      /\ Letter(c).room = mail[c].room /\ Letter(c).to = mail[c].to
      /\ Letter(c) # Nothing => mail[c] # Nothing
  <2>1. CASE mail[c].cmd = "A112"
    BY <1>0, <2>1 DEF Letter, Posted, Nothing
  <2>2. CASE mail[c].cmd # "A112"
    BY <2>2 DEF Letter
  <2> QED BY <2>1, <2>2
<1>10. Posted(mail'[c], op'[c], u)
  BY <1>0, <1>2, <1>8, <1>9 DEF Posted, Nothing
<1>11. Current(c)'
  <2>1. session'[u] = c[2]
    BY <1>0, <1>1, <1>4, ZoneFacts DEF Apart, Current
  <2>2. ~Joining(c)' /\ mail'[c].cmd # "A109"
    BY <1>0, <1>2, <1>3, <1>8, <1>9 DEF Joining, Current
  <2> QED BY <1>2, <1>5, <1>6, <1>7, <2>1, <2>2 DEF Current
<1>12. Letter(c)' = Letter(c) /\ \A e \in Conn : Owes(c, e)' <=> Owes(c, e)
  BY <1>1, <1>2, <1>8, <1>9 DEF Letter, Owes
<1>13. /\ DOMAIN view' = Conn /\ \A d \in Conn \ {c} : view'[d] = view[d]
      /\ view'[c] = IF mail[c].cmd = "A106" THEN mail[c].seats ELSE view[c]
  BY <1>0 DEF SyncNoted
<1>14. ASSUME NEW e \in Conn, Viewing(e)' PROVE RightBy(c, e)'
  <2>1. CASE e = c /\ mail[c].cmd = "A106"
    <3>1. view'[c] = mail[c].seats /\ Shows(mail[c].seats, MembersOf(c))
      BY <1>0, <1>1, <1>13, <2>1 DEF Current, Joining
    <3>2. ~Owes(c, c)
      BY <1>0, <2>1 DEF Posted, Owes
    <3> QED BY <1>5, <1>12, <2>1, <3>1, <3>2 DEF RightBy
  <2>2. CASE e # c \/ mail[c].cmd # "A106"
    <3>1. view'[e] = view[e]
      BY <1>13, <2>2
    <3>2. Viewing(e)
      BY <1>1, <1>3, <1>4, <1>8, <1>14, <2>2 DEF Apart, Viewing, Joining
    <3>3. RightBy(c, e)
      BY <3>2, RightAlone DEF ViewInv
    <3> QED BY <1>5, <1>12, <3>1, <3>3 DEF RightBy
  <2> QED BY <2>1, <2>2
<1> QED BY <1>4, <1>5, <1>8, <1>10, <1>11, <1>13, <1>14, ViewStep

-----------------------------------------------------------------------------
(* The sends.  A message that is under way is read as it was posted, and   *)
(* whoever reads it is no longer owed it.                                  *)
LEMMA Delivered ==
  ASSUME AllInv, ViewInv, NEW c \in Conn, Sending(c), UNCHANGED vars,
         DOMAIN view' = Conn, DOMAIN mail' = Conn,
         \A d \in Conn \ {c} : mail'[d] = mail[d],
         Posted(mail'[c], op[c], UinOf(c)),
         \/ mail'[c] = Nothing
         \/ /\ mail'[c].cmd = mail[c].cmd /\ mail'[c].seat = mail[c].seat
            /\ mail'[c].from = mail[c].from /\ mail'[c].seats = mail[c].seats,
         \A e \in Conn : Viewing(e) =>
           \/ view'[e] = view[e] /\ (Owes(c, e)' <=> Owes(c, e))
           \/ Owes(c, e) /\ ~Owes(c, e)' /\ view'[e] = Shown(view[e], mail[c])
  PROVE  ViewInv'
<1>1. /\ op' = op /\ ui' = ui /\ role' = role /\ session' = session
      /\ rooms' = rooms /\ playerRoom' = playerRoom
  BY DEF vars
<1>2. /\ DOMAIN op = Conn /\ DOMAIN role = Conn /\ DOMAIN ui = Conn /\ DOMAIN session = Uin
      /\ Placed(op[c], role[c], ui[c], UinOf(c), playerRoom) /\ Current(c)
  BY DEF AllInv, ZoneInv, ThreadsOK, AgreeInv, ViewInv
<1>3. op[c].pc \notin {"sync", "register"} /\ OthersClear(c)
  <2>1. ~Clear(c)
    BY DEF Sending, Clear, Nothing
  <2> QED BY <1>2, <2>1 DEF Sending, Placed, Current, ViewInv, OthersClear
<1>4. Apart(c)
  BY <1>1, <1>2 DEF Apart
<1>5. \A d \in Conn : MembersOf(d)' = MembersOf(d) /\ SeatOf(d)' = SeatOf(d)
  BY <1>1 DEF MembersOf, SeatOf
<1>6. \A e \in Conn : Viewing(e)' <=> Viewing(e)
  BY <1>1, <1>3 DEF Viewing, Joining
<1>7. Letter(c) = mail[c] /\ Letter(c)' = mail'[c]
  BY <1>1, <1>3 DEF Letter
<1>8. Current(c)'
  <2>1. mail'[c].cmd = "A109" => mail[c].cmd = "A109"
    BY DEF Nothing
  <2>2. ~Joining(c)'
    BY <1>1, <1>3 DEF Joining
  <2> QED BY <1>1, <1>2, <1>5, <2>1, <2>2 DEF Current
<1>9. ASSUME NEW e \in Conn, Viewing(e)' PROVE RightBy(c, e)'
  <2>1. RightBy(c, e) /\ Viewing(e)
    BY <1>3, <1>6, <1>9, RightAlone DEF ViewInv
  <2>2. ASSUME Owes(c, e)' PROVE Shown(view[e], mail'[c]) = Shown(view[e], mail[c])
    <3>1. mail'[c] # Nothing
      BY <2>2 DEF Owes, Nothing
    <3> QED BY <3>1 DEF Shown
  <2> QED BY <1>5, <1>7, <2>1, <2>2 DEF RightBy
<1> QED BY <1>1, <1>3, <1>4, <1>5, <1>8, <1>9, ViewStep

LEMMA BroadcastNews ==
  ASSUME Serial, AllInv, ViewInv, NEW c \in Conn, BroadcastRoom(c)
  PROVE  ViewInv'
<1>0. /\ DOMAIN mail = Conn /\ DOMAIN view = Conn /\ Posted(mail[c], op[c], UinOf(c))
      /\ Sending(c) /\ mail[c].room # 0 /\ UNCHANGED vars /\ view' = view
      /\ playerRoom' = playerRoom
  BY DEF ViewInv, BroadcastRoom, vars
<1>1. PICK m : m = mail[c]
  OBVIOUS
<1>2. PICK n : n = mail'[c]
  OBVIOUS
<1>3. /\ DOMAIN m = {"cmd", "seat", "from", "seats", "room", "to"} /\ m.cmd # "A106"
      /\ m # Nothing
  BY <1>0, <1>1 DEF Posted, Nothing
<1>4. /\ n = IF Addressees(c) = {} THEN Nothing
             ELSE [m EXCEPT !.room = 0, !.to = Addressees(c)]
      /\ DOMAIN mail' = Conn /\ \A d \in Conn \ {c} : mail'[d] = mail[d]
  BY <1>0, <1>1, <1>2 DEF BroadcastRoom
<1>5. /\ n.room = 0 /\ n.to = Addressees(c)
      /\ n = Nothing \/ /\ n.cmd = m.cmd /\ n.seat = m.seat /\ n.from = m.from
                        /\ n.seats = m.seats /\ DOMAIN n = DOMAIN m /\ n.to # {}
  BY <1>3, <1>4 DEF Nothing
<1>6. Posted(n, op[c], UinOf(c))
  <2>1. op[c].pc # "register"
    BY <1>0, <1>1, <1>3 DEF Posted
  <2>2. /\ DOMAIN Nothing = {"cmd", "seat", "from", "seats", "room", "to"}
        /\ Nothing.room = 0 /\ Nothing.to = {}
    BY DEF Nothing
  <2> QED BY <1>0, <1>1, <1>3, <1>5, <2>1, <2>2 DEF Posted
<1>7. ASSUME NEW e \in Conn, Viewing(e) PROVE Owes(c, e)' <=> Owes(c, e)
  <2>1. /\ playerRoom[UinOf(e)] \in DOMAIN rooms /\ UinOf(e) \in DOMAIN MembersOf(e)
        /\ UinOf(e) \in DOMAIN playerRoom
    BY <1>7, SitterFacts DEF Viewing
  <2>2. Owes(c, e) <=> playerRoom[UinOf(e)] = m.room
    BY <1>0, <1>1 DEF Owes
  <2>3. Owes(c, e)' <=> UinOf(e) \in Addressees(c)
    BY <1>2, <1>5 DEF Owes
  <2>4. m.cmd = "A109" => UinOf(e) # UinOf(c)
    BY <1>1, <1>7 DEF Serial, Viewing, ViewInv, Current
  <2>5. ASSUME playerRoom[UinOf(e)] = m.room PROVE UinOf(e) \in Addressees(c)
    BY <1>1, <2>1, <2>4, <2>5 DEF Addressees, MembersOf
  <2>6. ASSUME UinOf(e) \in Addressees(c) PROVE playerRoom[UinOf(e)] = m.room
    <3>1. m.room \in DOMAIN rooms /\ UinOf(e) \in DOMAIN rooms[m.room].members
      BY <1>1, <2>6 DEF Addressees
    <3>2. UinOf(e) \in Members(playerRoom, m.room)
      BY <3>1 DEF AllInv, RegOK
    <3> QED BY <3>2 DEF Members
  <2> QED BY <2>2, <2>3, <2>5, <2>6
<1> QED BY <1>0, <1>1, <1>2, <1>4, <1>5, <1>6, <1>7, Delivered

LEMMA SentNews ==
  ASSUME Serial, AllInv, ViewInv, NEW c \in Conn, NEW u \in Uin, SendOnline(c, u)
  PROVE  ViewInv'
<1>0. /\ DOMAIN mail = Conn /\ Posted(mail[c], op[c], UinOf(c))
      /\ Sending(c) /\ u \in mail[c].to /\ UNCHANGED vars
  BY DEF ViewInv, SendOnline
<1>1. PICK m : m = mail[c]
  OBVIOUS
<1>2. PICK n : n = mail'[c]
  OBVIOUS
<1>3. /\ DOMAIN m = {"cmd", "seat", "from", "seats", "room", "to"} /\ m.room = 0
      /\ m # Nothing
  BY <1>0, <1>1 DEF Posted, Nothing
<1>4. /\ n = IF m.to = {u} THEN Nothing ELSE [m EXCEPT !.to = m.to \ {u}]
      /\ DOMAIN mail' = Conn /\ \A d \in Conn \ {c} : mail'[d] = mail[d]
      /\ DOMAIN view' = Conn
  <2>1. mail' = [mail EXCEPT ![c] = IF mail[c].to = {u} THEN Nothing
                                    ELSE [mail[c] EXCEPT !.to = mail[c].to \ {u}]]
    BY DEF SendOnline
  <2>2. DOMAIN view' = Conn
    BY DEF SendOnline
  <2> QED BY <1>0, <1>1, <1>2, <2>1, <2>2
<1>5. /\ n.room = 0 /\ n.to = m.to \ {u}
      /\ n = Nothing \/ /\ n.cmd = m.cmd /\ n.seat = m.seat /\ n.from = m.from
                        /\ n.seats = m.seats /\ DOMAIN n = DOMAIN m /\ n.to # {}
  <2>1. CASE m.to = {u}
    BY <1>4, <2>1 DEF Nothing
  <2>2. CASE m.to # {u}
    <3>1. m.to \ {u} # {}
      BY <1>0, <1>1, <2>2
    <3> QED BY <1>3, <1>4, <2>2, <3>1
  <2> QED BY <2>1, <2>2
<1>6. Posted(n, op[c], UinOf(c))
  <2>1. op[c].pc # "register" \/ (n # Nothing /\ m.cmd = "A106")
    <3>1. op[c].pc # "register"
      BY <1>0 DEF Sending, AllInv, AgreeInv, Placed
    <3> QED BY <3>1
  <2>2. /\ DOMAIN Nothing = {"cmd", "seat", "from", "seats", "room", "to"}
        /\ Nothing.room = 0 /\ Nothing.to = {}
    BY DEF Nothing
  <2> QED BY <1>0, <1>1, <1>3, <1>5, <2>1, <2>2 DEF Posted
<1>7. ASSUME NEW e \in Conn, Viewing(e)
      PROVE  \/ view'[e] = view[e] /\ (Owes(c, e)' <=> Owes(c, e))
             \/ Owes(c, e) /\ ~Owes(c, e)' /\ view'[e] = Shown(view[e], m)
  <2>1. (Owes(c, e) <=> UinOf(e) \in m.to) /\ (Owes(c, e)' <=> UinOf(e) \in m.to \ {u})
    BY <1>1, <1>2, <1>3, <1>5 DEF Owes
  <2>2. session[UinOf(e)] = e[2] /\ Online(e)
    BY <1>7 DEF ViewInv, Current, Viewing, Sitting, Online
  <2>3. view'[e] = IF UinOf(e) = u THEN Shown(view[e], m) ELSE view[e]
    BY <1>1, <2>2 DEF SendOnline
  <2> QED BY <1>0, <1>1, <2>1, <2>3
<1> QED BY <1>0, <1>1, <1>2, <1>4, <1>5, <1>6, <1>7, Delivered

(* The monitor thread has no part in this.                                 *)
LEMMA NothingShown ==
  ASSUME ViewInv, UNCHANGED <<rooms, playerRoom, session, role, ui, op, view, mail>>
  PROVE  ViewInv'
<1>1. \A c \in Conn : Clear(c)' <=> Clear(c)
  BY DEF Clear
<1>2. \A c \in Conn : Current(c)' <=> Current(c)
  BY DEF Current, Joining, SeatOf, MembersOf
<1>3. \A c \in Conn : Right(c)' <=> Right(c)
  BY DEF Right, Viewing, Joining, Owes, Letter, OwnSeat, MembersOf
<1> QED BY <1>1, <1>2, <1>3 DEF ViewInv

-----------------------------------------------------------------------------
(* No step breaks a picture for good.                                      *)
LEMMA ViewNextKeeps ==
  ASSUME Serial, AllInv, AllInv', SeatsOK, SeatsOK', ViewInv, [ViewNext]_viewVars
  PROVE  ViewInv'
<1>1. ASSUME NEW c \in Conn, ~Sending(c), Handles(c),
             op[c].pc = "idle" => Cardinality(Busy) < MaxBusy
      PROVE  ViewInv'
  <2>1. CASE op[c].pc = "off"
    <3>1. Connect(c) /\ UNCHANGED <<view, mail>>
      BY <1>1, <2>1
      DEF Handles, Request, CreateShown, CreateRoom, LeaveNoted, Leave, DisconnectNoted,
          Disconnect, SyncNoted, Sync, BackInLobby, LeaveDone, Close, Untold, JoinHalf,
          CreateRefused, RoomList, JoinRegister, DisconnectSync, Spawner, RemoveRoomPlayer,
          ReleaseLobby, EndRound, Match, StartMatch, StartRoomAlloc, Handoff, BeginMatch,
          ArmLobby, SendHandoff, SetInMatch, QuitMatch, ShowRoom, QuitDone, UpdateSettings,
          UpdateRegistry, CreateReserve, Settings, JoinNoted, JoinRegistry, ReadyNoted,
          SetReady, MoveNoted, ChangeCamp
    <3> QED BY <3>1, LoggedIn
  <2>2. CASE op[c].pc # "off"
    <3>1. OthersClear(c) /\ (op[c].pc = "idle" => Clear(c))
      BY <1>1, <2>2, OneAtATime
    <3>2. CASE BackInLobby(c) \/ (Untold(c) /\ ~JoinRegister(c))
      BY <1>1, <2>2, <3>2, UntoldSteps
    <3>3. CASE Untold(c) /\ JoinRegister(c)
      <4>1. op'[c].pc = "sync"
        BY <3>3 DEF JoinRegister, AllInv, ZoneInv, ThreadsOK, ThreadOK
      <4> QED BY <3>1, <3>3, <4>1, JoinerRegistered DEF Untold
    <3>4. CASE CreateShown(c)
      BY <3>1, <3>4, CreatedShown
    <3>5. CASE LeaveNoted(c) \/ DisconnectNoted(c)
      <4>1. op[c].pc = "idle"
        BY <3>5 DEF LeaveNoted, Leave, Request, DisconnectNoted, Disconnect
      <4> QED BY <3>1, <3>5, <4>1, DepartedNews
    <3>6. CASE SyncNoted(c)
      BY <3>1, <3>6, SyncedNews
    <3>7. ASSUME NEW r \in RoomId, JoinNoted(c, r) PROVE ViewInv'
      BY <3>1, <3>7, JoinedNews DEF JoinNoted, JoinRegistry, Request
    <3>8. ASSUME NEW b \in BOOLEAN, ReadyNoted(c, b) PROVE ViewInv'
      BY <3>1, <3>8, ReadyNews DEF ReadyNoted, SetReady, Request
    <3>9. ASSUME NEW k \in {0, 1}, MoveNoted(c, k) PROVE ViewInv'
      BY <3>1, <3>9, MoveNews DEF MoveNoted, ChangeCamp, Request
    <3> QED BY <1>1, <3>2, <3>3, <3>4, <3>5, <3>6, <3>7, <3>8, <3>9 DEF Handles
  <2> QED BY <2>1, <2>2
<1>2. ASSUME NEW c \in Conn, BroadcastRoom(c) \/ \E u \in Uin : SendOnline(c, u)
      PROVE  ViewInv'
  BY <1>2, BroadcastNews, SentNews
<1>3. ASSUME NEW r \in RoomId, Monitor(r), UNCHANGED <<view, mail>> PROVE ViewInv'
  BY <1>3, NothingShown DEF Monitor, registryVars, connVars
<1>4. CASE UNCHANGED viewVars
  BY <1>4, NothingShown DEF viewVars
<1> QED BY <1>1, <1>2, <1>3, <1>4 DEF ViewNext

LEMMA ViewStart == ViewInit => ViewInv
<1> SUFFICES ASSUME ViewInit PROVE ViewInv
  OBVIOUS
<1>1. /\ DOMAIN view = Conn /\ DOMAIN mail = Conn /\ DOMAIN session = Uin
      /\ \A c \in Conn : mail[c] = Nothing
      /\ \A c \in Conn : op[c] = At("off", 0, R!EmptyDict, "idle") /\ ui[c] = "lobby"
  BY DEF ViewInit, Init
<1>2. \A c \in Conn : op[c].pc = "off" /\ DOMAIN op[c].snap = {}
  BY <1>1 DEF At, R!EmptyDict
<1>3. \A c \in Conn : Clear(c) /\ ~Sitting(op[c], ui[c]) /\ ~Joining(c)
  BY <1>1, <1>2 DEF Clear, Quiet, Sitting, Joining
<1>4. \A c \in Conn : Posted(mail[c], op[c], UinOf(c))
  BY <1>1, <1>2 DEF Posted, Nothing
<1>5. \A c \in Conn : Current(c)
  BY <1>2, <1>3 DEF Current
<1>6. \A c \in Conn : Right(c)
  BY <1>3 DEF Right, Viewing
<1> QED BY <1>1, <1>3, <1>4, <1>5, <1>6 DEF ViewInv

(* The messages are added to the threads and hold nothing of them up.      *)
LEMMA ViewsRefine == ViewSpec => Spec
<1>1. ViewInit => Init
  BY DEF ViewInit
<1>2. [ViewNext]_viewVars => [Next]_vars
  <2>1. ASSUME NEW c \in Conn, Handles(c) PROVE Next
    BY <2>1 DEF Handles, CreateShown, LeaveNoted, DisconnectNoted, SyncNoted, BackInLobby,
                Untold, JoinNoted, ReadyNoted, MoveNoted, Next, Create, Join, Depart, Lobby
  <2>2. ASSUME NEW c \in Conn, BroadcastRoom(c) \/ \E u \in Uin : SendOnline(c, u)
        PROVE  UNCHANGED vars
    BY <2>2 DEF BroadcastRoom, SendOnline
  <2>3. ASSUME NEW r \in RoomId, Monitor(r) PROVE Next
    BY <2>3 DEF Next
  <2>4. UNCHANGED viewVars => UNCHANGED vars
    BY DEF viewVars, vars
  <2> QED BY <2>1, <2>2, <2>3, <2>4 DEF ViewNext
<1> QED BY <1>1, <1>2, PTL DEF ViewSpec, Spec

LEMMA SeatsAlwaysOK == Spec => []SeatsOK
<1>1. Registry!IInv => SeatsOK
  <2> SUFFICES ASSUME Registry!IInv, NEW r \in DOMAIN rooms PROVE MembersOK(rooms[r].members)
    BY DEF SeatsOK
  <2>1. rooms[r].members \in [DOMAIN rooms[r].members -> Registry!Member]
    BY DEF Registry!IInv, Registry!TypeOK, Registry!IsRoom, Registry!IsDict
  <2>2. \A u \in DOMAIN rooms[r].members :
          DOMAIN rooms[r].members[u] = {"seat", "ready", "owner", "camp", "observer"}
    BY <2>1 DEF Registry!Member
  <2>3. \A u \in DOMAIN rooms[r].members : \A v \in DOMAIN rooms[r].members \ {u} :
          rooms[r].members[u].seat # rooms[r].members[v].seat
    BY DEF Registry!IInv, Registry!SeatsSound
  <2> QED BY <2>2, <2>3 DEF MembersOK
<1> QED BY <1>1, SharedRegistryInvariant, PTL

(* Handled one request at a time, the changes alone keep every client's    *)
(* picture of its room right.  Members are only ever sent as changes, one  *)
(* client at a time and after the tables have been left, so this rests on  *)
(* what every client is still owed (Right): with that read, its picture    *)
(* shows the room as the registry has it.                                  *)
THEOREM ViewsAlwaysAgree ==
  ASSUME Serial
  PROVE  ViewSpec => []ViewsAgree
<1>1. AllInv /\ SeatsOK /\ ViewInv => ViewsAgree
  <2> SUFFICES ASSUME AllInv, SeatsOK, ViewInv, Busy = {},
                      NEW c \in Conn, Online(c), ui[c] = "room"
               PROVE  LET seats == Seated(MembersOf(c))
                      IN  /\ DOMAIN view[c] = DOMAIN seats
                          /\ \A s \in DOMAIN seats :
                               /\ view[c][s].uin = seats[s].uin
                               /\ seats[s].ready => view[c][s].ready
    BY DEF ViewsAgree, MembersOf
  <2>1. \A d \in Conn : Clear(d)
    BY NobodyBusy
  <2>2. op[c].pc = "idle" /\ Viewing(c)
    BY <2>1 DEF Clear, Quiet, Online, Viewing, Sitting, Joining
  <2>3. \A d \in Conn : ~Owes(d, c)
    BY <2>1 DEF Clear, Owes, Nothing
  <2>4. Shows(view[c], MembersOf(c))
    BY <2>2, <2>3 DEF ViewInv, Right
  <2>5. MembersOK(MembersOf(c))
    BY <2>2, SitterFacts DEF SeatsOK, MembersOf, Viewing
  <2>6. Shows(Seated(MembersOf(c)), MembersOf(c))
    BY <2>5, SeatedFacts
  <2>7. ASSUME NEW s \in DOMAIN Seated(MembersOf(c))
        PROVE  /\ view[c][s].uin = Seated(MembersOf(c))[s].uin
               /\ Seated(MembersOf(c))[s].ready => view[c][s].ready
    <3>1. PICK u \in DOMAIN MembersOf(c) : s = MembersOf(c)[u].seat
      BY <2>6, <2>7 DEF Shows
    <3>2. Seated(MembersOf(c))[s].ready => MembersOf(c)[u].ready
      <4>1. PICK e : e = [uin |-> u, ready |-> MembersOf(c)[u].ready]
        OBVIOUS
      <4>2. Seated(MembersOf(c))[s] = e
        BY <2>5, <3>1, <4>1, SeatedFacts
      <4>3. e.ready => MembersOf(c)[u].ready
        BY <4>1
      <4> QED BY <4>2, <4>3
    <3> QED BY <2>4, <2>6, <3>1, <3>2 DEF Shows
  <2> QED BY <2>4, <2>6, <2>7 DEF Shows
<1>2. Spec => [](AllInv /\ SeatsOK)
  BY AgreeInvariant, SeatsAlwaysOK, PTL
<1>3. AllInv /\ AllInv' /\ SeatsOK /\ SeatsOK' /\ ViewInv /\ [ViewNext]_viewVars => ViewInv'
  BY ViewNextKeeps
<1> QED BY <1>1, <1>2, <1>3, ViewStart, ViewsRefine, PTL DEF ViewSpec
=============================================================================
