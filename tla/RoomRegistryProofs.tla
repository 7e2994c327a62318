------------------------- MODULE RoomRegistryProofs -------------------------
(***************************************************************************)
(* The invariants of RoomRegistry hold for every set of players, rooms,    *)
(* capacities and camps.  Their conjunction is inductive: the two          *)
(* dictionaries must agree for a seat to be searched among all members,    *)
(* the flags must be sound for a non-owner's leave to keep them so, and    *)
(* every room must have a member for its hand-over to find an heir.        *)
(***************************************************************************)
EXTENDS RoomRegistry, FiniteSetTheorems, TLAPS

(* Every non-empty set of naturals has a least element: the intervals      *)
(* 0..k are well-founded under strict inclusion.                           *)
LEMMA LeastNatural ==
  ASSUME NEW S \in SUBSET Nat, S # {}
  PROVE  \E m \in S : \A k \in S : m <= k
<1> DEFINE O == StrictSubsetOrdering(Nat)
           T == {0 .. k : k \in S}
<1>1. IsWellFoundedOn(O, FiniteSubsetsOf(Nat))
  BY FS_StrictSubsetOrderingWellFounded
<1>2. T \subseteq FiniteSubsetsOf(Nat) /\ T # {}
  <2> SUFFICES ASSUME NEW k \in S
               PROVE  0 .. k \in FiniteSubsetsOf(Nat)
    OBVIOUS
  <2>1. IsFiniteSet(0 .. k)
    BY FS_Interval
  <2> QED
    BY <2>1 DEF FiniteSubsetsOf
<1>3. PICK x \in T : \A y \in T : ~ (<<y, x>> \in O)
  <2> HIDE DEF O, T
  <2> QED
    BY <1>1, <1>2, WFMin
<1>4. PICK m \in S : x = 0 .. m
  OBVIOUS
<1>5. ASSUME NEW k \in S, k < m PROVE FALSE
  <2>1. /\ 0 .. k \in T /\ 0 .. k \subseteq 0 .. m /\ 0 .. k # 0 .. m
        /\ 0 .. k \subseteq Nat /\ 0 .. m \subseteq Nat
    BY <1>5
  <2> QED
    BY <2>1, <1>2, <1>3, <1>4 DEF StrictSubsetOrdering, FiniteSubsetsOf
<1> QED
  BY <1>5

(* Dictionaries and rooms as sets, the form in which they are built up.    *)
PartialFn(S, T) == UNION {[D -> T] : D \in SUBSET S}

Room == [owner : Uin, fighters : Byte \ {0}, observers : Byte,
         locked : BOOLEAN, started : BOOLEAN,
         members : PartialFn(Uin, Member)]

IInv == TypeOK /\ MembershipAgrees /\ SeatsSound /\ OwnerSound

(* What IInv says of a single room: m is a sound membership, under owner o, *)
(* of a room with the seats of room.                                       *)
MembersOK(m, o, room) ==
  /\ m \in PartialFn(Uin, Member)
  /\ o \in DOMAIN m
  /\ \A u \in DOMAIN m :
       /\ m[u].seat \in SeatRange(room, m[u].observer)
       /\ \A v \in DOMAIN m \ {u} : m[u].seat # m[v].seat
       /\ m[u].owner <=> (u = o)

RoomOK(room) == room \in Room /\ MembersOK(room.members, room.owner, room)

(* IInv, regrouped room by room.                                           *)
AllOK(dict) ==
  dict \in PartialFn(RoomId, Room) /\ \A r \in DOMAIN dict : RoomOK(dict[r])

RoomwiseInv ==
  playerRoom \in PartialFn(Uin, RoomId) /\ AllOK(rooms) /\ MembershipAgrees

-----------------------------------------------------------------------------
(* What it means to be a dictionary from S to T.                           *)
LEMMA PartialFnFacts ==
  ASSUME NEW S, NEW T, NEW f
  PROVE  f \in PartialFn(S, T) <=>
           /\ DOMAIN f \subseteq S
           /\ f = [x \in DOMAIN f |-> f[x]]
           /\ \A x \in DOMAIN f : f[x] \in T
BY DEF PartialFn

LEMMA EmptyDictFacts ==
  ASSUME NEW S, NEW T
  PROVE  DOMAIN EmptyDict = {} /\ EmptyDict \in PartialFn(S, T)
<1>1. EmptyDict \in [{} -> T]
  BY DEF EmptyDict
<1> QED
  BY <1>1 DEF PartialFn, EmptyDict

LEMMA PartialFnWith ==
  ASSUME NEW S, NEW T, NEW f \in PartialFn(S, T), NEW x \in S, NEW v \in T
  PROVE  With(f, x, v) \in PartialFn(S, T)
<1> DEFINE g == With(f, x, v)
<1>1. DOMAIN f \subseteq S /\ \A y \in DOMAIN f : f[y] \in T
  BY PartialFnFacts
<1>2. g \in [DOMAIN f \cup {x} -> T]
  BY <1>1 DEF With
<1> QED
  BY <1>1, <1>2 DEF PartialFn

LEMMA PartialFnWithout ==
  ASSUME NEW S, NEW T, NEW f \in PartialFn(S, T), NEW x
  PROVE  Without(f, x) \in PartialFn(S, T)
<1> DEFINE g == Without(f, x)
<1>1. DOMAIN f \subseteq S /\ \A y \in DOMAIN f : f[y] \in T
  BY PartialFnFacts
<1>2. g \in [DOMAIN f \ {x} -> T]
  BY <1>1 DEF Without
<1> QED
  BY <1>1, <1>2 DEF PartialFn

(* A dictionary with one more entry, and with one entry less.              *)
LEMMA WithFacts ==
  ASSUME NEW f, NEW x, NEW v
  PROVE  /\ DOMAIN With(f, x, v) = DOMAIN f \cup {x}
         /\ With(f, x, v)[x] = v
         /\ \A y \in DOMAIN f \ {x} : With(f, x, v)[y] = f[y]
BY DEF With

LEMMA WithoutFacts ==
  ASSUME NEW f, NEW x
  PROVE  /\ DOMAIN Without(f, x) = DOMAIN f \ {x}
         /\ \A y \in DOMAIN f \ {x} : Without(f, x)[y] = f[y]
BY DEF Without

(* A free seat exists, so _next_free_seat_locked returns one of them.      *)
LEMMA NextFreeSeatFacts ==
  ASSUME NEW room, NEW b \in BOOLEAN,
         room.fighters \in Nat, room.observers \in Nat,
         FreeSeats(room, b) # {}
  PROVE  NextFreeSeat(room, b) \in FreeSeats(room, b)
<1>1. FreeSeats(room, b) \subseteq Nat
  BY DEF FreeSeats, SeatRange
<1>2. \E m \in FreeSeats(room, b) : \A k \in FreeSeats(room, b) : m <= k
  BY <1>1, LeastNatural
<1> QED
  BY <1>2 DEF NextFreeSeat

(* The heir of a non-empty membership is one of its members.               *)
LEMMA HeirFacts ==
  ASSUME NEW members, DOMAIN members \subseteq Uin, DOMAIN members # {},
         \A u \in DOMAIN members : members[u].seat \in Nat
  PROVE  Heir(members) \in DOMAIN members
<1> DEFINE S == {members[u].seat : u \in DOMAIN members}
<1>1. PICK s \in S : \A t \in S : s <= t
  <2>1. S \in SUBSET Nat /\ S # {}
    OBVIOUS
  <2> QED
    BY <2>1, LeastNatural
<1> DEFINE U == {u \in DOMAIN members : members[u].seat = s}
<1>2. PICK u \in U : \A v \in U : u <= v
  <2>1. U \in SUBSET Nat /\ U # {}
    BY RegistryAssumption
  <2> QED
    BY <2>1, LeastNatural
<1>3. \A v \in DOMAIN members :
         \/ members[u].seat < members[v].seat
         \/ members[u].seat = members[v].seat /\ u <= v
  BY <1>1, <1>2
<1> QED
  BY <1>2, <1>3 DEF Heir
-----------------------------------------------------------------------------
LEMMA DictSet ==
  ASSUME NEW f, NEW S, NEW T
  PROVE  IsDict(f, S, T) <=> f \in PartialFn(S, T)
BY DEF IsDict, PartialFn

LEMMA RoomSet ==
  ASSUME NEW room
  PROVE  IsRoom(room) <=> room \in Room
<1>1. IsDict(room.members, Uin, Member)
        <=> room.members \in PartialFn(Uin, Member)
  BY DictSet
<1> QED
  BY <1>1 DEF IsRoom, Room

LEMMA Regrouped == IInv <=> RoomwiseInv
<1>1. TypeOK <=> /\ playerRoom \in PartialFn(Uin, RoomId)
                 /\ rooms \in PartialFn(RoomId, Room)
  <2>1. IsDict(rooms, RoomId, {rooms[r] : r \in DOMAIN rooms})
          /\ (\A r \in DOMAIN rooms : rooms[r] \in Room)
          <=> rooms \in PartialFn(RoomId, Room)
    BY PartialFnFacts DEF IsDict
  <2> QED
    BY <2>1, DictSet, RoomSet DEF TypeOK
<1>2. rooms \in PartialFn(RoomId, Room) =>
        \A r \in DOMAIN rooms :
           /\ rooms[r] \in Room
           /\ rooms[r].members \in PartialFn(Uin, Member)
  <2> SUFFICES ASSUME rooms \in PartialFn(RoomId, Room), NEW r \in DOMAIN rooms
               PROVE  /\ rooms[r] \in Room
                      /\ rooms[r].members \in PartialFn(Uin, Member)
    OBVIOUS
  <2>1. rooms[r] \in Room
    BY PartialFnFacts
  <2> QED
    BY <2>1 DEF Room
<1> QED
  BY <1>1, <1>2 DEF IInv, RoomwiseInv, AllOK, SeatsSound, OwnerSound,
                    RoomOK, MembersOK

(* Seats depend on the capacities alone, which only create_room sets.      *)
LEMMA ReplaceMembers ==
  ASSUME NEW room \in Room, NEW m, NEW o, MembersOK(m, o, room)
  PROVE  RoomOK([room EXCEPT !.owner = o, !.members = m])
<1> DEFINE new == [room EXCEPT !.owner = o, !.members = m]
<1>1. m \in PartialFn(Uin, Member) /\ o \in Uin
  BY PartialFnFacts DEF MembersOK
<1>2. /\ new \in Room /\ new.members = m /\ new.owner = o
      /\ new.fighters = room.fighters /\ new.observers = room.observers
  BY <1>1 DEF Room
<1> HIDE DEF new
<1>3. \A b : SeatRange(new, b) = SeatRange(room, b)
  BY <1>2 DEF SeatRange
<1>4. MembersOK(m, o, new)
  BY <1>3 DEF MembersOK
<1>5. RoomOK(new)
  BY <1>2, <1>4 DEF RoomOK
<1> QED
  BY <1>5 DEF new

LEMMA KeepOwner ==
  ASSUME NEW room \in Room, NEW m, MembersOK(m, room.owner, room)
  PROVE  RoomOK([room EXCEPT !.members = m])
<1>1. [room EXCEPT !.members = m]
        = [room EXCEPT !.owner = room.owner, !.members = m]
  BY DEF Room
<1> QED
  BY <1>1, ReplaceMembers

(* The room create_room builds.                                            *)
LEMMA CreateRoomOK ==
  ASSUME NEW u \in Uin, NEW f \in FighterReq, NEW o \in ObserverReq,
         NEW l \in BOOLEAN,
         NEW m, m = With(EmptyDict, u, NewMember(0, TRUE, FALSE)),
         NEW new, new = [owner |-> u, fighters |-> FighterCapacity(f),
                         observers |-> o, locked |-> l, started |-> FALSE,
                         members |-> m]
  PROVE  RoomOK(new)
<1>1. DOMAIN m = {u} /\ m[u] = NewMember(0, TRUE, FALSE)
  BY DEF With, EmptyDict
<1>2. NewMember(0, TRUE, FALSE) \in Member
  BY RegistryAssumption DEF NewMember, Member
<1>3. FighterCapacity(f) \in Byte \ {0} /\ o \in Byte
  BY RegistryAssumption DEF FighterCapacity, Byte
<1>4. m \in PartialFn(Uin, Member)
  <2>1. EmptyDict \in PartialFn(Uin, Member)
    BY EmptyDictFacts
  <2> QED
    BY <2>1, <1>2, PartialFnWith
<1>5. new.members = m /\ new.owner = u /\ new.fighters = FighterCapacity(f)
  OBVIOUS
<1>6. new \in Room
  BY <1>3, <1>4, <1>5, RegistryAssumption DEF Room
<1>7. 0 \in SeatRange(new, FALSE)
  BY <1>3, <1>5 DEF SeatRange, Byte
<1>8. m[u].seat = 0 /\ m[u].observer = FALSE /\ m[u].owner
  BY <1>1 DEF NewMember
<1>9. \A v \in DOMAIN m : v = u
  BY <1>1
<1>10. MembersOK(m, u, new)
  BY <1>1, <1>4, <1>7, <1>8, <1>9 DEF MembersOK
<1> QED
  BY <1>5, <1>6, <1>10 DEF RoomOK

(* A newcomer on a free seat of their own range.                           *)
LEMMA JoinRoomOK ==
  ASSUME NEW room \in Room, NEW o, MembersOK(room.members, o, room),
         NEW u \in Uin, u \notin DOMAIN room.members,
         NEW b \in BOOLEAN, NEW s \in FreeSeats(room, b),
         NEW m, m = With(room.members, u, NewMember(s, FALSE, b))
  PROVE  MembersOK(m, o, room)
<1>1. /\ DOMAIN m = DOMAIN room.members \cup {u}
      /\ m[u] = NewMember(s, FALSE, b)
      /\ \A y \in DOMAIN room.members : m[y] = room.members[y]
  BY DEF With
<1>2. s \in Nat /\ s \in SeatRange(room, b) /\ s \notin Seats(room)
  BY DEF FreeSeats, SeatRange, Room, Byte
<1>3. NewMember(s, FALSE, b) \in Member
  BY <1>2, RegistryAssumption DEF NewMember, Member
<1>4. m \in PartialFn(Uin, Member)
  BY <1>3, PartialFnWith DEF Room
<1>5. \A v \in DOMAIN room.members : room.members[v].seat # s
  BY <1>2 DEF Seats
<1>6. m[u].seat = s /\ m[u].observer = b /\ ~m[u].owner
  BY <1>1 DEF NewMember
<1>7. u # o
  BY DEF MembersOK
<1> QED
  <2>1. o \in DOMAIN m
    BY <1>1 DEF MembersOK
  <2>2. ASSUME NEW v \in DOMAIN m
        PROVE  m[v].seat \in SeatRange(room, m[v].observer)
    BY <1>1, <1>2, <1>6 DEF MembersOK
  <2>3. ASSUME NEW v \in DOMAIN m, NEW w \in DOMAIN m \ {v}
        PROVE  m[v].seat # m[w].seat
    <3>1. CASE v = u
      BY <3>1, <1>1, <1>5, <1>6
    <3>2. CASE w = u
      BY <3>2, <1>1, <1>5, <1>6
    <3>3. CASE v # u /\ w # u
      <4>1. /\ v \in DOMAIN room.members /\ m[v] = room.members[v]
            /\ w \in DOMAIN room.members \ {v} /\ m[w] = room.members[w]
        BY <3>3, <1>1
      <4>2. room.members[v].seat # room.members[w].seat
        BY <4>1, Zenon DEF MembersOK
      <4> QED
        BY <4>1, <4>2, Zenon
    <3> QED
      BY <3>1, <3>2, <3>3
  <2>4. ASSUME NEW v \in DOMAIN m
        PROVE  m[v].owner <=> (v = o)
    BY <1>1, <1>6, <1>7 DEF MembersOK
  <2> QED
    BY <1>4, <2>1, <2>2, <2>3, <2>4 DEF MembersOK

(* A member who is not the owner leaves.                                   *)
LEMMA LeaveRoomOK ==
  ASSUME NEW room, NEW o, MembersOK(room.members, o, room), NEW u, u # o,
         NEW m, m = Without(room.members, u)
  PROVE  MembersOK(m, o, room)
<1>1. /\ DOMAIN m = DOMAIN room.members \ {u}
      /\ \A y \in DOMAIN m : m[y] = room.members[y]
  BY DEF Without
<1>2. m \in PartialFn(Uin, Member)
  BY PartialFnWithout DEF MembersOK
<1> QED
  BY <1>1, <1>2 DEF MembersOK

(* The owner leaves and h, one of the others, inherits the flag.           *)
LEMMA HandOverOK ==
  ASSUME NEW room, NEW o, MembersOK(room.members, o, room),
         NEW rest, rest = Without(room.members, o), NEW h \in DOMAIN rest,
         NEW m, m = [v \in DOMAIN rest |-> [rest[v] EXCEPT !.owner = (v = h)]]
  PROVE  MembersOK(m, h, room)
<1>1. /\ DOMAIN rest = DOMAIN room.members \ {o}
      /\ \A v \in DOMAIN rest : rest[v] = room.members[v]
  BY DEF Without
<1>2. rest \in PartialFn(Uin, Member)
  BY PartialFnWithout DEF MembersOK
<1>3. DOMAIN rest \subseteq Uin /\ \A v \in DOMAIN rest : rest[v] \in Member
  BY <1>2, PartialFnFacts
<1>4. \A v \in DOMAIN rest :
         /\ m[v] \in Member /\ (m[v].owner <=> (v = h))
         /\ m[v].seat = rest[v].seat /\ m[v].observer = rest[v].observer
  BY <1>3 DEF Member
<1>5. DOMAIN m = DOMAIN rest
  OBVIOUS
<1>6. m \in [DOMAIN rest -> Member]
  BY <1>4
<1>7. m \in PartialFn(Uin, Member)
  BY <1>3, <1>6 DEF PartialFn
<1>8. ASSUME NEW v \in DOMAIN rest
      PROVE  /\ rest[v].seat \in SeatRange(room, rest[v].observer)
             /\ \A w \in DOMAIN rest \ {v} : rest[v].seat # rest[w].seat
  BY <1>1 DEF MembersOK
<1>9. ASSUME NEW v \in DOMAIN m
      PROVE  /\ m[v].seat \in SeatRange(room, m[v].observer)
             /\ \A w \in DOMAIN m \ {v} : m[v].seat # m[w].seat
  <2>1. m[v].seat = rest[v].seat /\ m[v].observer = rest[v].observer
    BY <1>4, <1>5
  <2>2. \A w \in DOMAIN m \ {v} : m[w].seat = rest[w].seat
    BY <1>4, <1>5
  <2> QED
    BY <2>1, <2>2, <1>5, <1>8
<1> QED
  <2>1. \A v \in DOMAIN m : m[v].owner <=> (v = h)
    BY <1>4, <1>5
  <2>2. h \in DOMAIN m
    BY <1>5
  <2> QED
    <3>1. \A v \in DOMAIN m :
             /\ m[v].seat \in SeatRange(room, m[v].observer)
             /\ \A w \in DOMAIN m \ {v} : m[v].seat # m[w].seat
             /\ m[v].owner <=> (v = h)
      BY <1>9, <2>1, Zenon
    <3> QED
      BY <1>7, <2>2, <3>1, Zenon DEF MembersOK

(* A member is replaced by one with the same role on an acceptable seat.   *)
LEMMA ChangeMemberOK ==
  ASSUME NEW room, NEW o, MembersOK(room.members, o, room),
         NEW u \in DOMAIN room.members, NEW x \in Member,
         x.owner = room.members[u].owner,
         x.observer = room.members[u].observer,
         x.seat \in SeatRange(room, x.observer),
         \A v \in DOMAIN room.members \ {u} : room.members[v].seat # x.seat,
         NEW m, m = [room.members EXCEPT ![u] = x]
  PROVE  MembersOK(m, o, room)
<1>1. /\ DOMAIN m = DOMAIN room.members /\ m[u] = x
      /\ \A v \in DOMAIN m \ {u} : m[v] = room.members[v]
  OBVIOUS
<1>2. /\ DOMAIN room.members \subseteq Uin
      /\ \A v \in DOMAIN room.members : room.members[v] \in Member
  BY PartialFnFacts DEF MembersOK
<1>3. m \in [DOMAIN room.members -> Member]
  BY <1>1, <1>2
<1>4. m \in PartialFn(Uin, Member)
  BY <1>2, <1>3 DEF PartialFn
<1>5. ASSUME NEW v \in DOMAIN m, NEW w \in DOMAIN m \ {v}
      PROVE  m[v].seat # m[w].seat
  <2>1. CASE v = u
    BY <2>1, <1>1
  <2>2. CASE w = u
    BY <2>2, <1>1
  <2>3. CASE v # u /\ w # u
    <3>1. /\ v \in DOMAIN room.members /\ m[v] = room.members[v]
          /\ w \in DOMAIN room.members \ {v} /\ m[w] = room.members[w]
      BY <2>3, <1>1
    <3>2. room.members[v].seat # room.members[w].seat
      BY <3>1, Zenon DEF MembersOK
    <3> QED
      BY <3>1, <3>2, Zenon
  <2> QED
    BY <2>1, <2>2, <2>3
<1>6. ASSUME NEW v \in DOMAIN m
      PROVE  /\ m[v].seat \in SeatRange(room, m[v].observer)
             /\ m[v].owner <=> (v = o)
  BY <1>1 DEF MembersOK
<1> QED
  BY <1>1, <1>4, <1>5, <1>6 DEF MembersOK

LEMMA SetStartedOK ==
  ASSUME NEW room, RoomOK(room), NEW b \in BOOLEAN
  PROVE  RoomOK([room EXCEPT !.started = b])
<1> DEFINE new == [room EXCEPT !.started = b]
<1>1. /\ new \in Room /\ new.members = room.members /\ new.owner = room.owner
      /\ new.fighters = room.fighters /\ new.observers = room.observers
  BY DEF Room, RoomOK
<1> HIDE DEF new
<1>2. \A x : SeatRange(new, x) = SeatRange(room, x)
  BY <1>1 DEF SeatRange
<1>3. RoomOK(new)
  BY <1>1, <1>2 DEF RoomOK, MembersOK
<1> QED
  BY <1>3 DEF new

-----------------------------------------------------------------------------
(* What the dictionary of rooms may become.                                *)
LEMMA AllOKWith ==
  ASSUME NEW f, AllOK(f), NEW r \in RoomId, NEW new, RoomOK(new)
  PROVE  AllOK(With(f, r, new))
<1>1. new \in Room
  BY DEF RoomOK
<1>2. With(f, r, new) \in PartialFn(RoomId, Room)
  BY <1>1, PartialFnWith DEF AllOK
<1>3. ASSUME NEW q \in DOMAIN With(f, r, new)
      PROVE  RoomOK(With(f, r, new)[q])
  <2>1. CASE q = r
    <3>1. With(f, r, new)[q] = new
      BY <2>1 DEF With
    <3> QED
      BY <3>1, Zenon
  <2>2. CASE q # r
    <3>1. q \in DOMAIN f /\ With(f, r, new)[q] = f[q]
      BY <2>2 DEF With
    <3> QED
      BY <3>1, Zenon DEF AllOK
  <2> QED
    BY <2>1, <2>2
<1> QED
  BY <1>2, <1>3, Zenon DEF AllOK

LEMMA AllOKWithout ==
  ASSUME NEW f, AllOK(f), NEW r
  PROVE  AllOK(Without(f, r))
<1>1. Without(f, r) \in PartialFn(RoomId, Room)
  BY PartialFnWithout DEF AllOK
<1>2. ASSUME NEW q \in DOMAIN Without(f, r)
      PROVE  RoomOK(Without(f, r)[q])
  <2>1. q \in DOMAIN f /\ Without(f, r)[q] = f[q]
    BY WithoutFacts
  <2> QED
    BY <2>1, Zenon DEF AllOK
<1> QED
  BY <1>1, <1>2, Zenon DEF AllOK

LEMMA AllOKUpdate ==
  ASSUME NEW f, AllOK(f), NEW r \in DOMAIN f, NEW new, RoomOK(new)
  PROVE  AllOK([f EXCEPT ![r] = new])
<1>1. r \in RoomId
  BY PartialFnFacts DEF AllOK
<1>2. [f EXCEPT ![r] = new] = With(f, r, new)
  <2>1. f = [x \in DOMAIN f |-> f[x]]
    BY PartialFnFacts DEF AllOK
  <2> QED
    BY <2>1 DEF With
<1>3. AllOK(With(f, r, new))
  BY <1>1, AllOKWith
<1> QED
  BY <1>2, <1>3, Zenon

-----------------------------------------------------------------------------
LEMMA InitOK == Init => RoomwiseInv
<1> SUFFICES ASSUME Init PROVE RoomwiseInv
  OBVIOUS
<1>1. playerRoom \in PartialFn(Uin, RoomId) /\ rooms \in PartialFn(RoomId, Room)
  BY EmptyDictFacts DEF Init
<1>2. DOMAIN rooms = {} /\ DOMAIN playerRoom = {}
  BY EmptyDictFacts DEF Init
<1> QED
  BY <1>1, <1>2 DEF RoomwiseInv, AllOK, MembershipAgrees

LEMMA CreateRoomStep ==
  ASSUME RoomwiseInv, NEW u \in Uin, NEW r \in RoomId, NEW f \in FighterReq,
         NEW o \in ObserverReq, NEW l \in BOOLEAN, CreateRoom(u, r, f, o, l)
  PROVE  RoomwiseInv'
<1> DEFINE m == With(EmptyDict, u, NewMember(0, TRUE, FALSE))
           new == [owner |-> u, fighters |-> FighterCapacity(f),
                   observers |-> o, locked |-> l, started |-> FALSE,
                   members |-> m]
<1>1. RoomOK(new)
  <2> HIDE DEF m
  <2>1. m = With(EmptyDict, u, NewMember(0, TRUE, FALSE))
    BY DEF m
  <2> QED
    BY <2>1, CreateRoomOK
<1>2. DOMAIN new.members = {u}
  BY DEF With, EmptyDict
<1>3. /\ r \notin DOMAIN rooms /\ u \notin DOMAIN playerRoom
      /\ rooms' = With(rooms, r, new) /\ playerRoom' = With(playerRoom, u, r)
  BY DEF CreateRoom
<1> HIDE DEF new
<1>4. playerRoom' \in PartialFn(Uin, RoomId)
  BY <1>3, PartialFnWith DEF RoomwiseInv
<1>5. AllOK(rooms')
  BY <1>1, <1>3, AllOKWith DEF RoomwiseInv
<1>6. MembershipAgrees'
  <2>1. /\ DOMAIN rooms' = DOMAIN rooms \cup {r} /\ rooms'[r] = new
        /\ \A q \in DOMAIN rooms : rooms'[q] = rooms[q]
    BY <1>3 DEF With
  <2>2. /\ DOMAIN playerRoom' = DOMAIN playerRoom \cup {u}
        /\ playerRoom'[u] = r
        /\ \A v \in DOMAIN playerRoom : playerRoom'[v] = playerRoom[v]
    BY <1>3 DEF With
  <2> QED
    BY <1>2, <1>3, <2>1, <2>2 DEF RoomwiseInv, MembershipAgrees
<1> QED
  BY <1>4, <1>5, <1>6 DEF RoomwiseInv

LEMMA JoinRoomStep ==
  ASSUME RoomwiseInv, NEW u \in Uin, NEW r \in RoomId, NEW k \in BOOLEAN,
         NEW b \in BOOLEAN, JoinRoom(u, r, k, b)
  PROVE  RoomwiseInv'
<1> DEFINE room == rooms[r]
           s == NextFreeSeat(room, b)
           m == With(room.members, u, NewMember(s, FALSE, b))
           new == [room EXCEPT !.members = m]
<1>1. /\ r \in DOMAIN rooms /\ u \notin DOMAIN playerRoom
      /\ FreeSeats(room, b) # {} /\ playerRoom' = With(playerRoom, u, r)
  BY DEF JoinRoom
<1>2. rooms' = [rooms EXCEPT ![r] = new]
  BY DEF JoinRoom
<1>3. RoomOK(room) /\ rooms = [q \in DOMAIN rooms |-> rooms[q]]
  BY <1>1, PartialFnFacts DEF RoomwiseInv, AllOK
<1>4. room \in Room /\ MembersOK(room.members, room.owner, room)
  BY <1>3, Zenon DEF RoomOK
<1>5. u \notin DOMAIN room.members
  BY <1>1 DEF RoomwiseInv, MembershipAgrees
<1>6. s \in FreeSeats(room, b)
  BY <1>1, <1>4, NextFreeSeatFacts DEF Room, Byte
<1> HIDE DEF room, s
<1>7. MembersOK(m, room.owner, room)
  <2> HIDE DEF m
  <2>1. m = With(room.members, u, NewMember(s, FALSE, b))
    BY DEF m
  <2> QED
    BY <2>1, <1>4, <1>5, <1>6, JoinRoomOK
<1>8. DOMAIN new.members = DOMAIN room.members \cup {u}
  BY <1>4 DEF With, Room
<1> HIDE DEF m
<1>9. RoomOK(new)
  BY <1>4, <1>7, KeepOwner
<1> HIDE DEF new
<1>10. AllOK(rooms')
  BY <1>1, <1>2, <1>9, AllOKUpdate DEF RoomwiseInv
<1>11. playerRoom' \in PartialFn(Uin, RoomId)
  BY <1>1, PartialFnWith DEF RoomwiseInv
<1>12. MembershipAgrees'
  <2>1. /\ DOMAIN rooms' = DOMAIN rooms /\ rooms'[r] = new
        /\ \A q \in DOMAIN rooms \ {r} : rooms'[q] = rooms[q]
    BY <1>1, <1>2
  <2>2. /\ DOMAIN playerRoom' = DOMAIN playerRoom \cup {u}
        /\ playerRoom'[u] = r
        /\ \A v \in DOMAIN playerRoom : playerRoom'[v] = playerRoom[v]
    BY <1>1 DEF With
  <2> QED
    BY <1>1, <1>8, <2>1, <2>2 DEF RoomwiseInv, MembershipAgrees, room
<1> QED
  BY <1>10, <1>11, <1>12 DEF RoomwiseInv

(* Leaving hands the room over when it must, and removes u and nobody else. *)
LEMMA RoomAfterLeaveOK ==
  ASSUME NEW room, RoomOK(room), NEW u \in DOMAIN room.members,
         DOMAIN room.members # {u}
  PROVE  /\ RoomOK(RoomAfterLeave(room, u))
         /\ DOMAIN RoomAfterLeave(room, u).members = DOMAIN room.members \ {u}
<1>1. room \in Room /\ MembersOK(room.members, room.owner, room)
  BY DEF RoomOK
<1> DEFINE rest == Without(room.members, u)
<1>2. DOMAIN rest = DOMAIN room.members \ {u}
  BY DEF Without
<1>3. rest \in PartialFn(Uin, Member)
  BY <1>1, PartialFnWithout DEF MembersOK
<1>4. /\ DOMAIN rest \subseteq Uin /\ DOMAIN rest # {}
      /\ \A v \in DOMAIN rest : rest[v].seat \in Nat
  <2>1. \A v \in DOMAIN rest : rest[v] \in Member
    BY <1>3, PartialFnFacts
  <2>2. DOMAIN rest \subseteq Uin
    BY <1>3, PartialFnFacts
  <2> QED
    BY <1>2, <2>1, <2>2 DEF Member
<1>5. CASE room.owner # u
  <2> DEFINE new == [room EXCEPT !.members = rest]
  <2>1. RoomAfterLeave(room, u) = new
    BY <1>5 DEF RoomAfterLeave
  <2>2. new.members = rest
    BY <1>1 DEF Room
  <2>3. RoomOK(new)
    <3>1. MembersOK(rest, room.owner, room)
      <4>1. rest = Without(room.members, u)
        OBVIOUS
      <4> HIDE DEF rest
      <4> QED
        BY <1>1, <1>5, <4>1, LeaveRoomOK
    <3> HIDE DEF rest
    <3> QED
      BY <1>1, <3>1, KeepOwner
  <2> HIDE DEF new
  <2> QED
    BY <1>2, <2>1, <2>2, <2>3
<1>6. CASE room.owner = u
  <2> DEFINE heir == Heir(rest)
             m == [v \in DOMAIN rest |-> [rest[v] EXCEPT !.owner = (v = heir)]]
             new == [room EXCEPT !.owner = heir, !.members = m]
  <2>1. RoomAfterLeave(room, u) = new
    BY <1>6 DEF RoomAfterLeave
  <2>2. heir \in DOMAIN rest
    <3> HIDE DEF rest
    <3> QED
      BY <1>4, HeirFacts
  <2>3. new.members = m /\ DOMAIN m = DOMAIN rest
    BY <1>1 DEF Room
  <2>4. RoomOK(new)
    <3>1. MembersOK(m, heir, room)
      <4>1. rest = Without(room.members, u)
        OBVIOUS
      <4> HIDE DEF rest, heir
      <4>2. m = [v \in DOMAIN rest |-> [rest[v] EXCEPT !.owner = (v = heir)]]
        OBVIOUS
      <4> HIDE DEF m
      <4>3. MembersOK(room.members, u, room) /\ rest = Without(room.members, u)
        BY <1>1, <1>6, <4>1
      <4> QED
        BY <2>2, <4>2, <4>3, HandOverOK
    <3> HIDE DEF m, heir
    <3> QED
      BY <1>1, <3>1, ReplaceMembers
  <2> HIDE DEF new, m
  <2> QED
    BY <1>2, <2>1, <2>3, <2>4
<1> QED
  BY <1>5, <1>6

LEMMA LeaveRoomStep ==
  ASSUME RoomwiseInv, NEW u \in Uin, LeaveRoom(u)
  PROVE  RoomwiseInv'
<1> DEFINE r == playerRoom[u]
<1>1. u \in DOMAIN playerRoom /\ playerRoom' = Without(playerRoom, u)
  BY DEF LeaveRoom
<1>2. r \in RoomId
  BY <1>1, PartialFnFacts DEF RoomwiseInv
<1>3. r \in DOMAIN rooms /\ u \in DOMAIN rooms[r].members /\ InRoom(u)
  BY <1>1, <1>2 DEF RoomwiseInv, MembershipAgrees, InRoom
<1>4. playerRoom' \in PartialFn(Uin, RoomId)
  BY <1>1, PartialFnWithout DEF RoomwiseInv
<1>5. /\ DOMAIN playerRoom' = DOMAIN playerRoom \ {u}
      /\ \A v \in DOMAIN playerRoom' : playerRoom'[v] = playerRoom[v]
  BY <1>1 DEF Without
<1>6. RoomOK(rooms[r])
  BY <1>3 DEF RoomwiseInv, AllOK
<1>7. CASE DOMAIN rooms[r].members = {u}
  <2>1. rooms' = Without(rooms, r)
    BY <1>3, <1>7 DEF LeaveRoom
  <2>2. AllOK(rooms')
    BY <2>1, AllOKWithout DEF RoomwiseInv
  <2>3. /\ DOMAIN rooms' = DOMAIN rooms \ {r}
        /\ \A q \in DOMAIN rooms' : rooms'[q] = rooms[q]
    BY <2>1 DEF Without
  <2>4. MembershipAgrees'
    BY <1>1, <1>5, <1>7, <2>3 DEF RoomwiseInv, MembershipAgrees
  <2> QED
    BY <1>4, <2>2, <2>4 DEF RoomwiseInv
<1>8. CASE DOMAIN rooms[r].members # {u}
  <2> DEFINE new == RoomAfterLeave(rooms[r], u)
  <2>1. rooms' = [rooms EXCEPT ![r] = new]
    BY <1>3, <1>8 DEF LeaveRoom
  <2>2. RoomOK(new) /\ DOMAIN new.members = DOMAIN rooms[r].members \ {u}
    BY <1>3, <1>6, <1>8, RoomAfterLeaveOK
  <2> HIDE DEF new
  <2>3. AllOK(rooms')
    BY <1>3, <2>1, <2>2, AllOKUpdate DEF RoomwiseInv
  <2>4. /\ DOMAIN rooms' = DOMAIN rooms /\ rooms'[r] = new
        /\ \A q \in DOMAIN rooms \ {r} : rooms'[q] = rooms[q]
    BY <1>3, <2>1
  <2>5. MembershipAgrees'
    BY <1>1, <1>5, <2>2, <2>4 DEF RoomwiseInv, MembershipAgrees
  <2> QED
    BY <1>4, <2>3, <2>5 DEF RoomwiseInv
<1> QED
  BY <1>7, <1>8

(* A step that rewrites one room and keeps its members.                    *)
LEMMA SameMembersStep ==
  ASSUME RoomwiseInv, UNCHANGED playerRoom, NEW r \in DOMAIN rooms,
         NEW new, RoomOK(new), rooms' = [rooms EXCEPT ![r] = new],
         DOMAIN new.members = DOMAIN rooms[r].members
  PROVE  RoomwiseInv'
<1>1. AllOK(rooms')
  BY AllOKUpdate DEF RoomwiseInv
<1>2. /\ DOMAIN rooms' = DOMAIN rooms /\ rooms'[r] = new
      /\ \A q \in DOMAIN rooms \ {r} : rooms'[q] = rooms[q]
  OBVIOUS
<1>3. MembershipAgrees'
  BY <1>2 DEF RoomwiseInv, MembershipAgrees
<1> QED
  BY <1>1, <1>3 DEF RoomwiseInv

(* set_ready and move_member rewrite one member of the caller's room.      *)
LEMMA OneMemberOK ==
  ASSUME NEW room, RoomOK(room), NEW u \in DOMAIN room.members,
         NEW x \in Member,
         x.owner = room.members[u].owner,
         x.observer = room.members[u].observer,
         x.seat \in SeatRange(room, x.observer),
         \A v \in DOMAIN room.members \ {u} : room.members[v].seat # x.seat,
         NEW new, new = [room EXCEPT !.members = [room.members EXCEPT ![u] = x]]
  PROVE  RoomOK(new) /\ DOMAIN new.members = DOMAIN room.members
<1> DEFINE m == [room.members EXCEPT ![u] = x]
<1>1. room \in Room /\ MembersOK(room.members, room.owner, room)
  BY Zenon DEF RoomOK
<1>2. new.members = m /\ DOMAIN m = DOMAIN room.members
  BY <1>1 DEF Room
<1>3. MembersOK(m, room.owner, room)
  <2>1. m = [room.members EXCEPT ![u] = x]
    OBVIOUS
  <2> HIDE DEF m
  <2> QED
    BY <1>1, <2>1, ChangeMemberOK
<1>4. new = [room EXCEPT !.members = m]
  OBVIOUS
<1> HIDE DEF m
<1>5. RoomOK([room EXCEPT !.members = m])
  BY <1>1, <1>3, KeepOwner
<1>6. RoomOK(new)
  BY <1>4, <1>5, Zenon
<1> QED
  BY <1>2, <1>6

(* What the caller of set_ready or move_member starts from.                *)
LEMMA CallerFacts ==
  ASSUME RoomwiseInv, NEW u \in Uin, InRoom(u),
         NEW r, r = playerRoom[u], NEW room, room = rooms[r]
  PROVE  /\ r \in DOMAIN rooms /\ RoomOK(room)
         /\ u \in DOMAIN room.members /\ room.members[u] \in Member
         /\ room.members[u].seat \in SeatRange(room, room.members[u].observer)
         /\ \A v \in DOMAIN room.members \ {u} :
              room.members[v].seat # room.members[u].seat
<1>1. r \in DOMAIN rooms /\ u \in DOMAIN room.members
  BY DEF InRoom
<1>2. RoomOK(room)
  BY <1>1 DEF RoomwiseInv, AllOK
<1>3. room.members[u] \in Member
  BY <1>1, <1>2, PartialFnFacts DEF RoomOK, MembersOK
<1> QED
  BY <1>1, <1>2, <1>3 DEF RoomOK, MembersOK

LEMMA SetReadyStep ==
  ASSUME RoomwiseInv, NEW u \in Uin, NEW ready \in BOOLEAN, SetReady(u, ready)
  PROVE  RoomwiseInv'
<1> DEFINE r == playerRoom[u]
           room == rooms[r]
           x == [room.members[u] EXCEPT !.ready = ready]
           new == [room EXCEPT !.members = [room.members EXCEPT ![u] = x]]
<1>1. InRoom(u) /\ UNCHANGED playerRoom
  BY DEF SetReady
<1>2. rooms' = [rooms EXCEPT ![r] = new]
  BY DEF SetReady
<1>3. r = playerRoom[u] /\ room = rooms[r]
  OBVIOUS
<1> HIDE DEF r, room
<1>4. /\ r \in DOMAIN rooms /\ RoomOK(room)
      /\ u \in DOMAIN room.members /\ room.members[u] \in Member
      /\ room.members[u].seat \in SeatRange(room, room.members[u].observer)
      /\ \A v \in DOMAIN room.members \ {u} :
           room.members[v].seat # room.members[u].seat
  BY <1>1, <1>3, CallerFacts
<1>5. /\ x \in Member /\ x.owner = room.members[u].owner
      /\ x.observer = room.members[u].observer
      /\ x.seat = room.members[u].seat
  BY <1>4 DEF Member
<1> HIDE DEF x
<1>6. /\ x.seat \in SeatRange(room, x.observer)
      /\ \A v \in DOMAIN room.members \ {u} : room.members[v].seat # x.seat
  BY <1>4, <1>5
<1>7. new = [room EXCEPT !.members = [room.members EXCEPT ![u] = x]]
  OBVIOUS
<1> HIDE DEF new
<1>8. RoomOK(new) /\ DOMAIN new.members = DOMAIN rooms[r].members
  BY <1>3, <1>4, <1>5, <1>6, <1>7, OneMemberOK
<1> QED
  BY <1>1, <1>2, <1>4, <1>8, SameMembersStep

LEMMA MoveMemberStep ==
  ASSUME RoomwiseInv, NEW u \in Uin, NEW s \in SeatReq, NEW c \in Camp,
         MoveMember(u, s, c)
  PROVE  RoomwiseInv'
<1> DEFINE r == playerRoom[u]
           room == rooms[r]
           x == [room.members[u] EXCEPT !.seat = s, !.camp = c]
           new == [room EXCEPT !.members = [room.members EXCEPT ![u] = x]]
<1>1. /\ InRoom(u) /\ UNCHANGED playerRoom
      /\ s \in SeatRange(room, room.members[u].observer)
      /\ \A v \in DOMAIN room.members \ {u} : room.members[v].seat # s
  BY DEF MoveMember
<1>2. rooms' = [rooms EXCEPT ![r] = new]
  BY DEF MoveMember
<1>3. r = playerRoom[u] /\ room = rooms[r]
  OBVIOUS
<1> HIDE DEF r, room
<1>4. /\ r \in DOMAIN rooms /\ RoomOK(room)
      /\ u \in DOMAIN room.members /\ room.members[u] \in Member
  BY <1>1, <1>3, CallerFacts
<1>5. /\ x \in Member /\ x.owner = room.members[u].owner
      /\ x.observer = room.members[u].observer
      /\ x.seat = s
  BY <1>4, RegistryAssumption DEF Member
<1> HIDE DEF x
<1>6. /\ x.seat \in SeatRange(room, x.observer)
      /\ \A v \in DOMAIN room.members \ {u} : room.members[v].seat # x.seat
  BY <1>1, <1>5
<1>7. new = [room EXCEPT !.members = [room.members EXCEPT ![u] = x]]
  OBVIOUS
<1> HIDE DEF new
<1>8. RoomOK(new) /\ DOMAIN new.members = DOMAIN rooms[r].members
  BY <1>3, <1>4, <1>5, <1>6, <1>7, OneMemberOK
<1> QED
  BY <1>1, <1>2, <1>4, <1>8, SameMembersStep

LEMMA SetStartedStep ==
  ASSUME RoomwiseInv, NEW r \in RoomId, NEW b \in BOOLEAN, SetStarted(r, b)
  PROVE  RoomwiseInv'
<1> DEFINE new == [rooms[r] EXCEPT !.started = b]
<1>1. r \in DOMAIN rooms /\ UNCHANGED playerRoom
  BY DEF SetStarted
<1>2. rooms' = [rooms EXCEPT ![r] = new]
  BY DEF SetStarted
<1>3. RoomOK(rooms[r]) /\ rooms[r] \in Room
  BY <1>1 DEF RoomwiseInv, AllOK, RoomOK
<1>4. RoomOK(new)
  BY <1>3, SetStartedOK
<1>5. DOMAIN new.members = DOMAIN rooms[r].members
  BY <1>3 DEF Room
<1> HIDE DEF new
<1> QED
  BY <1>1, <1>2, <1>4, <1>5, SameMembersStep

-----------------------------------------------------------------------------
(* The inductive invariant of the registry: every method keeps the two     *)
(* dictionaries, the seats and the owners consistent.                      *)
THEOREM RegistryInvariant == Spec => []IInv
<1>1. Init => RoomwiseInv
  BY InitOK
<1>2. RoomwiseInv /\ [Next]_vars => RoomwiseInv'
  <2> SUFFICES ASSUME RoomwiseInv, [Next]_vars PROVE RoomwiseInv'
    OBVIOUS
  <2>1. ASSUME NEW u \in Uin, NEW r \in RoomId, NEW f \in FighterReq,
               NEW o \in ObserverReq, NEW l \in BOOLEAN,
               CreateRoom(u, r, f, o, l)
        PROVE  RoomwiseInv'
    BY <2>1, CreateRoomStep
  <2>2. ASSUME NEW u \in Uin, NEW r \in RoomId, NEW k \in BOOLEAN,
               NEW b \in BOOLEAN, JoinRoom(u, r, k, b)
        PROVE  RoomwiseInv'
    BY <2>2, JoinRoomStep
  <2>3. ASSUME NEW u \in Uin, LeaveRoom(u) PROVE RoomwiseInv'
    BY <2>3, LeaveRoomStep
  <2>4. ASSUME NEW u \in Uin, NEW ready \in BOOLEAN, SetReady(u, ready)
        PROVE  RoomwiseInv'
    BY <2>4, SetReadyStep
  <2>5. ASSUME NEW u \in Uin, NEW s \in SeatReq, NEW c \in Camp,
               MoveMember(u, s, c)
        PROVE  RoomwiseInv'
    BY <2>5, MoveMemberStep
  <2>6. ASSUME NEW r \in RoomId, NEW b \in BOOLEAN, SetStarted(r, b)
        PROVE  RoomwiseInv'
    BY <2>6, SetStartedStep
  <2>7. CASE UNCHANGED vars
    BY <2>7 DEF vars, RoomwiseInv, MembershipAgrees
  <2> QED
    BY <2>1, <2>2, <2>3, <2>4, <2>5, <2>6, <2>7 DEF Next
<1>3. RoomwiseInv => IInv
  BY Regrouped
<1> QED
  BY <1>1, <1>2, <1>3, PTL DEF Spec

(* Every reachable state of the registry is well typed.                    *)
THEOREM TypeCorrect == Spec => []TypeOK
<1>1. IInv => TypeOK
  BY DEF IInv
<1> QED
  BY <1>1, RegistryInvariant, PTL

(* No player is ever in two rooms, and no entry of one dictionary dangles. *)
THEOREM MembershipAlwaysAgrees == Spec => []MembershipAgrees
<1>1. IInv => MembershipAgrees
  BY DEF IInv
<1> QED
  BY <1>1, RegistryInvariant, PTL

(* No two members of a room ever share a seat.                             *)
THEOREM SeatsAlwaysSound == Spec => []SeatsSound
<1>1. IInv => SeatsSound
  BY DEF IInv
<1> QED
  BY <1>1, RegistryInvariant, PTL

(* Every room always has exactly one owner, and that owner is a member.    *)
THEOREM OwnerAlwaysSound == Spec => []OwnerSound
<1>1. IInv => OwnerSound
  BY DEF IInv
<1> QED
  BY <1>1, RegistryInvariant, PTL
=============================================================================
