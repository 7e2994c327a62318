-------------------------- MODULE DSSpawnerProofs --------------------------
(***************************************************************************)
(* The inductive invariant of DSSpawner and what follows from it, for any  *)
(* players, rooms, slots and bound on bridges.                             *)
(*                                                                         *)
(* RunningIsWatched and ReplacedIsStopped are not inductive alone: that a  *)
(* re-arm leaves no bridge unattended needs that the thread which wrote    *)
(* ROUND_ENDED still holds the old allocation until it has killed its bridge *)
(* (EndedIsStopped), which in turn needs that a thread inside a call works on *)
(* a room that has been reserved (Threads) and that a new round is a fresh *)
(* instance (Rounds).                                                      *)
(*                                                                         *)
(* The steps come in four shapes: a request, which changes no allocation   *)
(* (RequestShape); a step inside a call, which works on one (WorkShape); the *)
(* start of a bridge (ArmShape); and a monitor or a process (Background).  A *)
(* shape is shown to keep IInv once, and each action to have its shape.    *)
(***************************************************************************)
EXTENDS DSSpawner, FiniteSetTheorems, TLAPS

(* Every non-empty set of naturals has a least element: the intervals      *)
(* 0..k are well-founded under strict inclusion.                           *)
LEMMA LeastNatural ==
  ASSUME NEW S \in SUBSET Nat, S # {}
  PROVE  \E m \in S : \A k \in S : m <= k
<1> DEFINE O == StrictSubsetOrdering(Nat)
           T == {0 .. k : k \in S}
<1>1. IsWellFoundedOn(O, FiniteSubsetsOf(Nat))
  BY FS_StrictSubsetOrderingWellFounded
<1>2. T \subseteq FiniteSubsetsOf(Nat) /\ T # {}
  <2> SUFFICES ASSUME NEW k \in S
               PROVE  0 .. k \in FiniteSubsetsOf(Nat)
    OBVIOUS
  <2>1. IsFiniteSet(0 .. k)
    BY FS_Interval
  <2> QED
    BY <2>1 DEF FiniteSubsetsOf
<1>3. PICK x \in T : \A y \in T : ~ (<<y, x>> \in O)
  <2> HIDE DEF O, T
  <2> QED
    BY <1>1, <1>2, WFMin
<1>4. PICK m \in S : x = 0 .. m
  OBVIOUS
<1>5. ASSUME NEW k \in S, k < m PROVE FALSE
  <2>1. /\ 0 .. k \in T /\ 0 .. k \subseteq 0 .. m /\ 0 .. k # 0 .. m
        /\ 0 .. k \subseteq Nat /\ 0 .. m \subseteq Nat
    BY <1>5
  <2> QED
    BY <2>1, <1>2, <1>3, <1>4 DEF StrictSubsetOrdering, FiniteSubsetsOf
<1> QED
  BY <1>5

RoomRow == [cur : Round, owner : Player \cup {0}, players : SUBSET Player,
            match : SUBSET Player, handed : SUBSET Player]

AtRoom(p) == op[p].pc \in {"arm", "end", "release", "update"}
AtInst(p) == op[p].pc \in {"wait", "stop", "kill", "clear"}

(* A thread inside a call works on a room that has been reserved, and ends *)
(* only rounds that have been armed.                                       *)
Threads ==
  \A p \in Player :
    /\ AtRoom(p) => op[p].room \in RoomId /\ State(op[p].room) # "NONE"
    /\ AtInst(p) => op[p].inst \in Inst /\ State(op[p].inst[1]) # "NONE"
    /\ op[p].pc = "end" => State(op[p].room) # "RESERVED"

Armed(i) == \/ alloc[i].state \notin {"NONE", "RESERVED", "RELEASED"}
            \/ alloc[i].monitor # "off"

(* Every round that was armed has used up a bridge.                        *)
Rounds ==
  /\ \A r \in RoomId : State(r) \in {"NONE", "RESERVED"} => room[r].cur = 0
  /\ \A i \in Inst : Armed(i) => i[2] < bridges
  /\ \A p \in Player : op[p].pc = "wait" => op[p].inst[2] < bridges

(* A bridge behind a round that ended, replaced or not, is being stopped.  *)
EndedIsStopped ==
  \A i \in Inst :
     Running(i) /\ (i[2] # room[i[1]].cur \/ alloc[i].state = "ROUND_ENDED")
       => Stopping(i)

IInv == /\ TypeOK /\ Threads /\ Rounds
        /\ MembershipNested /\ OwnerIndexSound
        /\ EndedIsStopped /\ RunningIsWatched

-----------------------------------------------------------------------------
(* Instances and the current one of a room.                                *)
LEMMA InstFacts ==
  ASSUME NEW i \in Inst
  PROVE  i[1] \in RoomId /\ i[2] \in Round /\ i = <<i[1], i[2]>>
BY DEF Inst

(* The current instance of a room is an instance of that room.             *)
LEMMA CurrentFacts ==
  ASSUME TypeOK, NEW r \in RoomId
  PROVE  /\ Current(r) \in Inst
         /\ Current(r) = <<r, room[r].cur>>
         /\ Current(r)[1] = r /\ Current(r)[2] = room[r].cur
BY DEF TypeOK, Current, Inst

(* Replacing one field keeps the type of an allocation, room or thread.    *)
LEMMA AllocWith ==
  ASSUME NEW a \in Alloc
  PROVE  /\ \A v \in AllocState : [a EXCEPT !.state = v] \in Alloc
         /\ \A v \in {"off", "boot", "up", "dead"} : [a EXCEPT !.bridge = v] \in Alloc
         /\ \A v \in BOOLEAN : [a EXCEPT !.stray = v] \in Alloc
         /\ \A v \in BOOLEAN : [a EXCEPT !.orphan = v] \in Alloc
         /\ \A v \in {"off", "boot", "ready"} : [a EXCEPT !.heavy = v] \in Alloc
         /\ \A v \in {"", "LISTENING"} \cup Published : [a EXCEPT !.file = v] \in Alloc
         /\ \A v \in {"off", "run", "exited"} \cup Published :
               [a EXCEPT !.monitor = v] \in Alloc
         /\ \A v \in Slot \cup {-1} : [a EXCEPT !.slot = v] \in Alloc
BY DEF Alloc

(* The fields of an allocation have their types.                           *)
LEMMA AllocFields ==
  ASSUME NEW a \in Alloc
  PROVE  /\ a.state \in AllocState /\ a.slot \in Slot \cup {-1}
         /\ a.bridge \in {"off", "boot", "up", "dead"} /\ a.stray \in BOOLEAN
         /\ a.heavy \in {"off", "boot", "ready"} /\ a.orphan \in BOOLEAN
         /\ a.file \in {"", "LISTENING"} \cup Published
         /\ a.monitor \in {"off", "run", "exited"} \cup Published
BY DEF Alloc

(* A step that changes one allocation object.                              *)
LEMMA OneAlloc ==
  ASSUME TypeOK, NEW i \in Inst, NEW a \in Alloc,
         alloc' = [alloc EXCEPT ![i] = a]
  PROVE  /\ alloc' \in [Inst -> Alloc]
         /\ alloc'[i] = a
         /\ \A j \in Inst : j # i => alloc'[j] = alloc[j]
BY DEF TypeOK

-----------------------------------------------------------------------------
(* What each kind of step does to the allocations.  A process keeps every  *)
(* state and monitor and starts no bridge.                                 *)
LEMMA ProcessEffect ==
  ASSUME TypeOK, NEW i \in Inst, Process(i)
  PROVE  /\ alloc' \in [Inst -> Alloc]
         /\ \A j \in Inst : /\ alloc'[j].state = alloc[j].state
                            /\ alloc'[j].monitor = alloc[j].monitor
                            /\ alloc'[j].bridge \in {"boot", "up"} => Running(j)
         /\ UNCHANGED <<room, ownerRoom, op, bridges>>
<1> DEFINE a == alloc[i]
<1>1. a \in Alloc /\ alloc \in [Inst -> Alloc]
  BY DEF TypeOK
<1>2. "up" \in {"off", "boot", "up", "dead"} /\ "dead" \in {"off", "boot", "up", "dead"}
      /\ Published = {"SPAWNING", "AFDEV_READY", "READY", "FAILED"}
  BY DEF Published
<1>3. PICK b \in Alloc : /\ alloc' = [alloc EXCEPT ![i] = b]
                         /\ b.state = a.state /\ b.monitor = a.monitor
                         /\ b.bridge \in {"boot", "up"} => a.bridge \in {"boot", "up"}
  <2>1. CASE BridgeBinds(i)
    <3> DEFINE b1 == [a EXCEPT !.bridge = "dead"]
               b2 == [[a EXCEPT !.bridge = "up"] EXCEPT !.file = "LISTENING"]
    <3>1. b1 \in Alloc /\ b2 \in Alloc
      BY <1>1, <1>2, AllocWith
    <3>2. \/ alloc' = [alloc EXCEPT ![i] = b1]
          \/ alloc' = [alloc EXCEPT ![i] = b2]
      BY <1>1, <2>1 DEF BridgeBinds, Alloc
    <3>3. a.bridge = "boot"
      BY <2>1 DEF BridgeBinds
    <3>4. b1.state = a.state /\ b1.monitor = a.monitor
          /\ b2.state = a.state /\ b2.monitor = a.monitor
      BY <1>1 DEF Alloc
    <3>5. QED
      BY <3>1, <3>2, <3>3, <3>4
  <2>2. CASE BridgeSpawnsLoader(i)
    <3> DEFINE b == [[[a EXCEPT !.heavy = "boot"] EXCEPT !.file = "SPAWNING"]
                        EXCEPT !.orphan = a.orphan \/ a.heavy # "off"]
    <3>1. b \in Alloc
      BY <1>1, <1>2, AllocWith
    <3>2. alloc' = [alloc EXCEPT ![i] = b]
      BY <1>1, <2>2 DEF BridgeSpawnsLoader, Alloc
    <3>3. /\ b.state = a.state /\ b.monitor = a.monitor
          /\ b.bridge \in {"boot", "up"} => a.bridge \in {"boot", "up"}
      BY <1>1 DEF Alloc
    <3> HIDE DEF b
    <3>4. QED
      BY <3>1, <3>2, <3>3
  <2>3. CASE HeavyReady(i)
    <3> DEFINE f == IF a.bridge = "up" /\ a.file = "SPAWNING" THEN "AFDEV_READY" ELSE a.file
               b == [[a EXCEPT !.heavy = "ready"] EXCEPT !.file = f]
    <3>1. b \in Alloc
      BY <1>1, <1>2, AllocWith, AllocFields
    <3>2. alloc' = [alloc EXCEPT ![i] = b]
      BY <1>1, <2>3 DEF HeavyReady, Alloc
    <3>3. /\ b.state = a.state /\ b.monitor = a.monitor
          /\ b.bridge \in {"boot", "up"} => a.bridge \in {"boot", "up"}
      BY <1>1 DEF Alloc
    <3> HIDE DEF b
    <3>4. QED
      BY <3>1, <3>2, <3>3
  <2>4. CASE BridgeFails(i)
    <3>0. PICK h \in {a.heavy, "off"} :
            alloc' = [alloc EXCEPT ![i].bridge = "dead", ![i].file = "FAILED",
                                   ![i].heavy = h]
      BY <2>4 DEF BridgeFails
    <3> DEFINE b == [[[a EXCEPT !.bridge = "dead"] EXCEPT !.file = "FAILED"] EXCEPT !.heavy = h]
    <3>1. b \in Alloc
      BY <1>1, <1>2, AllocWith, AllocFields
    <3>2. alloc' = [alloc EXCEPT ![i] = b]
      BY <1>1, <3>0 DEF Alloc
    <3>3. /\ b.state = a.state /\ b.monitor = a.monitor
          /\ b.bridge \in {"boot", "up"} => a.bridge \in {"boot", "up"}
      BY <1>1 DEF Alloc
    <3> HIDE DEF b
    <3>4. QED
      BY <3>1, <3>2, <3>3
  <2>5. CASE FirstReply(i)
    <3> DEFINE b == [a EXCEPT !.file = "READY"]
    <3>1. b \in Alloc
      BY <1>1, <1>2, AllocWith
    <3>2. alloc' = [alloc EXCEPT ![i] = b]
      BY <1>1, <2>5 DEF FirstReply, Alloc
    <3>3. /\ b.state = a.state /\ b.monitor = a.monitor
          /\ b.bridge \in {"boot", "up"} => a.bridge \in {"boot", "up"}
      BY <1>1 DEF Alloc
    <3> HIDE DEF b
    <3>4. QED
      BY <3>1, <3>2, <3>3
  <2>6. QED
    BY <2>1, <2>2, <2>3, <2>4, <2>5 DEF Process
<1>4. UNCHANGED <<room, ownerRoom, op, bridges>>
  BY DEF Process, BridgeBinds, BridgeSpawnsLoader, HeavyReady, BridgeFails, FirstReply
<1>5. QED
  BY <1>3, <1>4, OneAlloc DEF Running

(* A monitor changes the state and the monitor of its own allocation only; *)
(* it stops only over an allocation that is replaced, released or failed.  *)
LEMMA MonitorEffect ==
  ASSUME TypeOK, NEW i \in Inst, Monitor(i)
  PROVE  /\ alloc' \in [Inst -> Alloc]
         /\ \A j \in Inst : j # i => alloc'[j] = alloc[j]
         /\ alloc'[i].bridge = alloc[i].bridge
         /\ alloc[i].monitor # "off"
         /\ \/ /\ alloc'[i].state = alloc[i].state
               /\ alloc'[i].monitor = "off" =>
                    i # Current(i[1]) \/ alloc[i].state = "RELEASED"
            \/ /\ alloc'[i].state = "FAILED"
            \/ /\ alloc'[i].state \in {"STARTING", "AFDEV_READY", "READY"}
               /\ alloc'[i].monitor # "off"
         /\ UNCHANGED <<room, ownerRoom, op, bridges>>
<1> DEFINE a == alloc[i]
<1>1. a \in Alloc /\ alloc \in [Inst -> Alloc]
  BY DEF TypeOK
<1>2. Published = {"SPAWNING", "AFDEV_READY", "READY", "FAILED"}
      /\ {"FAILED", "STARTING", "AFDEV_READY", "READY"} \subseteq AllocState
  BY DEF Published, AllocState
<1>3. CASE MonitorLooks(i)
  <2> DEFINE m == IF i # Current(i[1]) \/ a.state = "RELEASED" THEN "off"
                  ELSE IF a.bridge = "dead" THEN "exited"
                  ELSE IF a.file \in Published THEN a.file ELSE "run"
             b == [a EXCEPT !.monitor = m]
  <2>1. b \in Alloc
    BY <1>1, <1>2, AllocWith
  <2>2. alloc' = [alloc EXCEPT ![i] = b] /\ a.monitor = "run"
    BY <1>1, <1>3 DEF MonitorLooks, Alloc
  <2>3. b.bridge = a.bridge /\ b.state = a.state /\ b.monitor = m
    BY <1>1 DEF Alloc
  <2>4. m = "off" => i # Current(i[1]) \/ a.state = "RELEASED"
    BY <1>2
  <2>5. UNCHANGED <<room, ownerRoom, op, bridges>>
    BY <1>3 DEF MonitorLooks
  <2> HIDE DEF m, b
  <2>6. QED
    BY <2>1, <2>2, <2>3, <2>4, <2>5, OneAlloc
<1>4. CASE MonitorReportsExit(i)
  <2> DEFINE s == IF a.state = "RELEASED" THEN a.state ELSE "FAILED"
             b == [[a EXCEPT !.monitor = "off"] EXCEPT !.state = s]
  <2>1. b \in Alloc
    BY <1>1, <1>2, AllocWith, AllocFields
  <2>2. alloc' = [alloc EXCEPT ![i] = b] /\ a.monitor = "exited"
    BY <1>1, <1>4 DEF MonitorReportsExit, Alloc
  <2>3. b.bridge = a.bridge /\ b.state = s /\ b.monitor = "off"
    BY <1>1 DEF Alloc
  <2>4. UNCHANGED <<room, ownerRoom, op, bridges>>
    BY <1>4 DEF MonitorReportsExit
  <2>5. QED
    BY <2>1, <2>2, <2>3, <2>4, OneAlloc
<1>5. CASE MonitorWrites(i)
  <2> DEFINE s == IF a.monitor = "SPAWNING" THEN "STARTING" ELSE a.monitor
             m == IF a.monitor = "FAILED" THEN "off" ELSE "run"
             b == [[a EXCEPT !.monitor = m] EXCEPT !.state = s]
  <2>1. a.monitor \in Published /\ s \in {"FAILED", "STARTING", "AFDEV_READY", "READY"}
    BY <1>5, <1>2 DEF MonitorWrites
  <2>2. b \in Alloc
    BY <1>1, <1>2, <2>1, AllocWith
  <2>3. alloc' = [alloc EXCEPT ![i] = b]
    BY <1>1, <1>5 DEF MonitorWrites, Alloc
  <2>4. b.bridge = a.bridge /\ b.state = s /\ b.monitor = m
    BY <1>1 DEF Alloc
  <2>5. m = "off" => s = "FAILED"
    BY <1>2
  <2>6. UNCHANGED <<room, ownerRoom, op, bridges>>
    BY <1>5 DEF MonitorWrites
  <2>7. a.monitor # "off"
    BY <2>1, <1>2
  <2>8. alloc'[i] = b /\ alloc' \in [Inst -> Alloc] /\ \A j \in Inst : j # i => alloc'[j] = alloc[j]
    BY <2>2, <2>3, OneAlloc
  <2> HIDE DEF b, s, m
  <2>9. QED
    BY <2>1, <2>4, <2>5, <2>6, <2>7, <2>8
<1>6. QED
  BY <1>3, <1>4, <1>5 DEF Monitor

(* The values a thread record takes: idle, ...                             *)
LEMMA IdleFacts == Idle \in Thread /\ Idle.pc = "idle"
BY DEF Idle, Thread

(* ... about to work on a room, ...                                        *)
LEMMA AtFacts ==
  ASSUME NEW pc \in {"arm", "end", "release", "update"}, NEW r \in RoomId
  PROVE  At(pc, r) \in Thread /\ At(pc, r).pc = pc /\ At(pc, r).room = r
BY DEF Idle, Thread, At

(* ... the same with a continuation, ...                                   *)
LEMMA AtFactsThen ==
  ASSUME NEW pc \in {"arm", "end", "release", "update"}, NEW r \in RoomId,
         NEW t \in {"return", "forget", "update"}
  PROVE  /\ [At(pc, r) EXCEPT !.then = t] \in Thread
         /\ [At(pc, r) EXCEPT !.then = t].pc = pc
         /\ [At(pc, r) EXCEPT !.then = t].room = r
BY DEF Idle, Thread, At

(* ... and working on one allocation.                                      *)
LEMMA OnFacts ==
  ASSUME NEW pc \in {"wait", "stop"}, NEW i \in Inst
  PROVE  On(pc, i) \in Thread /\ On(pc, i).pc = pc /\ On(pc, i).inst = i
BY DEF Idle, Thread, On

(* A step of one thread.                                                   *)
LEMMA OneThread ==
  ASSUME TypeOK, NEW p \in Player, NEW t \in Thread, op' = [op EXCEPT ![p] = t]
  PROVE  /\ op' \in [Player -> Thread] /\ op'[p] = t
         /\ \A q \in Player \ {p} : op'[q] = op[q]
BY DEF TypeOK

-----------------------------------------------------------------------------
(* Requests other than a reservation only touch what a room knows of its   *)
(* players, the owner index, and the thread of the caller, which moves on  *)
(* to a part of the call that starts from a room.                          *)
RequestShape(p) ==
  /\ alloc' = alloc /\ bridges' = bridges
  /\ room' \in [RoomId -> RoomRow]
  /\ \A r \in RoomId : room'[r].cur = room[r].cur
  /\ ownerRoom' \in [Player -> RoomId \cup {0}]
  /\ op' \in [Player -> Thread]
  /\ \A q \in Player \ {p} : op'[q] = op[q]
  /\ op[p].pc \in {"idle", "arm", "end", "release", "update"}
  /\ op'[p].pc \in {"idle", "arm", "end", "release", "update"}
  /\ op'[p].pc # "idle" =>
       op'[p].room \in RoomId /\ State(op'[p].room) # "NONE"
  /\ op'[p].pc = "end" => State(op'[p].room) # "RESERVED"

(* Such a step keeps the parts of IInv about allocations and threads.      *)
LEMMA RequestKeeps ==
  ASSUME IInv, NEW p \in Player, RequestShape(p)
  PROVE  TypeOK' /\ Threads' /\ Rounds' /\ EndedIsStopped' /\ RunningIsWatched'
<1>1. TypeOK'
  BY DEF IInv, TypeOK, RequestShape, RoomRow
<1>2. \A r \in RoomId : Current(r)' = Current(r) /\ State(r)' = State(r)
  BY DEF RequestShape, Current, State
<1>3. \A i \in Inst : Running(i)' = Running(i) /\ LooksLive(i)' = LooksLive(i)
                       /\ Armed(i)' = Armed(i)
  BY DEF RequestShape, Running, LooksLive, Armed
<1>4. \A i \in Inst : Stopping(i) => Stopping(i)'
  BY DEF RequestShape, Stopping
<1>5. \A q \in Player : op[q].pc = "wait" => op'[q] = op[q]
  BY DEF RequestShape
<1>6. \A q \in Player : op'[q].pc = "wait" => op'[q] = op[q]
  BY DEF RequestShape
<1>7. Threads'
  <2>1. \A q \in Player :
           /\ op'[q].room \in RoomId => State(op[q].room)' = State(op'[q].room)
           /\ op'[q].inst \in Inst => State(op[q].inst[1])' = State(op'[q].inst[1])
    BY InstFacts DEF RequestShape, Current, State
  <2> SUFFICES ASSUME NEW q \in Player
               PROVE  /\ AtRoom(q)' => op'[q].room \in RoomId /\ State(op'[q].room) # "NONE"
                      /\ AtInst(q)' => op'[q].inst \in Inst /\ State(op'[q].inst[1]) # "NONE"
                      /\ op'[q].pc = "end" => /\ op'[q].room \in RoomId
                                              /\ State(op'[q].room) # "RESERVED"
    BY <2>1 DEF Threads
  <2>2. CASE q = p
    BY <2>2 DEF RequestShape, AtRoom, AtInst
  <2>3. CASE q # p
    <3>1. op'[q] = op[q]
      BY <2>3 DEF RequestShape
    <3>2. QED
      BY <3>1 DEF IInv, Threads, AtRoom, AtInst
  <2>4. QED
    BY <2>2, <2>3
<1>8. Rounds'
  BY <1>2, <1>3, <1>6 DEF IInv, Rounds, RequestShape
<1>9. EndedIsStopped'
  <2>1. \A i \in Inst : i[1] \in RoomId
    BY InstFacts
  <2>2. QED
    BY <1>3, <1>4, <2>1 DEF IInv, EndedIsStopped, RequestShape
<1>10. RunningIsWatched'
  <2>1. alloc' = alloc
    BY DEF RequestShape
  <2>2. QED
    BY <1>3, <1>4, <1>5, <2>1 DEF IInv, RunningIsWatched
<1>11. QED
  BY <1>1, <1>7, <1>8, <1>9, <1>10

(* A step that changes what one room knows of its players.                 *)
LEMMA OneRow ==
  ASSUME IInv, NEW r \in RoomId, NEW x \in RoomRow, alloc' = alloc,
         room' = [room EXCEPT ![r] = x], x.cur = room[r].cur,
         x.match \subseteq x.players,
         x.players = {} \/ State(r) \notin {"NONE", "RELEASED"}
  PROVE  /\ room' \in [RoomId -> RoomRow]
         /\ \A q \in RoomId : room'[q].cur = room[q].cur
         /\ \A q \in RoomId : State(q)' = State(q)
         /\ MembershipNested'
         /\ x.owner = room[r].owner =>
              \A q \in RoomId : room'[q].owner = room[q].owner
<1>1. room \in [RoomId -> RoomRow]
  BY DEF IInv, TypeOK, RoomRow
<1>2. room' \in [RoomId -> RoomRow] /\ room'[r] = x
      /\ \A q \in RoomId \ {r} : room'[q] = room[q]
  BY <1>1
<1>3. \A q \in RoomId : room'[q].cur = room[q].cur
  BY <1>2
<1>4. \A q \in RoomId : State(q)' = State(q)
  BY <1>3 DEF State, Current
<1>5. MembershipNested'
  BY <1>2, <1>4 DEF IInv, MembershipNested
<1>6. QED
  BY <1>2, <1>3, <1>4, <1>5

(* The owner index stays sound when no owner or entry changes.             *)
LEMMA SameOwners ==
  ASSUME IInv, ownerRoom' = ownerRoom,
         \A q \in RoomId : State(q)' = State(q) /\ room'[q].owner = room[q].owner
  PROVE  OwnerIndexSound'
BY DEF IInv, OwnerIndexSound

(* register_room_player adds a player only to a room that is not released. *)
LEMMA RegisterKeeps ==
  ASSUME IInv, NEW p \in Player, NEW r \in RoomId, RegisterRoomPlayer(p, r)
  PROVE  RequestShape(p) /\ MembershipNested' /\ OwnerIndexSound'
<1> DEFINE x == [room[r] EXCEPT !.players = @ \cup {p}]
<1>1. room[r] \in RoomRow
  BY DEF IInv, TypeOK, RoomRow
<1>2. /\ x \in RoomRow /\ x.cur = room[r].cur /\ x.owner = room[r].owner
      /\ x.match = room[r].match /\ x.players = room[r].players \cup {p}
  BY <1>1 DEF RoomRow
<1>3. /\ op[p].pc = "idle" /\ State(r) \notin {"NONE", "RELEASED"}
      /\ room' = [room EXCEPT ![r] = x]
      /\ UNCHANGED <<alloc, ownerRoom, op, bridges>>
  BY DEF RegisterRoomPlayer
<1>4. x.match \subseteq x.players
  BY <1>2 DEF IInv, MembershipNested
<1> HIDE DEF x
<1>5. /\ room' \in [RoomId -> RoomRow] /\ MembershipNested'
      /\ \A q \in RoomId : /\ room'[q].cur = room[q].cur /\ State(q)' = State(q)
                            /\ room'[q].owner = room[q].owner
  BY <1>2, <1>3, <1>4, OneRow
<1>6. OwnerIndexSound'
  BY <1>3, <1>5, SameOwners
<1>7. RequestShape(p)
  BY <1>3, <1>5 DEF RequestShape, IInv, TypeOK
<1>8. QED
  BY <1>5, <1>6, <1>7

(* begin_match takes only room players into the match.                     *)
LEMMA BeginMatchKeeps ==
  ASSUME IInv, NEW p \in Player, NEW r \in RoomId, BeginMatch(p, r)
  PROVE  RequestShape(p) /\ MembershipNested' /\ OwnerIndexSound'
<1> DEFINE new == State(r) \in {"RESERVED", "ROUND_ENDED"} \/ room[r].match = {}
           m == IF new THEN room[r].players ELSE room[r].match \cup {p}
           x == [room[r] EXCEPT !.match = m]
<1>1. room[r] \in RoomRow
  BY DEF IInv, TypeOK, RoomRow
<1>2. /\ op[p].pc = "idle" /\ p \in room[r].players
      /\ op' = [op EXCEPT ![p] = At("arm", r)]
      /\ UNCHANGED <<alloc, ownerRoom, bridges>>
  BY DEF BeginMatch
<1>3. room' = [room EXCEPT ![r] = x]
  BY <1>1 DEF BeginMatch, RoomRow
<1>4. m \subseteq room[r].players
  BY <1>2 DEF IInv, MembershipNested
<1>5. /\ x \in RoomRow /\ x.cur = room[r].cur /\ x.owner = room[r].owner
      /\ x.match = m /\ x.players = room[r].players
  BY <1>1, <1>4 DEF RoomRow
<1>6. State(r) \notin {"NONE", "RELEASED"}
  BY <1>2 DEF IInv, MembershipNested
<1> HIDE DEF x, m
<1>7. /\ room' \in [RoomId -> RoomRow] /\ MembershipNested'
      /\ \A q \in RoomId : /\ room'[q].cur = room[q].cur /\ State(q)' = State(q)
                            /\ room'[q].owner = room[q].owner
  BY <1>2, <1>3, <1>4, <1>5, <1>6, OneRow
<1>8. OwnerIndexSound'
  BY <1>2, <1>7, SameOwners
<1>9. RequestShape(p)
  <2>1. /\ op' \in [Player -> Thread] /\ op'[p].pc = "arm" /\ op'[p].room = r
        /\ \A q \in Player \ {p} : op'[q] = op[q]
    BY <1>2, AtFacts, OneThread DEF IInv
  <2>2. QED
    BY <1>2, <1>6, <1>7, <2>1 DEF RequestShape, IInv, TypeOK
<1>10. QED
  BY <1>7, <1>8, <1>9

(* mark_player_in_match takes only a room player into the match.           *)
LEMMA MarkKeeps ==
  ASSUME IInv, NEW p \in Player, NEW r \in RoomId, MarkPlayerInMatch(p, r)
  PROVE  RequestShape(p) /\ MembershipNested' /\ OwnerIndexSound'
<1> DEFINE x == [room[r] EXCEPT !.match = @ \cup {p}]
<1>1. room[r] \in RoomRow
  BY DEF IInv, TypeOK, RoomRow
<1>2. /\ x \in RoomRow /\ x.cur = room[r].cur /\ x.owner = room[r].owner
      /\ x.match = room[r].match \cup {p} /\ x.players = room[r].players
  BY <1>1 DEF RoomRow
<1>3. /\ op[p].pc = "idle" /\ p \in room[r].players
      /\ room' = [room EXCEPT ![r] = x]
      /\ UNCHANGED <<alloc, ownerRoom, op, bridges>>
  BY DEF MarkPlayerInMatch
<1>4. x.match \subseteq x.players /\ State(r) \notin {"NONE", "RELEASED"}
  BY <1>2, <1>3 DEF IInv, MembershipNested
<1> HIDE DEF x
<1>5. /\ room' \in [RoomId -> RoomRow] /\ MembershipNested'
      /\ \A q \in RoomId : /\ room'[q].cur = room[q].cur /\ State(q)' = State(q)
                            /\ room'[q].owner = room[q].owner
  BY <1>2, <1>3, <1>4, OneRow
<1>6. OwnerIndexSound'
  BY <1>3, <1>5, SameOwners
<1>7. RequestShape(p)
  BY <1>3, <1>5 DEF RequestShape, IInv, TypeOK
<1>8. QED
  BY <1>5, <1>6, <1>7

(* quit_match_player, whichever way it decides, only shrinks the match.    *)
LEMMA QuitKeeps ==
  ASSUME IInv, NEW p \in Player, NEW r \in RoomId, QuitMatchPlayer(p, r)
  PROVE  RequestShape(p) /\ MembershipNested' /\ OwnerIndexSound'
<1> DEFINE over == /\ room[r].match \subseteq {p}
                   /\ State(r) \notin {"RESERVED", "ROUND_ENDED"}
           m == IF over THEN {} ELSE room[r].match \ {p}
           h == IF over THEN room[r].handed ELSE room[r].handed \ {p}
           t == IF over THEN [At("end", r) EXCEPT !.then = "forget"] ELSE op[p]
           x == [[room[r] EXCEPT !.match = m] EXCEPT !.handed = h]
<1>1. room[r] \in RoomRow /\ op \in [Player -> Thread]
  BY DEF IInv, TypeOK, RoomRow
<1>2. /\ op[p].pc = "idle" /\ p \in room[r].players
      /\ UNCHANGED <<alloc, ownerRoom, bridges>>
  BY DEF QuitMatchPlayer
<1>3. room' = [room EXCEPT ![r] = x] /\ op' = [op EXCEPT ![p] = t]
  BY <1>1 DEF QuitMatchPlayer, RoomRow
<1>4. m \subseteq room[r].players /\ State(r) \notin {"NONE", "RELEASED"}
  BY <1>2 DEF IInv, MembershipNested
<1>5. /\ x \in RoomRow /\ x.cur = room[r].cur /\ x.owner = room[r].owner
      /\ x.match = m /\ x.players = room[r].players
  BY <1>1, <1>4 DEF RoomRow
<1>6. /\ t \in Thread
      /\ t.pc = "end" => t.room = r /\ State(r) # "RESERVED"
      /\ t.pc \in {"idle", "end"}
  <2>1. CASE over
    <3>1. t = [At("end", r) EXCEPT !.then = "forget"]
      BY <2>1
    <3>2. /\ [At("end", r) EXCEPT !.then = "forget"] \in Thread
          /\ [At("end", r) EXCEPT !.then = "forget"].pc = "end"
          /\ [At("end", r) EXCEPT !.then = "forget"].room = r
      BY AtFactsThen
    <3>3. QED
      BY <2>1, <3>1, <3>2
  <2>2. CASE ~over
    BY <1>1, <1>2, <2>2
  <2>3. QED
    BY <2>1, <2>2
<1> HIDE DEF x, m, t
<1>7. /\ room' \in [RoomId -> RoomRow] /\ MembershipNested'
      /\ \A q \in RoomId : /\ room'[q].cur = room[q].cur /\ State(q)' = State(q)
                            /\ room'[q].owner = room[q].owner
  BY <1>2, <1>3, <1>4, <1>5, OneRow
<1>8. OwnerIndexSound'
  BY <1>2, <1>7, SameOwners
<1>9. RequestShape(p)
  <2>1. /\ op' \in [Player -> Thread] /\ op'[p] = t
        /\ \A q \in Player \ {p} : op'[q] = op[q]
    BY <1>3, <1>6, OneThread DEF IInv
  <2>2. QED
    BY <1>2, <1>4, <1>6, <1>7, <2>1 DEF RequestShape, IInv, TypeOK
<1>10. QED
  BY <1>7, <1>8, <1>9

(* min() of a non-empty set of naturals is a member.                       *)
LEMMA LeastOfFacts ==
  ASSUME NEW S \in SUBSET Nat, S # {}
  PROVE  LeastOf(S) \in S
BY LeastNatural DEF LeastOf

(* remove_room_player hands the owner's place, and the index entry, to a   *)
(* player who stays.                                                       *)
LEMMA RemoveKeeps ==
  ASSUME IInv, SpawnerAssumption, NEW p \in Player, NEW r \in RoomId,
         RemoveRoomPlayer(p, r)
  PROVE  RequestShape(p) /\ MembershipNested' /\ OwnerIndexSound'
<1> DEFINE players == room[r].players \ {p}
           m == room[r].match \ {p}
           h == room[r].handed \ {p}
           transfer == room[r].owner = p /\ players # {}
           heir == LeastOf(players)
           o == IF transfer THEN heir ELSE room[r].owner
           x == [[[[room[r] EXCEPT !.players = players] EXCEPT !.match = m]
                     EXCEPT !.handed = h] EXCEPT !.owner = o]
           t == IF players = {} THEN At("release", r)
                ELSE IF m = {} /\ State(r) \notin {"RESERVED", "ROUND_ENDED"}
                THEN At("end", r) ELSE Idle
<1>1. room[r] \in RoomRow /\ op \in [Player -> Thread] /\ room[r].owner \in Player \cup {0}
      /\ ownerRoom \in [Player -> RoomId \cup {0}]
  BY DEF IInv, TypeOK, RoomRow
<1>2. /\ op[p].pc = "idle" /\ p \in room[r].players
      /\ UNCHANGED <<alloc, bridges>>
  BY DEF RemoveRoomPlayer
<1>3. room' = [room EXCEPT ![r] = x] /\ op' = [op EXCEPT ![p] = t]
  <2>1. room' = [room EXCEPT ![r] = x]
    BY <1>1 DEF RemoveRoomPlayer, RoomRow
  <2>2. op' = [op EXCEPT ![p] = t]
    BY DEF RemoveRoomPlayer
  <2>3. QED
    BY <2>1, <2>2
<1>4. ownerRoom' = IF transfer THEN [ownerRoom EXCEPT ![p] = 0, ![heir] = r]
                   ELSE ownerRoom
  BY DEF RemoveRoomPlayer
<1>5. /\ m \subseteq players /\ players \subseteq Player
      /\ State(r) \notin {"NONE", "RELEASED"}
  BY <1>1, <1>2 DEF IInv, MembershipNested, RoomRow
<1>6. transfer => heir \in players
  BY <1>5, LeastOfFacts DEF SpawnerAssumption
<1>7. o \in Player \cup {0}
  BY <1>1, <1>5, <1>6
<1> HIDE DEF o, heir
<1>8. /\ x \in RoomRow /\ x.cur = room[r].cur /\ x.owner = o
      /\ x.match = m /\ x.players = players
  <2> HIDE DEF m, h, players
  <2>1. m \subseteq Player /\ players \subseteq Player /\ h \subseteq Player
    BY <1>1, <1>5 DEF RoomRow, h
  <2>2. QED
    BY <1>1, <1>7, <2>1 DEF RoomRow
<1>9. /\ t \in Thread /\ t.pc \in {"idle", "end", "release"}
      /\ t.pc # "idle" => t.room = r
      /\ t.pc = "end" => State(r) # "RESERVED"
  <2>1. /\ At("release", r) \in Thread /\ At("release", r).pc = "release"
        /\ At("release", r).room = r
        /\ At("end", r) \in Thread /\ At("end", r).pc = "end"
        /\ At("end", r).room = r
    BY AtFacts
  <2>2. QED
    BY <2>1, IdleFacts
<1>10. /\ room' \in [RoomId -> RoomRow] /\ MembershipNested' /\ room'[r].owner = o
       /\ \A q \in RoomId : room'[q].cur = room[q].cur /\ State(q)' = State(q)
       /\ \A q \in RoomId \ {r} : room'[q].owner = room[q].owner
  <2> HIDE DEF x, m, players
  <2>1. /\ room' \in [RoomId -> RoomRow] /\ MembershipNested'
        /\ \A q \in RoomId : room'[q].cur = room[q].cur /\ State(q)' = State(q)
    BY <1>2, <1>3, <1>5, <1>8, OneRow
  <2>2. room'[r].owner = o /\ \A q \in RoomId \ {r} : room'[q].owner = room[q].owner
    BY <1>3, <1>8 DEF IInv, TypeOK
  <2>3. QED
    BY <2>1, <2>2
<1>11. OwnerIndexSound'
  <2> SUFFICES ASSUME NEW q \in Player, NEW s \in RoomId, ownerRoom'[q] = s
               PROVE  room'[s].owner = q /\ State(s) \notin {"NONE", "RELEASED"}
    BY <1>10 DEF OwnerIndexSound
  <2>1. CASE ~transfer
    <3>1. ownerRoom[q] = s /\ o = room[r].owner
      BY <1>4, <2>1 DEF o
    <3>2. QED
      BY <1>10, <3>1 DEF IInv, OwnerIndexSound
  <2>2. CASE transfer
    <3>1. /\ o = heir /\ heir \in Player /\ heir # p /\ room[r].owner = p
          /\ ownerRoom' = [ownerRoom EXCEPT ![p] = 0, ![heir] = r]
      BY <1>4, <1>5, <1>6, <2>2 DEF o
    <3>2. CASE q = heir
      <4>1. s = r
        BY <1>1, <3>1, <3>2
      <4>2. QED
        BY <1>5, <1>10, <3>1, <3>2, <4>1
    <3>3. CASE q = p
      <4>1. ownerRoom'[q] = 0
        BY <1>1, <3>1, <3>3
      <4>2. QED
        BY <4>1 DEF RoomId
    <3>4. CASE q # heir /\ q # p
      <4>1. ownerRoom[q] = s
        BY <1>1, <3>1, <3>4
      <4>2. room[s].owner = q /\ State(s) \notin {"NONE", "RELEASED"}
        BY <4>1 DEF IInv, OwnerIndexSound
      <4>3. s # r
        BY <3>1, <3>4, <4>2
      <4>4. QED
        BY <1>10, <4>2, <4>3
    <3>5. QED
      BY <3>2, <3>3, <3>4
  <2>3. QED
    BY <2>1, <2>2
<1>12. RequestShape(p)
  <2>1. /\ op' \in [Player -> Thread] /\ op'[p] = t
        /\ \A q \in Player \ {p} : op'[q] = op[q]
    BY <1>3, <1>9, OneThread DEF IInv
  <2>2. ownerRoom' \in [Player -> RoomId \cup {0}]
    BY <1>1, <1>4, <1>5, <1>6
  <2> HIDE DEF t
  <2>3. QED
    BY <1>2, <1>5, <1>9, <1>10, <2>1, <2>2 DEF RequestShape
<1>13. QED
  BY <1>10, <1>11, <1>12

(* prepare_lobby_settings_update only moves its thread on.                 *)
LEMMA PrepareKeeps ==
  ASSUME IInv, NEW p \in Player, NEW r \in RoomId, PrepareSettingsUpdate(p, r)
  PROVE  RequestShape(p) /\ MembershipNested' /\ OwnerIndexSound'
<1>1. /\ op[p].pc = "idle" /\ p \in room[r].players
      /\ UNCHANGED <<alloc, room, ownerRoom, bridges>>
  BY DEF PrepareSettingsUpdate
<1>2. \E t \in Thread : /\ op' = [op EXCEPT ![p] = t] /\ t.room = r
                        /\ t.pc \in {"update", "end"}
                        /\ t.pc = "end" => State(r) # "RESERVED"
  <2>1. CASE op' = [op EXCEPT ![p] = At("update", r)]
    <3>1. At("update", r) \in Thread /\ At("update", r).pc = "update"
          /\ At("update", r).room = r
      BY AtFacts
    <3>2. QED
      BY <2>1, <3>1
  <2>2. CASE /\ op' = [op EXCEPT ![p] = [At("end", r) EXCEPT !.then = "update"]]
             /\ State(r) # "RESERVED"
    <3>1. /\ [At("end", r) EXCEPT !.then = "update"] \in Thread
          /\ [At("end", r) EXCEPT !.then = "update"].pc = "end"
          /\ [At("end", r) EXCEPT !.then = "update"].room = r
      BY AtFactsThen
    <3>2. QED
      BY <2>2, <3>1
  <2>3. QED
    BY <2>1, <2>2 DEF PrepareSettingsUpdate
<1>3. State(r) \notin {"NONE", "RELEASED"}
  BY <1>1 DEF IInv, MembershipNested
<1>4. \A q \in RoomId : State(q)' = State(q) /\ room'[q] = room[q]
  BY <1>1 DEF State, Current
<1>5. RequestShape(p)
  <2>1. PICK t \in Thread : /\ op' = [op EXCEPT ![p] = t] /\ t.room = r
                            /\ t.pc \in {"update", "end"}
                            /\ t.pc = "end" => State(r) # "RESERVED"
    BY <1>2
  <2>2. /\ op' \in [Player -> Thread] /\ op'[p] = t
        /\ \A q \in Player \ {p} : op'[q] = op[q]
    BY <2>1, OneThread DEF IInv
  <2>3. QED
    BY <1>1, <1>3, <2>1, <2>2 DEF RequestShape, IInv, TypeOK, RoomRow
<1>6. MembershipNested' /\ OwnerIndexSound'
  BY <1>1, <1>4, SameOwners DEF IInv, MembershipNested
<1>7. QED
  BY <1>5, <1>6

(* update_lobby_settings only clears the requester's handed flag.          *)
LEMMA UpdateKeeps ==
  ASSUME IInv, NEW p \in Player, UpdateLobbySettings(p)
  PROVE  RequestShape(p) /\ MembershipNested' /\ OwnerIndexSound'
<1> DEFINE r == op[p].room
           h == IF State(r) \in {"RESERVED", "ROUND_ENDED"}
                THEN room[r].handed \ {p} ELSE room[r].handed
           x == [room[r] EXCEPT !.handed = h]
<1>1. /\ op[p].pc = "update" /\ op' = [op EXCEPT ![p] = Idle]
      /\ UNCHANGED <<alloc, ownerRoom, bridges>>
  BY DEF UpdateLobbySettings
<1>2. r \in RoomId
  BY <1>1 DEF IInv, Threads, AtRoom
<1>3. room[r] \in RoomRow /\ room \in [RoomId -> RoomRow]
  BY <1>2 DEF IInv, TypeOK, RoomRow
<1>4. room' = [room EXCEPT ![r] = x]
  BY <1>3 DEF UpdateLobbySettings, RoomRow
<1>5. /\ x \in RoomRow /\ x.cur = room[r].cur /\ x.owner = room[r].owner
      /\ x.match = room[r].match /\ x.players = room[r].players
  <2>1. h \subseteq Player
    BY <1>3 DEF RoomRow
  <2> HIDE DEF h
  <2>2. QED
    BY <1>3, <2>1 DEF RoomRow
<1>6. /\ x.match \subseteq x.players
      /\ x.players = {} \/ State(r) \notin {"NONE", "RELEASED"}
  BY <1>2, <1>5 DEF IInv, MembershipNested
<1> HIDE DEF x, r
<1>7. /\ room' \in [RoomId -> RoomRow] /\ MembershipNested'
      /\ \A q \in RoomId : /\ room'[q].cur = room[q].cur /\ State(q)' = State(q)
                            /\ room'[q].owner = room[q].owner
  BY <1>1, <1>2, <1>4, <1>5, <1>6, OneRow
<1>8. OwnerIndexSound'
  BY <1>1, <1>7, SameOwners
<1>9. /\ op' \in [Player -> Thread] /\ op'[p].pc = "idle"
      /\ \A q \in Player \ {p} : op'[q] = op[q]
  BY <1>1, IdleFacts, OneThread DEF IInv
<1>10. RequestShape(p)
  BY <1>1, <1>7, <1>9 DEF RequestShape, IInv, TypeOK
<1>11. QED
  BY <1>7, <1>8, <1>10

-----------------------------------------------------------------------------
(* What a thread does to one allocation i while it is inside a call: it    *)
(* neither reserves nor arms it, and if it leaves the bridge running it    *)
(* leaves it to a monitor or to a teardown.                                *)
WorkShape(p, i) ==
  /\ alloc' \in [Inst -> Alloc]
  /\ \A j \in Inst \ {i} : alloc'[j] = alloc[j]
  /\ alloc'[i].state = alloc[i].state \/ alloc'[i].state \notin {"NONE", "RESERVED"}
  /\ Armed(i)' => Armed(i) \/ i[2] < bridges
  /\ bridges' = bridges
  /\ room' \in [RoomId -> RoomRow]
  /\ \A r \in RoomId : room'[r].cur = room[r].cur
  /\ ownerRoom' \in [Player -> RoomId \cup {0}]
  /\ op' \in [Player -> Thread]
  /\ \A q \in Player \ {p} : op'[q] = op[q]
  /\ op[p].pc \in {"wait", "stop", "kill"} => op[p].inst = i
  /\ \/ op'[p].pc = "idle"
     \/ /\ op'[p].pc = "update"
        /\ op'[p].room \in RoomId /\ State(op'[p].room) # "NONE"
     \/ /\ op'[p].pc \in {"stop", "kill", "clear"}
        /\ op'[p].inst = i /\ State(i[1]) # "NONE"
  /\ Running(i)' => \/ Stopping(i)'
                    \/ /\ Running(i) /\ ~Stopping(i)
                       /\ alloc'[i].state # "ROUND_ENDED"
                       /\ LooksLive(i)' => alloc'[i].monitor # "off"

(* Such a step keeps the parts of IInv about allocations and threads.      *)
LEMMA WorkKeeps ==
  ASSUME IInv, NEW p \in Player, NEW i \in Inst, WorkShape(p, i)
  PROVE  TypeOK' /\ Threads' /\ Rounds' /\ EndedIsStopped' /\ RunningIsWatched'
<1>1. i[1] \in RoomId /\ \A j \in Inst : j[1] \in RoomId
  BY InstFacts
<1>2. TypeOK'
  BY DEF IInv, TypeOK, WorkShape, RoomRow
<1>3. \A r \in RoomId : /\ Current(r)' = Current(r)
                        /\ State(r)' = State(r) \/ State(r)' \notin {"NONE", "RESERVED"}
  <2>1. \A r \in RoomId : Current(r)' = Current(r) /\ Current(r) \in Inst
    BY CurrentFacts DEF WorkShape, Current, IInv
  <2>2. \A j \in Inst : \/ alloc'[j].state = alloc[j].state
                        \/ alloc'[j].state \notin {"NONE", "RESERVED"}
    BY DEF WorkShape
  <2>3. QED
    BY <2>1, <2>2 DEF State
<1>4. \A j \in Inst \ {i} : /\ Running(j)' = Running(j) /\ LooksLive(j)' = LooksLive(j)
                             /\ Armed(j)' = Armed(j)
  BY DEF WorkShape, Running, LooksLive, Armed
<1>5. \A j \in Inst \ {i} : Stopping(j) => Stopping(j)'
  BY DEF WorkShape, Stopping
<1>6. \A q \in Player : q # p => op'[q] = op[q]
  BY DEF WorkShape
<1>7. Threads'
  <2>1. \A q \in Player :
           /\ op'[q].room \in RoomId =>
                /\ State(op'[q].room) # "NONE" => State(op[q].room)' # "NONE"
                /\ State(op'[q].room) \notin {"NONE", "RESERVED"} =>
                     State(op[q].room)' # "RESERVED"
           /\ op'[q].inst[1] \in RoomId =>
                (State(op'[q].inst[1]) # "NONE" => State(op[q].inst[1])' # "NONE")
    <3>1. \A q \in Player, r \in RoomId :
             /\ op'[q].room = r => State(op[q].room)' = State(r)'
             /\ op'[q].inst[1] = r => State(op[q].inst[1])' = State(r)'
      BY DEF State, Current
    <3>2. QED
      BY <1>3, <3>1
  <2> SUFFICES ASSUME NEW q \in Player
               PROVE  /\ AtRoom(q)' => op'[q].room \in RoomId /\ State(op'[q].room) # "NONE"
                      /\ AtInst(q)' => op'[q].inst \in Inst /\ State(op'[q].inst[1]) # "NONE"
                      /\ op'[q].pc = "end" => /\ op'[q].room \in RoomId
                                              /\ State(op'[q].room) \notin {"NONE", "RESERVED"}
    BY <1>1, <2>1 DEF Threads
  <2>2. CASE q = p
    BY <2>2 DEF WorkShape, AtRoom, AtInst
  <2>3. CASE q # p
    <3>1. op'[q] = op[q]
      BY <2>3 DEF WorkShape
    <3>2. QED
      BY <3>1 DEF IInv, Threads, AtRoom, AtInst
  <2>4. QED
    BY <2>2, <2>3
<1>8. Rounds'
  <2>1. \A r \in RoomId : State(r)' \in {"NONE", "RESERVED"} => room'[r].cur = 0
    BY <1>3 DEF WorkShape, IInv, Rounds
  <2>2. \A j \in Inst : Armed(j)' => j[2] < bridges'
    BY <1>4 DEF WorkShape, IInv, Rounds
  <2>3. \A q \in Player : op'[q].pc = "wait" => op'[q].inst[2] < bridges'
    BY <1>6 DEF WorkShape, IInv, Rounds
  <2>4. QED
    BY <2>1, <2>2, <2>3 DEF Rounds
<1>9. EndedIsStopped'
  <2>1. \A j \in Inst \ {i} : alloc'[j] = alloc[j] /\ room'[j[1]].cur = room[j[1]].cur
    BY <1>1 DEF WorkShape
  <2>2. \A j \in Inst \ {i} :
           Running(j)' /\ (j[2] # room'[j[1]].cur \/ alloc'[j].state = "ROUND_ENDED") => Stopping(j)'
    BY <1>4, <1>5, <2>1 DEF IInv, EndedIsStopped
  <2>3. Running(i)' /\ (i[2] # room'[i[1]].cur \/ alloc'[i].state = "ROUND_ENDED") => Stopping(i)'
    <3>1. room'[i[1]].cur = room[i[1]].cur
      BY <1>1 DEF WorkShape
    <3>2. Running(i) /\ ~Stopping(i) => i[2] = room[i[1]].cur
      BY DEF IInv, EndedIsStopped
    <3>3. QED
      BY <3>1, <3>2 DEF WorkShape
  <2>4. QED
    BY <2>2, <2>3 DEF EndedIsStopped
<1>10. RunningIsWatched'
  <2>1. ASSUME NEW j \in Inst \ {i}, Running(j)', LooksLive(j)'
        PROVE  \/ alloc'[j].monitor # "off"
               \/ \E q \in Player : op'[q].inst = j /\ op'[q].pc = "wait"
               \/ Stopping(j)'
    <3>1. \/ alloc[j].monitor # "off"
          \/ \E q \in Player : op[q].inst = j /\ op[q].pc = "wait"
          \/ Stopping(j)
      BY <1>4, <2>1 DEF IInv, RunningIsWatched
    <3>2. alloc'[j] = alloc[j]
      BY DEF WorkShape
    <3>3. \A q \in Player : op[q].inst = j /\ op[q].pc = "wait" => op'[q] = op[q]
      BY DEF WorkShape
    <3>4. QED
      BY <1>5, <3>1, <3>2, <3>3
  <2>2. Running(i)' /\ LooksLive(i)' => alloc'[i].monitor # "off" \/ Stopping(i)'
    BY DEF WorkShape
  <2>3. QED
    BY <2>1, <2>2 DEF RunningIsWatched
<1>11. QED
  BY <1>2, <1>7, <1>8, <1>9, <1>10

-----------------------------------------------------------------------------
(* Steps of processes and monitors: what they may do to an allocation.     *)
Background(j) ==
  /\ \/ alloc'[j].state = alloc[j].state
     \/ /\ alloc'[j].state \in {"FAILED", "STARTING", "AFDEV_READY", "READY"}
        /\ Armed(j)
  /\ Running(j)' => Running(j)
  /\ alloc'[j].monitor # "off" => alloc[j].monitor # "off"
  /\ LooksLive(j)' => \/ alloc'[j].monitor # "off"
                      \/ LooksLive(j) /\ alloc[j].monitor = "off"
                      \/ j # Current(j[1])

(* Such a step keeps IInv.                                                 *)
LEMMA BackgroundKeeps ==
  ASSUME IInv, alloc' \in [Inst -> Alloc],
         UNCHANGED <<room, ownerRoom, op, bridges>>,
         \A j \in Inst : Background(j)
  PROVE  IInv'
<1>1. \A j \in Inst : j[1] \in RoomId
  BY InstFacts
<1>2. TypeOK'
  BY DEF IInv, TypeOK
<1>3. \A r \in RoomId : /\ Current(r)' = Current(r) /\ Current(r) \in Inst
                        /\ Current(r) = <<r, room[r].cur>>
                        /\ Current(r)[1] = r /\ Current(r)[2] = room[r].cur
  BY CurrentFacts DEF Current, IInv
<1>4. \A r \in RoomId : \/ State(r)' = State(r)
                        \/ State(r)' \in {"FAILED", "STARTING", "AFDEV_READY", "READY"}
  <2>1. \A r \in RoomId : /\ State(r) = alloc[Current(r)].state
                          /\ State(r)' = alloc'[Current(r)].state
    BY <1>3 DEF State
  <2>2. QED
    BY <1>3, <2>1 DEF Background
<1>5. Threads'
  <2>1. \A q \in Player : /\ AtRoom(q)' = AtRoom(q) /\ AtInst(q)' = AtInst(q) /\ op'[q] = op[q]
    BY DEF AtRoom, AtInst
  <2>2. \A q \in Player, r \in RoomId :
           /\ op[q].room = r => State(op[q].room)' = State(r)'
           /\ op[q].inst[1] = r => State(op[q].inst[1])' = State(r)'
    BY DEF State, Current
  <2>3. QED
    BY <1>1, <1>4, <2>1, <2>2 DEF IInv, Threads, AtRoom
<1>6. Rounds'
  <2>1. \A j \in Inst : Armed(j)' => Armed(j)
    BY DEF Armed, Background
  <2>2. QED
    BY <1>4, <2>1 DEF IInv, Rounds
<1>7. MembershipNested' /\ OwnerIndexSound'
  BY <1>4 DEF IInv, MembershipNested, OwnerIndexSound
<1>8. EndedIsStopped'
  <2>1. \A j \in Inst : Stopping(j)' = Stopping(j)
    BY DEF Stopping
  <2>2. QED
    BY <2>1 DEF IInv, EndedIsStopped, Background
<1>9. RunningIsWatched'
  <2>1. \A j \in Inst : Stopping(j)' = Stopping(j)
    BY DEF Stopping
  <2>2. \A j \in Inst : j # Current(j[1]) => j[2] # room[j[1]].cur
    BY InstFacts DEF Current
  <2>3. SUFFICES ASSUME NEW j \in Inst, Running(j)', LooksLive(j)', alloc'[j].monitor = "off"
                 PROVE  \/ \E q \in Player : op[q].inst = j /\ op[q].pc = "wait"
                        \/ Stopping(j)
    BY <2>1 DEF RunningIsWatched
  <2>4. CASE LooksLive(j) /\ alloc[j].monitor = "off"
    BY <2>3, <2>4 DEF IInv, RunningIsWatched, Background
  <2>5. CASE j # Current(j[1])
    BY <2>2, <2>3, <2>5 DEF IInv, EndedIsStopped, Background
  <2>6. QED
    BY <2>3, <2>4, <2>5 DEF Background
<1>10. QED
  BY <1>2, <1>5, <1>6, <1>7, <1>8, <1>9 DEF IInv

(* The processes keep IInv ...                                             *)
LEMMA ProcessKeeps ==
  ASSUME IInv, NEW i \in Inst, Process(i)
  PROVE  IInv'
<1>1. TypeOK
  BY DEF IInv
<1>2. /\ alloc' \in [Inst -> Alloc]
      /\ \A j \in Inst : /\ alloc'[j].state = alloc[j].state
                         /\ alloc'[j].monitor = alloc[j].monitor
                         /\ alloc'[j].bridge \in {"boot", "up"} => Running(j)
      /\ UNCHANGED <<room, ownerRoom, op, bridges>>
  BY <1>1, ProcessEffect
<1>3. QED
  <2>1. \A j \in Inst : Background(j)
    BY <1>2 DEF Background, Running, LooksLive
  <2>2. QED
    BY <1>2, <2>1, BackgroundKeeps

(* ... and so do the monitors.                                             *)
LEMMA MonitorKeeps ==
  ASSUME IInv, NEW i \in Inst, Monitor(i)
  PROVE  IInv'
<1>1. TypeOK
  BY DEF IInv
<1> DEFINE Effect ==
     \/ /\ alloc'[i].state = alloc[i].state
        /\ alloc'[i].monitor = "off" =>
             i # Current(i[1]) \/ alloc[i].state = "RELEASED"
     \/ alloc'[i].state = "FAILED"
     \/ /\ alloc'[i].state \in {"STARTING", "AFDEV_READY", "READY"}
        /\ alloc'[i].monitor # "off"
<1>2. /\ alloc' \in [Inst -> Alloc]
      /\ \A j \in Inst : j # i => alloc'[j] = alloc[j]
      /\ alloc'[i].bridge = alloc[i].bridge
      /\ alloc[i].monitor # "off"
      /\ UNCHANGED <<room, ownerRoom, op, bridges>>
  BY <1>1, MonitorEffect
<1>3. Effect
  BY <1>1, MonitorEffect
<1>4. \A j \in Inst : Running(j)' => Running(j)
  BY <1>2 DEF Running
<1>5. \A j \in Inst :
         LooksLive(j)' => \/ alloc'[j].monitor # "off"
                          \/ LooksLive(j) /\ alloc[j].monitor = "off"
                          \/ j # Current(j[1])
  BY <1>2, <1>3 DEF LooksLive
<1>6. \A j \in Inst : \/ alloc'[j].state = alloc[j].state
                      \/ /\ alloc'[j].state \in {"FAILED", "STARTING", "AFDEV_READY", "READY"}
                         /\ Armed(j)
  BY <1>2, <1>3 DEF Armed
<1>7. \A j \in Inst : alloc'[j].monitor # "off" => alloc[j].monitor # "off"
  BY <1>2
<1>8. QED
  <2>1. \A j \in Inst : Background(j)
    <3> SUFFICES ASSUME NEW j \in Inst PROVE Background(j)
      OBVIOUS
    <3>1. /\ Running(j)' => Running(j)
          /\ alloc'[j].monitor # "off" => alloc[j].monitor # "off"
      BY <1>4, <1>7
    <3>2. LooksLive(j)' => \/ alloc'[j].monitor # "off"
                           \/ LooksLive(j) /\ alloc[j].monitor = "off"
                           \/ j # Current(j[1])
      BY <1>5
    <3>3. QED
      BY <1>6, <3>1, <3>2 DEF Background
  <2>2. QED
    BY <1>2, <2>1, BackgroundKeeps

-----------------------------------------------------------------------------
(* The steps of a thread inside a call.                                    *)
SameMembers ==
  \A r \in RoomId : /\ room'[r].cur = room[r].cur
                    /\ room'[r].owner = room[r].owner
                    /\ room'[r].players = room[r].players
                    /\ room'[r].match = room[r].match

(* Changing who has been handed the endpoint changes no membership; ...    *)
LEMMA HandedFacts ==
  ASSUME IInv, NEW r \in RoomId, NEW h \in SUBSET Player,
         room' = [room EXCEPT ![r].handed = h]
  PROVE  room' \in [RoomId -> RoomRow] /\ SameMembers
<1>1. room \in [RoomId -> RoomRow] /\ room[r] \in RoomRow
  BY DEF IInv, TypeOK, RoomRow
<1>2. [room[r] EXCEPT !.handed = h] \in RoomRow
  BY <1>1 DEF RoomRow
<1>3. room' = [room EXCEPT ![r] = [room[r] EXCEPT !.handed = h]]
  BY <1>1
<1>4. room' \in [RoomId -> RoomRow]
  BY <1>1, <1>2, <1>3
<1>5. SameMembers
  BY <1>1, <1>3 DEF SameMembers, RoomRow
<1>6. QED
  BY <1>4, <1>5

(* ... handing it to the whole room does not either, ...                   *)
LEMMA HandedOutFacts ==
  ASSUME IInv, NEW r \in RoomId, room' = HandedOut(r)
  PROVE  room' \in [RoomId -> RoomRow] /\ SameMembers
<1>1. room[r] \in RoomRow
  BY DEF IInv, TypeOK, RoomRow
<1>2. room[r].handed \cup room[r].players \in SUBSET Player
  BY <1>1 DEF RoomRow
<1>3. room' = [room EXCEPT ![r].handed = room[r].handed \cup room[r].players]
  BY DEF HandedOut
<1>4. QED
  BY <1>2, <1>3, HandedFacts

(* ... nor does doing nothing.                                             *)
LEMMA UnchangedRoomFacts ==
  ASSUME IInv, room' = room
  PROVE  room' \in [RoomId -> RoomRow] /\ SameMembers
BY DEF IInv, TypeOK, RoomRow, SameMembers

(* The end of an end_round call changes no membership and leaves its       *)
(* thread idle or on its way to a settings update.                         *)
LEMMA EndRoundDoneFacts ==
  ASSUME IInv, NEW p \in Player, NEW r \in RoomId, EndRoundDone(p, r)
  PROVE  /\ room' \in [RoomId -> RoomRow] /\ SameMembers
         /\ op' \in [Player -> Thread]
         /\ \A q \in Player \ {p} : op'[q] = op[q]
         /\ \/ op'[p].pc = "idle"
            \/ op'[p].pc = "update" /\ op'[p].room = r
<1>1. room' \in [RoomId -> RoomRow] /\ SameMembers
  <2>1. CASE room' = room
    BY <2>1, UnchangedRoomFacts
  <2>2. CASE room' = [room EXCEPT ![r].handed = @ \ {p}]
    <3>1. room[r] \in RoomRow
      BY DEF IInv, TypeOK, RoomRow
    <3>2. room[r].handed \ {p} \in SUBSET Player
      BY <3>1 DEF RoomRow
    <3>3. room' = [room EXCEPT ![r].handed = room[r].handed \ {p}]
      BY <2>2
    <3>4. QED
      BY <3>2, <3>3, HandedFacts
  <2>3. QED
    BY <2>1, <2>2 DEF EndRoundDone
<1>2. CASE op' = [op EXCEPT ![p] = Idle]
  <2>1. /\ op' \in [Player -> Thread] /\ op'[p] = Idle
        /\ \A q \in Player \ {p} : op'[q] = op[q]
    BY <1>2, IdleFacts, OneThread DEF IInv
  <2>2. QED
    BY <1>1, <2>1, IdleFacts
<1>3. CASE op' = [op EXCEPT ![p] = At("update", r)]
  <2>1. /\ At("update", r) \in Thread /\ At("update", r).pc = "update"
        /\ At("update", r).room = r
    BY AtFacts
  <2>2. /\ op' \in [Player -> Thread] /\ op'[p] = At("update", r)
        /\ \A q \in Player \ {p} : op'[q] = op[q]
    BY <1>3, <2>1, OneThread DEF IInv
  <2>3. QED
    BY <1>1, <2>1, <2>2
<1>4. QED
  BY <1>2, <1>3 DEF EndRoundDone

(* A step inside a call that changes no player and releases nothing keeps  *)
(* the memberships and the owner index.                                    *)
LEMMA WorkMembers ==
  ASSUME IInv, NEW p \in Player, NEW i \in Inst, WorkShape(p, i),
         \/ alloc'[i].state = alloc[i].state
         \/ alloc'[i].state \notin {"NONE", "RELEASED"},
         \A r \in RoomId : /\ room'[r].owner = room[r].owner
                           /\ room'[r].players = room[r].players
                           /\ room'[r].match \subseteq room[r].match,
         ownerRoom' = ownerRoom
  PROVE  MembershipNested' /\ OwnerIndexSound'
<1>1. \A r \in RoomId : Current(r)' = Current(r) /\ Current(r) \in Inst
  BY CurrentFacts DEF WorkShape, Current, IInv
<1>2. \A r \in RoomId : State(r)' = State(r) \/ State(r)' \notin {"NONE", "RELEASED"}
  BY <1>1 DEF State, WorkShape
<1>3. MembershipNested'
  BY <1>2 DEF IInv, MembershipNested
<1>4. OwnerIndexSound'
  BY <1>2 DEF IInv, OwnerIndexSound
<1>5. QED
  BY <1>3, <1>4

(* The allocation a thread works on.                                       *)
LEMMA OwnInst ==
  ASSUME IInv, NEW p \in Player, op[p].pc \in {"wait", "stop", "kill", "clear"}
  PROVE  /\ op[p].inst \in Inst /\ op[p].inst[1] \in RoomId
         /\ State(op[p].inst[1]) # "NONE"
         /\ op[p].pc = "wait" => op[p].inst[2] < bridges
         /\ alloc[op[p].inst] \in Alloc
BY InstFacts DEF IInv, Threads, Rounds, AtInst, TypeOK

(* The room a thread works on.                                             *)
LEMMA OwnRoom ==
  ASSUME IInv, NEW p \in Player, op[p].pc \in {"arm", "end", "release", "update"}
  PROVE  /\ op[p].room \in RoomId /\ State(op[p].room) # "NONE"
         /\ op[p].pc = "end" => State(op[p].room) # "RESERVED"
         /\ Current(op[p].room) \in Inst /\ alloc[Current(op[p].room)] \in Alloc
         /\ Current(op[p].room) = <<op[p].room, room[op[p].room].cur>>
         /\ Current(op[p].room)[1] = op[p].room
         /\ Current(op[p].room)[2] = room[op[p].room].cur
BY CurrentFacts DEF IInv, Threads, AtRoom, TypeOK

(* arm_lobby's wait ends over a dead bridge: FAILED.                       *)
LEMMA ArmSeesExitKeeps ==
  ASSUME IInv, NEW p \in Player, ArmSeesExit(p)
  PROVE  IInv'
<1>1. op[p].pc = "wait"
  BY DEF ArmSeesExit
<1>2. PICK i \in Inst : /\ i = op[p].inst
                       /\ i[1] \in RoomId /\ State(i[1]) # "NONE"
                       /\ i[2] < bridges /\ alloc[i] \in Alloc
  BY <1>1, OwnInst
<1> DEFINE b == [alloc[i] EXCEPT !.state = "FAILED"]
<1>3. /\ op[p].pc = "wait" /\ alloc[i].bridge = "dead"
      /\ op' = [op EXCEPT ![p] = Idle]
      /\ UNCHANGED <<room, ownerRoom, bridges>>
  BY <1>2 DEF ArmSeesExit
<1>4. b \in Alloc /\ b.state = "FAILED" /\ b.bridge = "dead"
  <2>1. "FAILED" \in AllocState
    BY DEF AllocState
  <2>2. b \in Alloc
    BY <1>2, <2>1, AllocWith
  <2>3. QED
    BY <1>3, <1>2, <2>2 DEF Alloc
<1>5. alloc' = [alloc EXCEPT ![i] = b]
  BY <1>2 DEF ArmSeesExit
<1> HIDE DEF b
<1>6. /\ alloc' \in [Inst -> Alloc] /\ alloc'[i] = b
      /\ \A j \in Inst : j # i => alloc'[j] = alloc[j]
  BY <1>2, <1>4, <1>5, OneAlloc DEF IInv
<1>7. /\ op' \in [Player -> Thread] /\ op'[p].pc = "idle"
      /\ \A q \in Player \ {p} : op'[q] = op[q]
  BY <1>3, IdleFacts, OneThread DEF IInv
<1>8. room' \in [RoomId -> RoomRow] /\ SameMembers
  BY <1>3, UnchangedRoomFacts
<1>9. ~Running(i)'
  BY <1>4, <1>6 DEF Running
<1>10. WorkShape(p, i)
  BY <1>3, <1>2, <1>4, <1>6, <1>7, <1>8, <1>9
     DEF WorkShape, SameMembers, IInv, TypeOK
<1>11. MembershipNested' /\ OwnerIndexSound'
  BY <1>3, <1>2, <1>4, <1>6, <1>8, <1>10, WorkMembers DEF SameMembers
<1>12. QED
  BY <1>2, <1>10, <1>11, WorkKeeps DEF IInv

(* arm_lobby's wait ends with LISTENING: from now on a monitor watches.    *)
LEMMA ArmSeesListeningKeeps ==
  ASSUME IInv, NEW p \in Player, ArmSeesListening(p)
  PROVE  IInv'
<1>1. op[p].pc = "wait"
  BY DEF ArmSeesListening
<1>2. PICK i \in Inst : /\ i = op[p].inst
                       /\ i[1] \in RoomId /\ State(i[1]) # "NONE"
                       /\ i[2] < bridges /\ alloc[i] \in Alloc
  BY <1>1, OwnInst
<1> DEFINE m == IF alloc[i].monitor = "off" THEN "run" ELSE alloc[i].monitor
           b == [alloc[i] EXCEPT !.monitor = m]
<1>3. /\ op[p].pc = "wait" /\ op' = [op EXCEPT ![p] = Idle]
      /\ room' = HandedOut(i[1])
      /\ UNCHANGED <<ownerRoom, bridges>>
  BY <1>2 DEF ArmSeesListening
<1>4. /\ b \in Alloc /\ b.monitor # "off"
      /\ b.state = alloc[i].state /\ b.bridge = alloc[i].bridge
  <2>1. m \in {"off", "run", "exited"} \cup Published /\ m # "off"
    BY <1>2, AllocFields
  <2> HIDE DEF m
  <2>2. b \in Alloc
    BY <1>2, <2>1, AllocWith
  <2>3. QED
    BY <1>2, <2>1, <2>2 DEF Alloc
<1>5. alloc' = [alloc EXCEPT ![i] = b]
  BY <1>2 DEF ArmSeesListening, Alloc
<1> HIDE DEF b
<1>6. /\ alloc' \in [Inst -> Alloc] /\ alloc'[i] = b
      /\ \A j \in Inst : j # i => alloc'[j] = alloc[j]
  BY <1>2, <1>4, <1>5, OneAlloc DEF IInv
<1>7. /\ op' \in [Player -> Thread] /\ op'[p].pc = "idle"
      /\ \A q \in Player \ {p} : op'[q] = op[q]
  BY <1>3, IdleFacts, OneThread DEF IInv
<1>8. room' \in [RoomId -> RoomRow] /\ SameMembers
  BY <1>3, <1>2, HandedOutFacts
<1>9. Running(i)' = Running(i)
  BY <1>4, <1>6 DEF Running
<1>10. Stopping(i) => Stopping(i)'
  BY <1>3, <1>7 DEF Stopping
<1>11. Running(i)' => \/ Stopping(i)'
                      \/ /\ Running(i) /\ ~Stopping(i)
                         /\ alloc'[i].state # "ROUND_ENDED"
                         /\ alloc'[i].monitor # "off"
  BY <1>2, <1>4, <1>6, <1>9, <1>10 DEF IInv, EndedIsStopped
<1>12. WorkShape(p, i)
  <2>1. ownerRoom' \in [Player -> RoomId \cup {0}] /\ bridges' = bridges
    BY <1>3 DEF IInv, TypeOK
  <2>2. \A r \in RoomId : room'[r].cur = room[r].cur
    BY <1>8 DEF SameMembers
  <2>3. alloc'[i].state = alloc[i].state /\ \A j \in Inst \ {i} : alloc'[j] = alloc[j]
    BY <1>4, <1>6
  <2>4. op[p].pc = "wait" /\ op[p].inst = i /\ i[2] < bridges
    BY <1>3, <1>2
  <2>5. QED
    BY <2>1, <2>2, <2>3, <2>4, <1>6, <1>7, <1>8, <1>11 DEF WorkShape
<1>13. MembershipNested' /\ OwnerIndexSound'
  BY <1>3, <1>2, <1>4, <1>6, <1>8, <1>12, WorkMembers DEF SameMembers
<1>14. QED
  BY <1>2, <1>12, <1>13, WorkKeeps DEF IInv

(* A step of a thread that leaves a running bridge only to a teardown.     *)
LEMMA WorkOf ==
  ASSUME IInv, NEW p \in Player, NEW i \in Inst,
         alloc' \in [Inst -> Alloc],
         \A j \in Inst \ {i} : alloc'[j] = alloc[j], bridges' = bridges,
         room' \in [RoomId -> RoomRow],
         \A r \in RoomId : room'[r].cur = room[r].cur,
         ownerRoom' \in [Player -> RoomId \cup {0}],
         op' \in [Player -> Thread], \A q \in Player \ {p} : op'[q] = op[q],
         op[p].pc \in {"wait", "stop", "kill"} => op[p].inst = i,
         \/ op'[p].pc = "idle"
         \/ /\ op'[p].pc = "update"
            /\ op'[p].room \in RoomId /\ State(op'[p].room) # "NONE"
         \/ /\ op'[p].pc \in {"stop", "kill", "clear"}
            /\ op'[p].inst = i /\ State(i[1]) # "NONE",
         alloc'[i].state = alloc[i].state \/ alloc'[i].state \notin {"NONE", "RESERVED"},
         alloc'[i].monitor = alloc[i].monitor,
         \/ alloc'[i].state = alloc[i].state \/ alloc'[i].state = "RELEASED"
         \/ i[2] < bridges \/ Armed(i),
         alloc'[i].bridge \in {"boot", "up"} =>
            op'[p].inst = i /\ op'[p].pc \in {"stop", "kill"}
  PROVE  WorkShape(p, i)
<1>1. Running(i)' => Stopping(i)'
  BY DEF Running, Stopping
<1>2. Armed(i)' => Armed(i) \/ i[2] < bridges
  BY DEF Armed
<1>3. QED
  BY <1>1, <1>2 DEF WorkShape

(* arm_lobby's wait runs out: FAILED, and this thread stops the bridge.    *)
LEMMA ArmTimesOutKeeps ==
  ASSUME IInv, NEW p \in Player, ArmTimesOut(p)
  PROVE  IInv'
<1>1. op[p].pc = "wait"
  BY DEF ArmTimesOut
<1>2. PICK i \in Inst : /\ i = op[p].inst
                       /\ i[1] \in RoomId /\ State(i[1]) # "NONE"
                       /\ i[2] < bridges /\ alloc[i] \in Alloc
  BY <1>1, OwnInst
<1> DEFINE b == [alloc[i] EXCEPT !.state = "FAILED"]
<1>3. /\ op' = [op EXCEPT ![p] = On("stop", i)]
      /\ alloc' = [alloc EXCEPT ![i] = b]
      /\ UNCHANGED <<room, ownerRoom, bridges>>
  BY <1>2 DEF ArmTimesOut
<1>4. b \in Alloc /\ b.state = "FAILED" /\ b.monitor = alloc[i].monitor
  <2>1. "FAILED" \in AllocState
    BY DEF AllocState
  <2>2. b \in Alloc
    BY <1>2, <2>1, AllocWith
  <2>3. QED
    BY <1>2, <2>2 DEF Alloc
<1> HIDE DEF b
<1>5. /\ On("stop", i) \in Thread /\ On("stop", i).pc = "stop" /\ On("stop", i).inst = i
  BY OnFacts
<1>6. /\ op' \in [Player -> Thread] /\ op'[p] = On("stop", i)
      /\ \A q \in Player \ {p} : op'[q] = op[q]
  BY <1>3, <1>5, OneThread DEF IInv
<1>7. room' \in [RoomId -> RoomRow] /\ SameMembers
  BY <1>3, UnchangedRoomFacts
<1>8. ownerRoom' \in [Player -> RoomId \cup {0}] /\ \A r \in RoomId : room'[r].cur = room[r].cur
  BY <1>3 DEF IInv, TypeOK
<1>9. op'[p].inst = i /\ op'[p].pc = "stop"
  BY <1>5, <1>6
<1>10. /\ alloc' \in [Inst -> Alloc] /\ alloc'[i] = b
      /\ \A j \in Inst : j # i => alloc'[j] = alloc[j]
  BY <1>3, <1>4, OneAlloc DEF IInv
<1>11. WorkShape(p, i)
  BY <1>1, <1>3, <1>2, <1>4, <1>6, <1>7, <1>8, <1>9, <1>10, WorkOf
<1>12. MembershipNested' /\ OwnerIndexSound'
  BY <1>3, <1>4, <1>10, <1>11, WorkMembers
<1>13. QED
  BY <1>11, <1>12, WorkKeeps DEF IInv

(* The three steps of a teardown keep the state of the allocation.         *)
LEMMA StopReadsPidsKeeps ==
  ASSUME IInv, NEW p \in Player, StopReadsPids(p)
  PROVE  IInv'
<1>1. op[p].pc = "stop"
  BY DEF StopReadsPids
<1>2. PICK i \in Inst : /\ i = op[p].inst
                       /\ i[1] \in RoomId /\ State(i[1]) # "NONE"
                       /\ alloc[i] \in Alloc
  BY <1>1, OwnInst
<1> DEFINE s == alloc[i].heavy # "off"
           t == [op[p] EXCEPT !.pc = "kill", !.seen = s]
<1>3. /\ op' = [op EXCEPT ![p] = t]
      /\ UNCHANGED <<alloc, room, ownerRoom, bridges>>
  BY <1>2 DEF StopReadsPids, IInv, TypeOK
<1>4. /\ t \in Thread /\ t.pc = "kill" /\ t.inst = i
  <2>1. op[p] \in Thread
    BY DEF IInv, TypeOK
  <2>2. QED
    BY <1>2, <2>1 DEF Thread
<1> HIDE DEF t
<1>5. /\ op' \in [Player -> Thread] /\ op'[p] = t
      /\ \A q \in Player \ {p} : op'[q] = op[q]
  BY <1>3, <1>4, OneThread DEF IInv
<1>6. room' \in [RoomId -> RoomRow] /\ SameMembers
  BY <1>3, UnchangedRoomFacts
<1>7. ownerRoom' \in [Player -> RoomId \cup {0}] /\ \A r \in RoomId : room'[r].cur = room[r].cur
  BY <1>3 DEF IInv, TypeOK
<1>8. alloc' \in [Inst -> Alloc] /\ alloc' = alloc
  BY <1>3 DEF IInv, TypeOK
<1>9. op'[p].inst = i /\ op'[p].pc = "kill"
  BY <1>4, <1>5
<1>10. WorkShape(p, i)
  BY <1>1, <1>3, <1>2, <1>5, <1>6, <1>7, <1>8, <1>9, WorkOf
<1>11. MembershipNested' /\ OwnerIndexSound'
  BY <1>3, <1>10, WorkMembers
<1>12. QED
  BY <1>10, <1>11, WorkKeeps DEF IInv

(* The kill leaves no bridge running ...                                   *)
LEMMA StopKillsKeeps ==
  ASSUME IInv, NEW p \in Player, StopKills(p)
  PROVE  IInv'
<1>1. op[p].pc = "kill"
  BY DEF StopKills
<1>2. PICK i \in Inst : /\ i = op[p].inst
                       /\ i[1] \in RoomId /\ State(i[1]) # "NONE"
                       /\ alloc[i] \in Alloc
  BY <1>1, OwnInst
<1> DEFINE h == IF op[p].seen THEN "off" ELSE alloc[i].heavy
           g == IF alloc[i].bridge \in {"boot", "up"} THEN "dead" ELSE alloc[i].bridge
           b == [[alloc[i] EXCEPT !.heavy = h] EXCEPT !.bridge = g]
           t == [op[p] EXCEPT !.pc = "clear", !.seen = FALSE]
<1>3. /\ op' = [op EXCEPT ![p] = t]
      /\ UNCHANGED <<room, ownerRoom, bridges>>
  BY <1>2 DEF StopKills, IInv, TypeOK
<1>4. alloc' = [alloc EXCEPT ![i] = b]
  BY <1>2 DEF StopKills, IInv, TypeOK, Alloc
<1>5. /\ t \in Thread /\ t.pc = "clear" /\ t.inst = i
  <2>1. op[p] \in Thread
    BY DEF IInv, TypeOK
  <2>2. QED
    BY <1>2, <2>1 DEF Thread
<1>6. /\ b \in Alloc /\ b.state = alloc[i].state /\ b.monitor = alloc[i].monitor
      /\ b.bridge \notin {"boot", "up"}
  <2>1. h \in {"off", "boot", "ready"} /\ g \in {"off", "boot", "up", "dead"}
        /\ g \notin {"boot", "up"}
    BY <1>2, AllocFields
  <2> HIDE DEF h, g
  <2>2. b \in Alloc
    BY <1>2, <2>1, AllocWith
  <2>3. QED
    BY <1>2, <2>1, <2>2 DEF Alloc
<1> HIDE DEF b, t
<1>7. /\ op' \in [Player -> Thread] /\ op'[p] = t
      /\ \A q \in Player \ {p} : op'[q] = op[q]
  BY <1>3, <1>5, OneThread DEF IInv
<1>8. room' \in [RoomId -> RoomRow] /\ SameMembers
  BY <1>3, UnchangedRoomFacts
<1>9. ownerRoom' \in [Player -> RoomId \cup {0}] /\ \A r \in RoomId : room'[r].cur = room[r].cur
  BY <1>3 DEF IInv, TypeOK
<1>10. op'[p].inst = i /\ op'[p].pc = "clear"
  BY <1>5, <1>7
<1>11. /\ alloc' \in [Inst -> Alloc] /\ alloc'[i] = b
      /\ \A j \in Inst : j # i => alloc'[j] = alloc[j]
  BY <1>4, <1>6, OneAlloc DEF IInv
<1>12. WorkShape(p, i)
  BY <1>1, <1>3, <1>2, <1>11, <1>6, <1>7, <1>8, <1>9, <1>10, WorkOf
<1>13. MembershipNested' /\ OwnerIndexSound'
  BY <1>3, <1>6, <1>11, <1>12, WorkMembers
<1>14. QED
  BY <1>12, <1>13, WorkKeeps DEF IInv

(* ... and neither does forgetting it.                                     *)
LEMMA StopClearsKeeps ==
  ASSUME IInv, NEW p \in Player, StopClears(p)
  PROVE  IInv'
<1>1. op[p].pc = "clear"
  BY DEF StopClears
<1>2. PICK i \in Inst : /\ i = op[p].inst
                       /\ i[1] \in RoomId /\ State(i[1]) # "NONE"
                       /\ alloc[i] \in Alloc
  BY <1>1, OwnInst
<1> DEFINE g == alloc[i].stray \/ Running(i)
           b == [[alloc[i] EXCEPT !.bridge = "off"] EXCEPT !.stray = g]
<1>3. /\ EndRoundDone(p, i[1])
      /\ UNCHANGED <<ownerRoom, bridges>>
  BY <1>2 DEF StopClears
<1>4. alloc' = [alloc EXCEPT ![i] = b]
  BY <1>2 DEF StopClears, IInv, TypeOK, Alloc
<1>5. /\ b \in Alloc /\ b.state = alloc[i].state /\ b.monitor = alloc[i].monitor
      /\ b.bridge \notin {"boot", "up"}
  <2>1. g \in BOOLEAN /\ "off" \in {"off", "boot", "up", "dead"}
    BY <1>2, AllocFields DEF Running
  <2> HIDE DEF g
  <2>2. b \in Alloc
    BY <1>2, <2>1, AllocWith
  <2>3. QED
    BY <1>2, <2>1, <2>2 DEF Alloc
<1> HIDE DEF b
<1>6. /\ room' \in [RoomId -> RoomRow] /\ SameMembers
      /\ op' \in [Player -> Thread]
      /\ \A q \in Player \ {p} : op'[q] = op[q]
      /\ \/ op'[p].pc = "idle"
         \/ op'[p].pc = "update" /\ op'[p].room = i[1]
  BY <1>3, <1>2, EndRoundDoneFacts
<1>7. \/ op'[p].pc = "idle"
      \/ /\ op'[p].pc = "update"
         /\ op'[p].room \in RoomId /\ State(op'[p].room) # "NONE"
  <2>1. \A x : x = i[1] => State(x) = State(i[1])
    BY DEF State, Current
  <2>2. op'[p].room = i[1] => op'[p].room \in RoomId /\ State(op'[p].room) # "NONE"
    BY <1>2, <2>1
  <2>3. QED
    BY <1>6, <2>2
<1>8. ownerRoom' \in [Player -> RoomId \cup {0}] /\ bridges' = bridges
  BY <1>3 DEF IInv, TypeOK
<1>9. \A r \in RoomId : room'[r].cur = room[r].cur
  BY <1>6 DEF SameMembers
<1>10. /\ alloc' \in [Inst -> Alloc] /\ alloc'[i] = b
      /\ \A j \in Inst : j # i => alloc'[j] = alloc[j]
  BY <1>4, <1>5, OneAlloc DEF IInv
<1>11. WorkShape(p, i)
  <2>1. /\ op[p].pc \in {"wait", "stop", "kill"} => op[p].inst = i
        /\ b.bridge \in {"boot", "up"} => op'[p].inst = i /\ op'[p].pc \in {"stop", "kill"}
        /\ b.state = alloc[i].state \/ b.state \notin {"NONE", "RESERVED"}
        /\ \/ b.state = alloc[i].state \/ b.state = "RELEASED"
           \/ i[2] < bridges \/ Armed(i)
    BY <1>1, <1>5
  <2>2. \/ op'[p].pc = "idle"
        \/ /\ op'[p].pc = "update"
           /\ op'[p].room \in RoomId /\ State(op'[p].room) # "NONE"
        \/ /\ op'[p].pc \in {"stop", "kill", "clear"}
           /\ op'[p].inst = i /\ State(i[1]) # "NONE"
    BY <1>7
  <2>3. QED
    BY <1>10, <1>5, <1>6, <1>8, <1>9, <2>1, <2>2, WorkOf
<1>12. MembershipNested' /\ OwnerIndexSound'
  <2>1. \A r \in RoomId : /\ room'[r].owner = room[r].owner
                          /\ room'[r].players = room[r].players
                          /\ room'[r].match \subseteq room[r].match
    BY <1>6 DEF SameMembers
  <2>2. QED
    BY <1>3, <1>5, <1>10, <1>11, <2>1, WorkMembers
<1>13. QED
  BY <1>11, <1>12, WorkKeeps DEF IInv

(* A request that changes no membership keeps the two room invariants.     *)
LEMMA RequestMembers ==
  ASSUME IInv, NEW p \in Player, RequestShape(p), SameMembers, ownerRoom' = ownerRoom
  PROVE  MembershipNested' /\ OwnerIndexSound'
<1>1. \A r \in RoomId : State(r)' = State(r)
  BY DEF RequestShape, State, Current
<1>2. QED
  BY <1>1 DEF SameMembers, IInv, MembershipNested, OwnerIndexSound

(* end_round: the thread that writes ROUND_ENDED is the one that stops the *)
(* bridge.                                                                 *)
LEMMA EndRoundKeeps ==
  ASSUME IInv, NEW p \in Player, EndRound(p)
  PROVE  IInv'
<1>1. op[p].pc = "end" /\ UNCHANGED <<ownerRoom, bridges>>
  BY DEF EndRound
<1>2. PICK r \in RoomId : /\ r = op[p].room
                         /\ State(r) \notin {"NONE", "RESERVED"}
                         /\ Current(r) \in Inst /\ Current(r)[1] = r
                         /\ alloc[Current(r)] \in Alloc
  BY <1>1, OwnRoom
<1>3. CASE State(r) \in {"RELEASED", "ROUND_ENDED"}
  <2>1. EndRoundDone(p, r) /\ alloc' = alloc
    BY <1>2, <1>3 DEF EndRound
  <2>2. /\ room' \in [RoomId -> RoomRow] /\ SameMembers
        /\ op' \in [Player -> Thread]
        /\ \A q \in Player \ {p} : op'[q] = op[q]
        /\ \/ op'[p].pc = "idle"
           \/ op'[p].pc = "update" /\ op'[p].room = r
    BY <2>1, EndRoundDoneFacts
  <2>3. op'[p].pc # "idle" => op'[p].room \in RoomId /\ State(op'[p].room) # "NONE"
    <3>1. \A x : x = r => State(x) = State(r)
      BY DEF State, Current
    <3>2. QED
      BY <1>2, <2>2, <3>1
  <2>4. ownerRoom' \in [Player -> RoomId \cup {0}]
    BY <1>1 DEF IInv, TypeOK
  <2>5. \A q \in RoomId : room'[q].cur = room[q].cur
    BY <2>2 DEF SameMembers
  <2>6. RequestShape(p)
    BY <1>1, <2>1, <2>2, <2>3, <2>4, <2>5 DEF RequestShape
  <2>7. MembershipNested' /\ OwnerIndexSound'
    BY <1>1, <2>2, <2>6, RequestMembers
  <2>8. QED
    BY <2>6, <2>7, RequestKeeps DEF IInv
<1>4. CASE State(r) \notin {"RELEASED", "ROUND_ENDED"}
  <2>1. PICK i \in Inst : i = Current(r) /\ alloc[i] \in Alloc /\ i[1] = r
    BY <1>2
  <2>2. alloc[i].state = State(r)
    BY <2>1 DEF State
  <2>3. PICK h \in {"return", "forget", "update"} : h = op[p].then
    BY DEF IInv, TypeOK, Thread
  <2> DEFINE b == [alloc[i] EXCEPT !.state = "ROUND_ENDED"]
             x == [room[r] EXCEPT !.match = {}]
             t == [On("stop", i) EXCEPT !.then = h]
  <2>4. /\ alloc' = [alloc EXCEPT ![i] = b]
        /\ op' = [op EXCEPT ![p] = t]
        /\ room' = [room EXCEPT ![r].match = {}]
    BY <1>2, <1>4, <2>1, <2>3 DEF EndRound
  <2>5. b \in Alloc /\ b.state = "ROUND_ENDED" /\ b.monitor = alloc[i].monitor
    <3>1. "ROUND_ENDED" \in AllocState
      BY DEF AllocState
    <3>2. b \in Alloc
      BY <2>1, <3>1, AllocWith
    <3>3. QED
      BY <2>1, <3>2 DEF Alloc
  <2>6. t \in Thread /\ t.pc = "stop" /\ t.inst = i
    BY <2>3 DEF On, Idle, Thread
  <2>7. /\ room' \in [RoomId -> RoomRow]
        /\ \A q \in RoomId : /\ room'[q].cur = room[q].cur
                             /\ room'[q].owner = room[q].owner
                             /\ room'[q].players = room[q].players
                             /\ room'[q].match \subseteq room[q].match
    <3>1. room \in [RoomId -> RoomRow] /\ room[r] \in RoomRow
      BY DEF IInv, TypeOK, RoomRow
    <3>2. /\ x \in RoomRow /\ x.cur = room[r].cur /\ x.owner = room[r].owner
          /\ x.players = room[r].players /\ x.match = {}
      BY <3>1 DEF RoomRow
    <3>3. room' = [room EXCEPT ![r] = x]
      BY <2>4, <3>1
    <3> HIDE DEF x
    <3>4. room' \in [RoomId -> RoomRow] /\ room'[r] = x
          /\ \A q \in RoomId \ {r} : room'[q] = room[q]
      BY <3>1, <3>2, <3>3
    <3>5. QED
      BY <3>2, <3>4
  <2> HIDE DEF b, x, t
  <2>8. /\ alloc' \in [Inst -> Alloc] /\ alloc'[i] = b
        /\ \A j \in Inst : j # i => alloc'[j] = alloc[j]
    BY <2>4, <2>5, OneAlloc DEF IInv
  <2>9. /\ op' \in [Player -> Thread] /\ op'[p] = t
        /\ \A q \in Player \ {p} : op'[q] = op[q]
    BY <2>4, <2>6, OneThread DEF IInv
  <2>10. Armed(i)
    BY <1>2, <1>4, <2>2 DEF Armed
  <2>11. ownerRoom' \in [Player -> RoomId \cup {0}] /\ bridges' = bridges
    BY <1>1 DEF IInv, TypeOK
  <2>12. op'[p].inst = i /\ op'[p].pc = "stop" /\ State(i[1]) # "NONE"
    BY <1>2, <2>1, <2>6, <2>9
  <2>13. WorkShape(p, i)
    BY <1>1, <2>5, <2>7, <2>8, <2>9, <2>10, <2>11, <2>12, WorkOf
  <2>14. MembershipNested' /\ OwnerIndexSound'
    BY <1>1, <2>5, <2>7, <2>8, <2>13, WorkMembers
  <2>15. QED
    BY <2>13, <2>14, WorkKeeps DEF IInv
<1>5. QED
  BY <1>3, <1>4

(* release_lobby empties the room, clears its owner's index entry and      *)
(* stops the bridge.                                                       *)
LEMMA ReleaseLobbyKeeps ==
  ASSUME IInv, NEW p \in Player, ReleaseLobby(p)
  PROVE  IInv'
<1>1. op[p].pc = "release" /\ bridges' = bridges
  BY DEF ReleaseLobby
<1>2. PICK r \in RoomId : /\ r = op[p].room
                         /\ State(r) # "NONE"
                         /\ Current(r) \in Inst /\ Current(r)[1] = r
                         /\ alloc[Current(r)] \in Alloc
  BY <1>1, OwnRoom
<1>3. CASE State(r) = "RELEASED"
  <2>1. UNCHANGED <<alloc, room, ownerRoom>> /\ op' = [op EXCEPT ![p] = Idle]
    BY <1>2, <1>3 DEF ReleaseLobby
  <2>2. /\ op' \in [Player -> Thread] /\ op'[p].pc = "idle"
        /\ \A q \in Player \ {p} : op'[q] = op[q]
    BY <2>1, IdleFacts, OneThread DEF IInv
  <2>3. room' \in [RoomId -> RoomRow] /\ SameMembers
    BY <2>1, UnchangedRoomFacts
  <2>4. RequestShape(p)
    BY <1>1, <2>1, <2>2, <2>3 DEF RequestShape, IInv, TypeOK
  <2>5. MembershipNested' /\ OwnerIndexSound'
    BY <2>1, <2>3, <2>4, RequestMembers
  <2>6. QED
    BY <2>4, <2>5, RequestKeeps DEF IInv
<1>4. CASE State(r) # "RELEASED"
  <2>1. PICK i \in Inst : i = Current(r) /\ alloc[i] \in Alloc /\ i[1] = r
    BY <1>2
  <2> DEFINE b == [alloc[i] EXCEPT !.state = "RELEASED"]
             x == [[room[r] EXCEPT !.players = {}] EXCEPT !.match = {}]
  <2>2. room \in [RoomId -> RoomRow] /\ room[r] \in RoomRow
    BY DEF IInv, TypeOK, RoomRow
  <2>3. /\ alloc' = [alloc EXCEPT ![i] = b]
        /\ op' = [op EXCEPT ![p] = On("stop", i)]
        /\ ownerRoom' = [ownerRoom EXCEPT ![room[r].owner] = 0]
    BY <1>2, <1>4, <2>1 DEF ReleaseLobby
  <2>4. room' = [room EXCEPT ![r] = x]
    BY <1>2, <1>4, <2>2 DEF ReleaseLobby, RoomRow
  <2>5. b \in Alloc /\ b.state = "RELEASED" /\ b.monitor = alloc[i].monitor
    <3>1. "RELEASED" \in AllocState
      BY DEF AllocState
    <3>2. b \in Alloc
      BY <2>1, <3>1, AllocWith
    <3>3. QED
      BY <2>1, <3>2 DEF Alloc
  <2>6. /\ x \in RoomRow /\ x.cur = room[r].cur /\ x.owner = room[r].owner
        /\ x.players = {} /\ x.match = {}
    BY <2>2 DEF RoomRow
  <2> HIDE DEF b, x
  <2>7. room' \in [RoomId -> RoomRow] /\ room'[r] = x
        /\ \A q \in RoomId \ {r} : room'[q] = room[q]
    BY <2>2, <2>4, <2>6
  <2>8. /\ On("stop", i) \in Thread /\ On("stop", i).pc = "stop"
        /\ On("stop", i).inst = i
    BY OnFacts
  <2>9. /\ op' \in [Player -> Thread] /\ op'[p] = On("stop", i)
        /\ \A q \in Player \ {p} : op'[q] = op[q]
    BY <2>3, <2>8, OneThread DEF IInv
  <2>10. /\ alloc' \in [Inst -> Alloc] /\ alloc'[i] = b
         /\ \A j \in Inst : j # i => alloc'[j] = alloc[j]
    BY <2>3, <2>5, OneAlloc DEF IInv
  <2>11. /\ ownerRoom' \in [Player -> RoomId \cup {0}]
         /\ \A q \in Player : ownerRoom'[q] =
              IF q = room[r].owner THEN 0 ELSE ownerRoom[q]
    BY <2>3 DEF IInv, TypeOK
  <2>12. \A q \in RoomId : /\ room'[q].cur = room[q].cur
                           /\ room'[q].owner = room[q].owner
    BY <2>6, <2>7
  <2>13. op'[p].inst = i /\ op'[p].pc = "stop" /\ State(i[1]) # "NONE"
    BY <1>2, <2>1, <2>8, <2>9
  <2>14. WorkShape(p, i)
    BY <1>1, <2>5, <2>7, <2>9, <2>10, <2>11, <2>12, <2>13, WorkOf
  <2>15. \A q \in RoomId \ {r} : State(q)' = State(q)
    <3>1. \A q \in RoomId \ {r} : Current(q)' = Current(q) /\ Current(q) \in Inst
                                  /\ Current(q)[1] = q
      BY <2>12, CurrentFacts DEF Current, IInv
    <3>2. QED
      BY <2>1, <2>10, <3>1 DEF State
  <2>16. MembershipNested'
    BY <2>6, <2>7, <2>15 DEF IInv, MembershipNested
  <2>17. OwnerIndexSound'
    <3>1. ASSUME NEW q \in Player, NEW o \in RoomId, ownerRoom'[q] = o
          PROVE  /\ room'[o].owner = q
                 /\ State(o)' \notin {"NONE", "RELEASED"}
      <4>1. q # room[r].owner /\ ownerRoom[q] = o
        BY <2>11, <3>1 DEF RoomId
      <4>2. room[o].owner = q /\ State(o) \notin {"NONE", "RELEASED"}
        BY <4>1 DEF IInv, OwnerIndexSound
      <4>3. QED
        BY <2>12, <2>15, <4>1, <4>2
    <3>2. QED
      BY <3>1 DEF OwnerIndexSound
  <2>18. QED
    BY <2>14, <2>16, <2>17, WorkKeeps DEF IInv
<1>5. QED
  BY <1>3, <1>4

(* The rounds of a room: a next one is there while the bound allows it.    *)
LEMMA ArmInst ==
  ASSUME IInv, NEW r \in RoomId, State(r) # "NONE", ~ArmRefused(r),
         bridges # MaxBridge
  PROVE  /\ room[r].cur <= bridges
         /\ State(r) = "ROUND_ENDED" =>
              /\ room[r].cur < bridges
              /\ NextRound(r) \in Inst
<1>1. MaxBridge \in Nat \ {0} /\ bridges \in 0 .. MaxBridge /\ room[r].cur \in Round
  BY SpawnerAssumption DEF IInv, TypeOK
<1>2. /\ Current(r) \in Inst /\ Current(r)[2] = room[r].cur
      /\ alloc[Current(r)].state = State(r)
  BY CurrentFacts DEF IInv, State
<1>3. CASE State(r) = "RESERVED"
  BY <1>1, <1>3 DEF IInv, Rounds, Round
<1>4. CASE State(r) # "RESERVED"
  <2>1. Armed(Current(r))
    BY <1>2, <1>4 DEF Armed, ArmRefused
  <2>2. room[r].cur < bridges
    BY <1>2, <2>1 DEF IInv, Rounds
  <2>3. room[r].cur + 1 \in Round
    BY <1>1, <2>2 DEF Round
  <2>4. QED
    BY <1>1, <2>2, <2>3 DEF NextRound, Inst, Round
<1>5. QED
  BY <1>3, <1>4

(* A bridge is started on instance i, which is then current in room r.     *)
ArmShape(p, r, i) ==
  /\ alloc' \in [Inst -> Alloc]
  /\ \A j \in Inst \ {i} : alloc'[j] = alloc[j]
  /\ alloc'[i].state = "ARMED"
  /\ bridges' = bridges + 1 /\ bridges' \in 0 .. MaxBridge
  /\ i[1] = r /\ i[2] <= bridges
  /\ room' \in [RoomId -> RoomRow]
  /\ room'[r].cur = i[2]
  /\ \/ i = Current(r)
     \/ State(r) = "ROUND_ENDED"
  /\ \A q \in RoomId : /\ q # r => room'[q].cur = room[q].cur
                       /\ room'[q].owner = room[q].owner
                       /\ room'[q].players = room[q].players
                       /\ room'[q].match = room[q].match
  /\ ownerRoom' \in [Player -> RoomId \cup {0}]
  /\ \A q \in Player : \/ ownerRoom'[q] = ownerRoom[q]
                       \/ ownerRoom'[q] = r /\ room[r].owner = q
  /\ op' \in [Player -> Thread]
  /\ \A q \in Player \ {p} : op'[q] = op[q]
  /\ op[p].pc = "arm"
  /\ op'[p].pc = "wait" /\ op'[p].inst = i

(* Such a step keeps IInv: the bridge is awaited by its starter, and a     *)
(* bridge the re-arm leaves behind was being stopped already.              *)
LEMMA ArmKeeps ==
  ASSUME IInv, NEW p \in Player, NEW r \in RoomId, NEW i \in Inst,
         ArmShape(p, r, i)
  PROVE  IInv'
<1>1. \A j \in Inst : j[1] \in RoomId
  BY InstFacts
<1>2. TypeOK'
  BY DEF TypeOK, ArmShape, RoomRow
<1>3. State(r)' = "ARMED" /\ \A q \in RoomId \ {r} : State(q)' = State(q)
  <2>1. room' [r].cur = i[2] /\ i = <<r, i[2]>>
    BY InstFacts DEF ArmShape
  <2>2. \A q \in RoomId : /\ Current(q)' = <<q, room'[q].cur>>
                          /\ Current(q) \in Inst /\ Current(q)[1] = q
    BY CurrentFacts DEF Current, IInv
  <2>3. Current(r)' = i
    BY <2>1, <2>2
  <2>4. \A q \in RoomId \ {r} : Current(q)' = Current(q) /\ Current(q) # i
    BY <2>2 DEF Current, ArmShape
  <2>5. QED
    BY <2>2, <2>3, <2>4 DEF State, ArmShape
<1>4. \A j \in Inst \ {i} : /\ Running(j)' = Running(j) /\ LooksLive(j)' = LooksLive(j)
                             /\ Armed(j)' = Armed(j) /\ alloc'[j] = alloc[j]
  BY DEF ArmShape, Running, LooksLive, Armed
<1>5. \A j \in Inst : Stopping(j) => Stopping(j)'
  BY DEF ArmShape, Stopping
<1>6. Threads'
  <2>1. \A q \in Player, o \in RoomId :
           /\ op'[q].room = o => State(op[q].room)' = State(o)'
           /\ op'[q].inst[1] = o => State(op[q].inst[1])' = State(o)'
    BY DEF State, Current
  <2>2. \A o \in RoomId : /\ State(o) # "NONE" => State(o)' # "NONE"
                          /\ State(o) # "RESERVED" => State(o)' # "RESERVED"
    BY <1>3
  <2>3. ASSUME NEW q \in Player, q # p
        PROVE  /\ AtRoom(q)' => op'[q].room \in RoomId /\ State(op[q].room)' # "NONE"
               /\ AtInst(q)' => op'[q].inst \in Inst /\ State(op[q].inst[1])' # "NONE"
               /\ op'[q].pc = "end" => State(op[q].room)' # "RESERVED"
    <3>1. op'[q] = op[q]
      BY <2>3 DEF ArmShape
    <3>2. /\ AtRoom(q) => op[q].room \in RoomId /\ State(op[q].room) # "NONE"
          /\ AtInst(q) => op[q].inst \in Inst /\ State(op[q].inst[1]) # "NONE"
          /\ op[q].pc = "end" => AtRoom(q) /\ State(op[q].room) # "RESERVED"
      BY DEF IInv, Threads, AtRoom
    <3>3. AtRoom(q)' = AtRoom(q) /\ AtInst(q)' = AtInst(q)
      BY <3>1 DEF AtRoom, AtInst
    <3>4. QED
      BY <1>1, <2>1, <2>2, <3>1, <3>2, <3>3
  <2>4. /\ ~AtRoom(p)' /\ op'[p].pc # "end"
        /\ op'[p].inst \in Inst /\ State(op[p].inst[1])' # "NONE"
    <3>1. op'[p].inst = i /\ i[1] = r /\ op'[p].pc = "wait"
      BY DEF ArmShape
    <3>2. op'[p].inst[1] = r
      BY <3>1
    <3>3. State(op[p].inst[1])' = State(r)'
      BY <2>1, <3>2
    <3>4. QED
      BY <1>3, <3>1, <3>3 DEF AtRoom
  <2>5. QED
    BY <2>3, <2>4 DEF Threads
<1>7. Rounds'
  <2>1. bridges \in Nat /\ i[2] \in Nat /\ \A j \in Inst : j[2] \in Nat
    BY InstFacts, SpawnerAssumption DEF IInv, TypeOK, Round
  <2>2. \A q \in RoomId : State(q)' \in {"NONE", "RESERVED"} => room'[q].cur = 0
    BY <1>3 DEF ArmShape, IInv, Rounds
  <2>3. \A j \in Inst : Armed(j)' => j[2] < bridges'
    BY <1>4, <2>1 DEF ArmShape, IInv, Rounds
  <2>4. ASSUME NEW q \in Player, op'[q].pc = "wait" PROVE op'[q].inst[2] < bridges'
    <3>1. CASE q = p
      BY <2>1, <3>1 DEF ArmShape
    <3>2. CASE q # p
      <4>1. op'[q] = op[q] /\ op[q].inst \in Inst /\ op[q].inst[2] < bridges
        BY <2>4, <3>2 DEF ArmShape, IInv, Rounds, Threads, AtInst
      <4>2. QED
        BY <2>1, <4>1 DEF ArmShape
    <3>3. QED
      BY <3>1, <3>2
  <2>5. QED
    BY <2>2, <2>3, <2>4 DEF Rounds
<1>8. MembershipNested'
  BY <1>3 DEF ArmShape, IInv, MembershipNested
<1>9. OwnerIndexSound'
  BY <1>3 DEF ArmShape, IInv, OwnerIndexSound
<1>10. EndedIsStopped'
  <2>1. ASSUME NEW j \in Inst, j # i, Running(j)',
               j[2] # room'[j[1]].cur \/ alloc'[j].state = "ROUND_ENDED"
        PROVE  Stopping(j)'
    <3>1. Running(j) /\ alloc'[j] = alloc[j]
      BY <1>4, <2>1
    <3>2. CASE j[1] # r
      BY <1>1, <1>5, <2>1, <3>1, <3>2 DEF IInv, EndedIsStopped, ArmShape
    <3>3. CASE j[1] = r
      <4>1. i = <<r, i[2]>> /\ j = <<r, j[2]>> /\ Current(r) = <<r, room[r].cur>>
        BY <3>3, InstFacts DEF ArmShape, Current
      <4>2. j[2] # room[r].cur \/ alloc[j].state = "ROUND_ENDED"
        <5>1. CASE i = Current(r)
          BY <2>1, <4>1, <5>1
        <5>2. CASE State(r) = "ROUND_ENDED"
          BY <4>1, <5>2 DEF State
        <5>3. QED
          BY <5>1, <5>2 DEF ArmShape
      <4>3. QED
        BY <1>5, <3>1, <3>3, <4>2 DEF IInv, EndedIsStopped
    <3>4. QED
      BY <3>2, <3>3
  <2>2. i[2] = room'[i[1]].cur /\ alloc'[i].state # "ROUND_ENDED"
    BY DEF ArmShape
  <2>3. QED
    BY <2>1, <2>2 DEF EndedIsStopped
<1>11. RunningIsWatched'
  <2>1. ASSUME NEW j \in Inst, Running(j)', LooksLive(j)'
        PROVE  \/ alloc'[j].monitor # "off"
               \/ \E q \in Player : op'[q].inst = j /\ op'[q].pc = "wait"
               \/ Stopping(j)'
    <3>1. CASE j = i
      BY <3>1 DEF ArmShape
    <3>2. CASE j # i
      <4>1. \/ alloc[j].monitor # "off"
            \/ \E q \in Player : op[q].inst = j /\ op[q].pc = "wait"
            \/ Stopping(j)
        BY <1>4, <2>1, <3>2 DEF IInv, RunningIsWatched
      <4>2. \A q \in Player : op[q].pc = "wait" => op'[q] = op[q]
        BY DEF ArmShape
      <4>3. QED
        BY <1>4, <1>5, <3>2, <4>1, <4>2
    <3>3. QED
      BY <3>1, <3>2
  <2>2. QED
    BY <2>1 DEF RunningIsWatched
<1>12. QED
  BY <1>2, <1>6, <1>7, <1>8, <1>9, <1>10, <1>11 DEF IInv

(* arm_lobby refuses, hands out the endpoint it has, or starts a bridge.   *)
LEMMA ArmLobbyKeeps ==
  ASSUME IInv, NEW p \in Player, ArmLobby(p)
  PROVE  IInv'
<1>1. op[p].pc = "arm"
  BY DEF ArmLobby
<1>2. PICK r \in RoomId : /\ r = op[p].room
                         /\ State(r) # "NONE"
                         /\ Current(r) \in Inst /\ Current(r)[1] = r
                         /\ Current(r)[2] = room[r].cur
                         /\ alloc[Current(r)] \in Alloc
  BY <1>1, OwnRoom
<1>3. CASE ArmRefused(r) \/ AlreadyArmed(r) \/ bridges = MaxBridge
  <2>1. /\ op' = [op EXCEPT ![p] = Idle]
        /\ room' = HandedOut(r) \/ room' = room
        /\ UNCHANGED <<alloc, ownerRoom, bridges>>
    BY <1>2, <1>3 DEF ArmLobby
  <2>2. /\ op' \in [Player -> Thread] /\ op'[p].pc = "idle"
        /\ \A q \in Player \ {p} : op'[q] = op[q]
    BY <2>1, IdleFacts, OneThread DEF IInv
  <2>3. room' \in [RoomId -> RoomRow] /\ SameMembers
    BY <2>1, UnchangedRoomFacts, HandedOutFacts
  <2>4. /\ alloc' = alloc /\ bridges' = bridges
        /\ ownerRoom' \in [Player -> RoomId \cup {0}]
    BY <2>1 DEF IInv, TypeOK
  <2>5. \A q \in RoomId : room'[q].cur = room[q].cur
    BY <2>3 DEF SameMembers
  <2>6. RequestShape(p)
    BY <1>1, <2>2, <2>3, <2>4, <2>5 DEF RequestShape
  <2>7. MembershipNested' /\ OwnerIndexSound'
    BY <2>1, <2>3, <2>6, RequestMembers
  <2>8. QED
    BY <2>6, <2>7, RequestKeeps DEF IInv
<1>4. CASE ~(ArmRefused(r) \/ AlreadyArmed(r) \/ bridges = MaxBridge)
  <2> DEFINE new == State(r) = "ROUND_ENDED"
  <2>1. /\ room[r].cur <= bridges
        /\ new => room[r].cur < bridges /\ NextRound(r) \in Inst
    BY <1>2, <1>4, ArmInst
  <2>2. bridges \in Nat /\ MaxBridge \in Nat /\ bridges + 1 \in 0 .. MaxBridge
        /\ room[r].cur \in Nat
    BY <1>4, SpawnerAssumption DEF IInv, TypeOK, Round
  <2>3. PICK i \in Inst : i = IF new THEN NextRound(r) ELSE Current(r)
    BY <1>2, <2>1
  <2>4. /\ i[1] = r /\ i[2] <= bridges
        /\ i[2] = IF new THEN room[r].cur + 1 ELSE room[r].cur
        /\ i = Current(r) \/ State(r) = "ROUND_ENDED"
    BY <1>2, <2>2, <2>1, <2>3 DEF NextRound
  <2> DEFINE s == IF new THEN LeastOf(FreeSlots) ELSE alloc[i].slot
             g == alloc[i].stray \/ Running(i)
             b == [[[[[alloc[i] EXCEPT !.state = "ARMED"] EXCEPT !.slot = s]
                      EXCEPT !.bridge = "boot"] EXCEPT !.stray = g]
                      EXCEPT !.file = ""]
  <2>5. /\ bridges' = bridges + 1
        /\ room' = IF new THEN [room EXCEPT ![r].cur = @ + 1] ELSE room
        /\ ownerRoom' = IF new THEN [ownerRoom EXCEPT ![room[r].owner] = r]
                        ELSE ownerRoom
        /\ op' = [op EXCEPT ![p] = On("wait", i)]
    BY <1>2, <1>4, <2>3 DEF ArmLobby
  <2>6. alloc[i] \in Alloc /\ alloc \in [Inst -> Alloc]
    BY DEF IInv, TypeOK
  <2>7. alloc' = [alloc EXCEPT ![i] = b]
    <3>1. alloc' = [alloc EXCEPT
                   ![i].state = "ARMED",
                   ![i].slot = IF new THEN LeastOf(FreeSlots) ELSE @,
                   ![i].bridge = "boot", ![i].stray = @ \/ Running(i),
                   ![i].file = ""]
      BY <1>2, <1>4, <2>3 DEF ArmLobby
    <3>2. QED
      BY <2>6, <3>1 DEF Alloc
  <2>8. s \in Slot \cup {-1}
    <3>1. CASE new
      <4>1. FreeSlots # {}
        BY <1>4, <3>1 DEF ArmRefused
      <4>2. FreeSlots \subseteq Slot /\ FreeSlots \in SUBSET Nat
        BY SpawnerAssumption DEF FreeSlots, Slot
      <4>3. QED
        BY <3>1, <4>1, <4>2, LeastOfFacts
    <3>2. CASE ~new
      BY <2>6, <3>2, AllocFields
    <3>3. QED
      BY <3>1, <3>2
  <2>9. b \in Alloc /\ b.state = "ARMED"
    <3>1. g \in BOOLEAN /\ "ARMED" \in AllocState
          /\ "boot" \in {"off", "boot", "up", "dead"}
          /\ "" \in {"", "LISTENING"} \cup Published
      BY <2>6, AllocFields DEF Running, AllocState
    <3> HIDE DEF s, g
    <3>2. b \in Alloc
      BY <2>6, <2>8, <3>1, AllocWith
    <3>3. QED
      BY <2>6, <3>2 DEF Alloc
  <2> HIDE DEF b, s, g
  <2>10. /\ alloc' \in [Inst -> Alloc] /\ alloc'[i] = b
        /\ \A j \in Inst : j # i => alloc'[j] = alloc[j]
    BY <2>7, <2>9, OneAlloc DEF IInv
  <2>11. /\ On("wait", i) \in Thread /\ On("wait", i).pc = "wait"
         /\ On("wait", i).inst = i
    BY OnFacts
  <2>12. /\ op' \in [Player -> Thread] /\ op'[p] = On("wait", i)
         /\ \A q \in Player \ {p} : op'[q] = op[q]
    BY <2>5, <2>11, OneThread DEF IInv
  <2>13. /\ room' \in [RoomId -> RoomRow]
         /\ room'[r].cur = i[2]
         /\ \A q \in RoomId : /\ q # r => room'[q].cur = room[q].cur
                              /\ room'[q].owner = room[q].owner
                              /\ room'[q].players = room[q].players
                              /\ room'[q].match = room[q].match
    <3>1. room \in [RoomId -> RoomRow] /\ room[r] \in RoomRow
      BY DEF IInv, TypeOK, RoomRow
    <3>2. CASE ~new
      BY <2>4, <2>5, <3>1, <3>2
    <3>3. CASE new
      <4> DEFINE x == [room[r] EXCEPT !.cur = room[r].cur + 1]
      <4>1. room[r].cur + 1 \in Round
        BY <2>3, <2>4, <3>3, InstFacts
      <4>2. /\ x \in RoomRow /\ x.cur = room[r].cur + 1 /\ x.owner = room[r].owner
            /\ x.players = room[r].players /\ x.match = room[r].match
        BY <3>1, <4>1 DEF RoomRow
      <4>3. room' = [room EXCEPT ![r] = x]
        BY <2>5, <3>1, <3>3
      <4> HIDE DEF x
      <4>4. room' \in [RoomId -> RoomRow] /\ room'[r] = x
            /\ \A q \in RoomId \ {r} : room'[q] = room[q]
        BY <3>1, <4>2, <4>3
      <4>5. QED
        BY <2>4, <3>3, <4>2, <4>4
    <3>4. QED
      BY <3>2, <3>3
  <2>14. /\ ownerRoom' \in [Player -> RoomId \cup {0}]
         /\ \A q \in Player : \/ ownerRoom'[q] = ownerRoom[q]
                              \/ ownerRoom'[q] = r /\ room[r].owner = q
    <3>1. ownerRoom \in [Player -> RoomId \cup {0}]
      BY DEF IInv, TypeOK
    <3>2. QED
      BY <2>5, <3>1
  <2>15. ArmShape(p, r, i)
    BY <1>1, <2>2, <2>4, <2>5, <2>9, <2>10, <2>11, <2>12, <2>13, <2>14 DEF ArmShape
  <2>16. QED
    BY <2>15, ArmKeeps
<1>5. QED
  BY <1>3, <1>4

(* reserve_lobby brings a room to life that nobody refers to yet.          *)
LEMMA ReserveKeeps ==
  ASSUME IInv, NEW p \in Player, NEW r \in RoomId, Reserve(p, r)
  PROVE  IInv'
<1>1. /\ op[p].pc = "idle" /\ State(r) = "NONE" /\ FreeSlots # {}
      /\ UNCHANGED <<op, bridges>>
      /\ ownerRoom' = [ownerRoom EXCEPT ![p] = r]
  BY DEF Reserve
<1>2. /\ Current(r) \in Inst /\ Current(r) = <<r, 0>>
      /\ room \in [RoomId -> RoomRow] /\ room[r] \in RoomRow /\ room[r].cur = 0
  BY <1>1, CurrentFacts DEF IInv, TypeOK, RoomRow, Rounds
<1>3. PICK i \in Inst : i = Current(r)
  BY <1>2
<1> DEFINE s == LeastOf(FreeSlots)
           b == [[Unborn EXCEPT !.state = "RESERVED"] EXCEPT !.slot = s]
           x == [[room[r] EXCEPT !.owner = p] EXCEPT !.players = {p}]
<1>4. alloc' = [alloc EXCEPT ![i] = b]
  BY <1>2, <1>3 DEF Reserve, Unborn
<1>5. room' = [room EXCEPT ![r] = x]
  BY <1>2 DEF Reserve, RoomRow
<1>6. /\ b \in Alloc /\ b.state = "RESERVED" /\ b.monitor = "off" /\ b.bridge = "off"
  <2>1. s \in Slot
    <3>1. FreeSlots \subseteq Slot /\ FreeSlots \in SUBSET Nat
      BY SpawnerAssumption DEF FreeSlots, Slot
    <3>2. QED
      BY <1>1, <3>1, LeastOfFacts
  <2>2. QED
    BY <2>1 DEF Unborn, Alloc, AllocState
<1>7. /\ x \in RoomRow /\ x.cur = 0 /\ x.owner = p /\ x.players = {p}
      /\ x.match = room[r].match
  BY <1>2 DEF RoomRow
<1> HIDE DEF b, x
<1>8. /\ alloc' \in [Inst -> Alloc] /\ alloc'[i] = b
      /\ \A j \in Inst : j # i => alloc'[j] = alloc[j]
  BY <1>4, <1>6, OneAlloc DEF IInv
<1>9. /\ room' \in [RoomId -> RoomRow] /\ room'[r] = x
      /\ \A q \in RoomId \ {r} : room'[q] = room[q]
  BY <1>2, <1>5, <1>7
<1>10. TypeOK'
  BY <1>1, <1>8, <1>9 DEF IInv, TypeOK, RoomRow
<1>11. State(r)' = "RESERVED" /\ \A q \in RoomId \ {r} : State(q)' = State(q)
  <2>1. \A q \in RoomId : /\ Current(q)' = Current(q)
                          /\ Current(q) \in Inst /\ Current(q)[1] = q
    BY <1>2, <1>7, <1>9, CurrentFacts DEF Current, IInv
  <2>2. QED
    BY <1>3, <1>6, <1>8, <2>1 DEF State
<1>12. \A j \in Inst : /\ Running(j)' => Running(j) /\ j # i
                       /\ Armed(j)' => Armed(j)
                       /\ Stopping(j)' = Stopping(j)
  BY <1>1, <1>6, <1>8 DEF Running, Armed, Stopping
<1>13. Threads'
  <2>1. \A q \in Player : /\ AtRoom(q)' = AtRoom(q) /\ AtInst(q)' = AtInst(q)
                          /\ op'[q] = op[q]
    BY <1>1 DEF AtRoom, AtInst
  <2>2. \A q \in Player, o \in RoomId :
           /\ op[q].room = o => State(op[q].room)' = State(o)'
           /\ op[q].inst[1] = o => State(op[q].inst[1])' = State(o)'
    BY <1>1 DEF State, Current
  <2>3. \A o \in RoomId : State(o) # "NONE" => State(o)' = State(o)
    BY <1>1, <1>11
  <2>4. \A j \in Inst : j[1] \in RoomId
    BY InstFacts
  <2>5. QED
    BY <2>1, <2>2, <2>3, <2>4 DEF IInv, Threads, AtRoom
<1>14. Rounds'
  <2>1. \A q \in RoomId : State(q)' \in {"NONE", "RESERVED"} => room'[q].cur = 0
    BY <1>7, <1>9, <1>11 DEF IInv, Rounds
  <2>2. QED
    BY <1>1, <1>12, <2>1 DEF IInv, Rounds
<1>15. MembershipNested'
  BY <1>1, <1>7, <1>9, <1>11 DEF IInv, MembershipNested
<1>16. OwnerIndexSound'
  <2>1. ASSUME NEW q \in Player, NEW o \in RoomId, ownerRoom'[q] = o
        PROVE  room'[o].owner = q /\ State(o)' \notin {"NONE", "RELEASED"}
    <3>1. CASE q = p
      <4>1. o = r
        BY <1>1, <2>1, <3>1 DEF IInv, TypeOK
      <4>2. QED
        BY <1>7, <1>9, <1>11, <3>1, <4>1
    <3>2. CASE q # p
      <4>1. ownerRoom[q] = o
        BY <1>1, <2>1, <3>2 DEF IInv, TypeOK
      <4>2. room[o].owner = q /\ State(o) \notin {"NONE", "RELEASED"}
        BY <4>1 DEF IInv, OwnerIndexSound
      <4>3. QED
        BY <1>1, <1>9, <1>11, <4>2
    <3>3. QED
      BY <3>1, <3>2
  <2>2. QED
    BY <2>1 DEF OwnerIndexSound
<1>17. EndedIsStopped'
  <2>1. \A q \in RoomId : room'[q].cur = room[q].cur
    BY <1>2, <1>7, <1>9
  <2>2. \A j \in Inst : j[1] \in RoomId
    BY InstFacts
  <2>3. QED
    BY <1>8, <1>12, <2>1, <2>2 DEF IInv, EndedIsStopped
<1>18. RunningIsWatched'
  <2>1. \A j \in Inst : j # i => LooksLive(j)' = LooksLive(j)
    BY <1>8 DEF LooksLive
  <2>2. QED
    BY <1>1, <1>8, <1>12, <2>1 DEF IInv, RunningIsWatched
<1>19. QED
  BY <1>10, <1>13, <1>14, <1>15, <1>16, <1>17, <1>18 DEF IInv

-----------------------------------------------------------------------------
(* IInv holds at the start and is kept by every step.                      *)
LEMMA InitIInv == Init => IInv
<1> SUFFICES ASSUME Init PROVE IInv
  OBVIOUS
<1>1. /\ MaxBridge \in Nat \ {0} /\ bridges = 0 /\ 0 \in Round /\ 0 \in 0 .. MaxBridge
  BY SpawnerAssumption DEF Init, Round
<1>2. Unborn \in Alloc /\ Unborn.state = "NONE" /\ Unborn.monitor = "off" /\ Unborn.bridge = "off"
  BY DEF Unborn, Alloc, AllocState
<1>3. TypeOK
  BY <1>1, <1>2, IdleFacts DEF Init, TypeOK
<1>4. \A r \in RoomId : State(r) = "NONE"
  BY <1>2, <1>3, CurrentFacts DEF Init, State
<1>5. \A i \in Inst : ~Running(i) /\ ~Armed(i)
  BY <1>2 DEF Init, Running, Armed
<1>6. \A p \in Player : op[p].pc = "idle"
  BY IdleFacts DEF Init
<1>7. Threads
  BY <1>6 DEF Threads, AtRoom, AtInst
<1>8. Rounds
  BY <1>5, <1>6 DEF Init, Rounds
<1>9. MembershipNested
  BY DEF Init, MembershipNested
<1>10. OwnerIndexSound
  BY DEF Init, OwnerIndexSound, RoomId
<1>11. EndedIsStopped /\ RunningIsWatched
  BY <1>5 DEF EndedIsStopped, RunningIsWatched
<1>12. QED
  BY <1>3, <1>7, <1>8, <1>9, <1>10, <1>11 DEF IInv

(* Every request of a client, ...                                          *)
LEMMA RequestStep ==
  ASSUME IInv, NEW p \in Player, Request(p)
  PROVE  IInv'
<1>1. PICK r \in RoomId :
        \/ Reserve(p, r)
        \/ RegisterRoomPlayer(p, r)
        \/ BeginMatch(p, r)
        \/ MarkPlayerInMatch(p, r)
        \/ QuitMatchPlayer(p, r)
        \/ RemoveRoomPlayer(p, r)
        \/ PrepareSettingsUpdate(p, r)
  BY DEF Request
<1>2. CASE Reserve(p, r)
  BY <1>2, ReserveKeeps
<1>3. ASSUME RequestShape(p), MembershipNested', OwnerIndexSound' PROVE IInv'
  BY <1>3, RequestKeeps DEF IInv
<1>4. CASE RegisterRoomPlayer(p, r)
  BY <1>3, <1>4, RegisterKeeps
<1>5. CASE BeginMatch(p, r)
  BY <1>3, <1>5, BeginMatchKeeps
<1>6. CASE MarkPlayerInMatch(p, r)
  BY <1>3, <1>6, MarkKeeps
<1>7. CASE QuitMatchPlayer(p, r)
  BY <1>3, <1>7, QuitKeeps
<1>8. CASE RemoveRoomPlayer(p, r)
  BY <1>3, <1>8, RemoveKeeps, SpawnerAssumption
<1>9. CASE PrepareSettingsUpdate(p, r)
  BY <1>3, <1>9, PrepareKeeps
<1>10. QED
  BY <1>1, <1>2, <1>4, <1>5, <1>6, <1>7, <1>8, <1>9

(* ... every later step of a call, ...                                     *)
LEMMA ContinueStep ==
  ASSUME IInv, NEW p \in Player, Continue(p)
  PROVE  IInv'
<1>1. CASE ArmLobby(p)
  BY <1>1, ArmLobbyKeeps
<1>2. CASE ArmSeesExit(p)
  BY <1>2, ArmSeesExitKeeps
<1>3. CASE ArmSeesListening(p)
  BY <1>3, ArmSeesListeningKeeps
<1>4. CASE ArmTimesOut(p)
  BY <1>4, ArmTimesOutKeeps
<1>5. CASE EndRound(p)
  BY <1>5, EndRoundKeeps
<1>6. CASE ReleaseLobby(p)
  BY <1>6, ReleaseLobbyKeeps
<1>7. CASE UpdateLobbySettings(p)
  BY <1>7, UpdateKeeps, RequestKeeps DEF IInv
<1>8. CASE StopReadsPids(p)
  BY <1>8, StopReadsPidsKeeps
<1>9. CASE StopKills(p)
  BY <1>9, StopKillsKeeps
<1>10. CASE StopClears(p)
  BY <1>10, StopClearsKeeps
<1>11. QED
  BY <1>1, <1>2, <1>3, <1>4, <1>5, <1>6, <1>7, <1>8, <1>9, <1>10 DEF Continue

(* ... and a step that changes nothing keep IInv.                          *)
LEMMA StutterStep ==
  ASSUME IInv, UNCHANGED vars
  PROVE  IInv'
<1>1. UNCHANGED <<alloc, room, ownerRoom, op, bridges>>
  BY DEF vars
<1>2. \A j \in Inst : Background(j)
  BY <1>1 DEF Background, Running, LooksLive
<1>3. alloc' \in [Inst -> Alloc]
  BY <1>1 DEF IInv, TypeOK
<1>4. QED
  BY <1>1, <1>2, <1>3, BackgroundKeeps

(* The inductive invariant of the spawner, for any players, rooms, slots   *)
(* and number of bridges.                                                  *)
THEOREM SpawnerInvariant == Spec => []IInv
<1>1. Init => IInv
  BY InitIInv
<1>2. IInv /\ [Next]_vars => IInv'
  <2> SUFFICES ASSUME IInv, [Next]_vars PROVE IInv'
    OBVIOUS
  <2>1. ASSUME NEW p \in Player, Request(p) \/ Continue(p) PROVE IInv'
    BY <2>1, RequestStep, ContinueStep
  <2>2. ASSUME NEW i \in Inst, Monitor(i) \/ Process(i) PROVE IInv'
    BY <2>2, MonitorKeeps, ProcessKeeps
  <2>3. CASE UNCHANGED vars
    BY <2>3, StutterStep
  <2>4. QED
    BY <2>1, <2>2, <2>3 DEF Next
<1>3. QED
  BY <1>1, <1>2, PTL DEF Spec

(* Only mapped state names and well-formed rows are ever written, by any   *)
(* thread, monitor or process.                                             *)
THEOREM TypeCorrect == Spec => []TypeOK
<1>1. IInv => TypeOK
  BY DEF IInv
<1>2. QED
  BY <1>1, SpawnerInvariant, PTL

(* Match players are room players, and a released room has none, through   *)
(* every overlap of starts, quits, leaves and releases.                    *)
THEOREM MembershipAlwaysNested == Spec => []MembershipNested
<1>1. IInv => MembershipNested
  BY DEF IInv
<1>2. QED
  BY <1>1, SpawnerInvariant, PTL

(* _owner_to_room never answers a player with another owner's room or with *)
(* a released one.                                                         *)
THEOREM OwnerIndexAlwaysSound == Spec => []OwnerIndexSound
<1>1. IInv => OwnerIndexSound
  BY DEF IInv
<1>2. QED
  BY <1>1, SpawnerInvariant, PTL

(* A bridge that a re-arm left behind is always some teardown's to kill.   *)
THEOREM ReplacedAlwaysStopped == Spec => []ReplacedIsStopped
<1>1. IInv => ReplacedIsStopped
  <2> SUFFICES ASSUME IInv, NEW i \in Inst, i[2] < room[i[1]].cur, Running(i)
               PROVE  Stopping(i)
    BY DEF ReplacedIsStopped
  <2>1. i[1] \in RoomId /\ i[2] \in Round
    BY InstFacts
  <2>2. room[i[1]].cur \in Round /\ MaxBridge \in Nat
    BY <2>1, SpawnerAssumption DEF IInv, TypeOK
  <2>3. i[2] # room[i[1]].cur
    BY <2>1, <2>2 DEF Round
  <2>4. QED
    BY <2>3 DEF IInv, EndedIsStopped
<1>2. QED
  BY <1>1, SpawnerInvariant, PTL

(* A bridge that runs behind an allocation that looks live is watched by a *)
(* monitor, awaited by an arm_lobby, or about to be stopped.               *)
THEOREM RunningAlwaysWatched == Spec => []RunningIsWatched
<1>1. IInv => RunningIsWatched
  BY DEF IInv
<1>2. QED
  BY <1>1, SpawnerInvariant, PTL
=============================================================================
