----------------------------- MODULE DSSpawner -----------------------------
(***************************************************************************)
(* The dedicated-server spawner of server/assaultfire_ds_spawner.py: the   *)
(* allocations behind rooms, the threads of the players who call it, the   *)
(* monitor thread of each allocation, and the processes they start: a UDP  *)
(* bridge per armed allocation and, behind it, the loader and AFDEV        *)
(* ("heavy"), which the bridge starts on the first client packet.          *)
(*                                                                         *)
(* A region under self._lock is one action.  What a method does after it   *)
(* has released the lock (end_round, release_lobby, _stop_allocation, the  *)
(* wait for LISTENING) is further actions of the calling player's thread,  *)
(* so that everything else can happen in between.                          *)
(*                                                                         *)
(* arm_lobby replaces the allocation object of a room whose round ended,   *)
(* while monitors and teardowns still hold the old object: an allocation   *)
(* is therefore identified by its room and its round_generation.           *)
(* Settings, logs, packet counters and the create cooldown are abstracted. *)
(*                                                                         *)
(* The callers are the ZONE connection threads.  Of their own state only   *)
(* v132_pve_afdev_handoff_sent is kept (handed): it is what stops a player *)
(* who has been sent an endpoint from starting the match once more.        *)
(***************************************************************************)
EXTENDS Integers, FiniteSets

CONSTANTS
  Player,        \* account numbers (compared by min, so naturals)
  MaxRoom,       \* bound: rooms ever reserved
  MaxBridge,     \* bound: bridges ever started
  NumSlots       \* config.max_instances

ASSUME SpawnerAssumption ==
  /\ Player \subseteq Nat \ {0}
  /\ MaxRoom \in Nat /\ MaxBridge \in Nat \ {0} /\ NumSlots \in Nat

VARIABLES
  alloc,         \* the allocation objects and their processes, by instance
  room,          \* what the current allocation of a room knows of players
  ownerRoom,     \* _owner_to_room, 0 for no entry
  op,            \* what each player's connection thread is doing
  bridges        \* how many bridges have been started, for the bound

vars == <<alloc, room, ownerRoom, op, bridges>>

RoomId == 1 .. MaxRoom
Round == 0 .. MaxBridge - 1
Inst == RoomId \X Round
Slot == 0 .. NumSlots - 1

AllocState == {"NONE", "RESERVED", "ARMED", "STARTING", "AFDEV_READY",
               "READY", "FAILED", "ROUND_ENDED", "RELEASED"}
Published == {"SPAWNING", "AFDEV_READY", "READY", "FAILED"}

(* bridge: the process bridge_proc refers to; "dead" once it has exited.   *)
(* stray: an earlier bridge of this allocation that still runs although    *)
(* bridge_proc no longer refers to it.  heavy: the loader started last and *)
(* its AFDEV, which the pid files name; orphan: an earlier one that still  *)
(* runs.  file: the state in the bridge's state file.                      *)
(* monitor: "run", what it has just read, or "exited" once it saw the      *)
(* bridge gone; its next lock region then writes that into state.          *)
Alloc == [state : AllocState, slot : Slot \cup {-1},
          bridge : {"off", "boot", "up", "dead"}, stray : BOOLEAN,
          heavy : {"off", "boot", "ready"}, orphan : BOOLEAN,
          file : {"", "LISTENING"} \cup Published,
          monitor : {"off", "run", "exited"} \cup Published]

Unborn == [state |-> "NONE", slot |-> -1, bridge |-> "off", stray |-> FALSE,
           heavy |-> "off", orphan |-> FALSE, file |-> "", monitor |-> "off"]

Running(i) == alloc[i].bridge \in {"boot", "up"}

Current(r) == <<r, room[r].cur>>
State(r) == alloc[Current(r)].state
InRoom(p) == \E r \in RoomId : p \in room[r].players

Thread == [pc : {"idle", "arm", "wait", "end", "release",
                 "stop", "kill", "clear", "update"},
           room : RoomId \cup {0}, inst : Inst \cup {<<0, 0>>}, seen : BOOLEAN,
           then : {"return", "forget", "update"}]
Idle == [pc |-> "idle", room |-> 0, inst |-> <<0, 0>>, seen |-> FALSE,
         then |-> "return"]
At(pc, r) == [Idle EXCEPT !.pc = pc, !.room = r]
On(pc, i) == [Idle EXCEPT !.pc = pc, !.inst = i]

(* An end_round call of p is over.  A quit then forgets the handed flag,   *)
(* a settings change goes on to update_lobby_settings.                     *)
EndRoundDone(p, r) ==
  /\ op' = [op EXCEPT ![p] = IF op[p].then = "update" THEN At("update", r)
                                                     ELSE Idle]
  /\ room' = IF op[p].then = "forget"
             THEN [room EXCEPT ![r].handed = @ \ {p}] ELSE room

-----------------------------------------------------------------------------
(* Slots.  A bridge that is up holds the public port of its slot, an AFDEV *)
(* that came up holds the target port; so do those nothing refers to.      *)
PublicBound(s) == \E i \in Inst : alloc[i].slot = s
                                    /\ (alloc[i].bridge = "up" \/ alloc[i].stray)
TargetBound(s) == \E i \in Inst : alloc[i].slot = s
                                    /\ (alloc[i].heavy = "ready" \/ alloc[i].orphan)

Occupied == {alloc[Current(r)].slot :
               r \in {q \in RoomId :
                        State(q) \notin {"NONE", "RELEASED", "ROUND_ENDED"}}}

FreeSlots == {s \in Slot \ Occupied : ~PublicBound(s) /\ ~TargetBound(s)}

LeastOf(S) == CHOOSE x \in S : \A y \in S : x <= y

-----------------------------------------------------------------------------
Init ==
  /\ alloc = [i \in Inst |-> Unborn]
  /\ room = [r \in RoomId |-> [cur |-> 0, owner |-> 0,
                               players |-> {}, match |-> {}, handed |-> {}]]
  /\ ownerRoom = [p \in Player |-> 0]
  /\ op = [p \in Player |-> Idle]
  /\ bridges = 0

(* reserve_lobby, for a room that _next_room_id numbers.  An owner who has *)
(* a live room gets that one back and nothing changes.                     *)
Reserve(p, r) ==
  /\ op[p].pc = "idle" /\ ~InRoom(p)
  /\ ownerRoom[p] # 0 => State(ownerRoom[p]) = "RELEASED"
  /\ State(r) = "NONE" /\ \A q \in 1 .. r - 1 : State(q) # "NONE"
  /\ FreeSlots # {}
  /\ alloc' = [alloc EXCEPT ![<<r, 0>>] =
                 [Unborn EXCEPT !.state = "RESERVED",
                                !.slot = LeastOf(FreeSlots)]]
  /\ room' = [room EXCEPT ![r].owner = p, ![r].players = {p}]
  /\ ownerRoom' = [ownerRoom EXCEPT ![p] = r]
  /\ UNCHANGED <<op, bridges>>

RegisterRoomPlayer(p, r) ==
  /\ op[p].pc = "idle" /\ ~InRoom(p)
  /\ State(r) \notin {"NONE", "RELEASED"}
  /\ room' = [room EXCEPT ![r].players = @ \cup {p}]
  /\ UNCHANGED <<alloc, ownerRoom, op, bridges>>

(* begin_match: the first start takes every room player into the match, a  *)
(* later one only the starter.  The caller goes on to arm_lobby.           *)
BeginMatch(p, r) ==
  /\ op[p].pc = "idle" /\ p \in room[r].players \ room[r].handed
  /\ State(r) # "RELEASED"
  /\ LET new == State(r) \in {"RESERVED", "ROUND_ENDED"} \/ room[r].match = {}
     IN  room' = [room EXCEPT ![r].match =
                    IF new THEN room[r].players ELSE @ \cup {p}]
  /\ op' = [op EXCEPT ![p] = At("arm", r)]
  /\ UNCHANGED <<alloc, ownerRoom, bridges>>

MarkPlayerInMatch(p, r) ==
  /\ op[p].pc = "idle" /\ p \in room[r].players
  /\ State(r) # "RELEASED"
  /\ room' = [room EXCEPT ![r].match = @ \cup {p}]
  /\ UNCHANGED <<alloc, ownerRoom, op, bridges>>

(* quit_match_player decides under the lock, end_round comes after it.     *)
QuitMatchPlayer(p, r) ==
  /\ op[p].pc = "idle" /\ p \in room[r].players
  /\ State(r) # "RELEASED"
  /\ IF /\ room[r].match \subseteq {p}
        /\ State(r) \notin {"RESERVED", "ROUND_ENDED"}
     THEN /\ op' = [op EXCEPT ![p] = [At("end", r) EXCEPT !.then = "forget"]]
          /\ room' = [room EXCEPT ![r].match = {}]
     ELSE /\ op' = op
          /\ room' = [room EXCEPT ![r].match = @ \ {p},
                                  ![r].handed = @ \ {p}]
  /\ UNCHANGED <<alloc, ownerRoom, bridges>>

(* Mutant: the leaver stays among the match players.                       *)
RemoveRoomPlayerKeepsMatch(p, r) ==
  /\ op[p].pc = "idle" /\ p \in room[r].players
  /\ State(r) # "RELEASED"
  /\ LET players == room[r].players \ {p}
         transfer == room[r].owner = p /\ players # {}
         heir == LeastOf(players)
     IN  /\ room' = [room EXCEPT
              ![r].players = players, ![r].handed = @ \ {p},
              ![r].owner = IF transfer THEN heir ELSE @]
         /\ ownerRoom' = IF transfer
                         THEN [ownerRoom EXCEPT ![p] = 0, ![heir] = r]
                         ELSE ownerRoom
         /\ op' = [op EXCEPT ![p] =
                     IF players = {} THEN At("release", r) ELSE Idle]
  /\ UNCHANGED <<alloc, bridges>>

(* remove_room_player: the owner's place goes to the least account number. *)
RemoveRoomPlayer(p, r) ==
  /\ op[p].pc = "idle" /\ p \in room[r].players
  /\ State(r) # "RELEASED"
  /\ LET players == room[r].players \ {p}
         match == room[r].match \ {p}
         transfer == room[r].owner = p /\ players # {}
         heir == LeastOf(players)
     IN  /\ room' = [room EXCEPT
              ![r].players = players, ![r].match = match,
              ![r].handed = @ \ {p},
              ![r].owner = IF transfer THEN heir ELSE @]
         /\ ownerRoom' = IF transfer
                         THEN [ownerRoom EXCEPT ![p] = 0, ![heir] = r]
                         ELSE ownerRoom
         /\ op' = [op EXCEPT ![p] =
                     IF players = {} THEN At("release", r)
                     ELSE IF match = {}
                             /\ State(r) \notin {"RESERVED", "ROUND_ENDED"}
                     THEN At("end", r)
                     ELSE Idle]
  /\ UNCHANGED <<alloc, bridges>>

(* prepare_lobby_settings_update: a round nobody else plays, or a failed   *)
(* one, is torn down first; other states refuse.                           *)
PrepareSettingsUpdate(p, r) ==
  /\ op[p].pc = "idle" /\ p \in room[r].players
  /\ \/ /\ State(r) \in {"RESERVED", "ROUND_ENDED"}
        /\ op' = [op EXCEPT ![p] = At("update", r)]
     \/ /\ \/ State(r) \in {"READY", "AFDEV_READY"} /\ room[r].match \subseteq {p}
           \/ State(r) = "FAILED"
        /\ op' = [op EXCEPT ![p] = [At("end", r) EXCEPT !.then = "update"]]
  /\ UNCHANGED <<alloc, room, ownerRoom, bridges>>

(* update_lobby_settings and what A11E does once it has not refused.  The  *)
(* settings are abstracted; the requester may start the match again.       *)
UpdateLobbySettings(p) ==
  LET r == op[p].room
  IN  /\ op[p].pc = "update"
      /\ op' = [op EXCEPT ![p] = Idle]
      /\ room' = IF State(r) \in {"RESERVED", "ROUND_ENDED"}
                 THEN [room EXCEPT ![r].handed = @ \ {p}] ELSE room
      /\ UNCHANGED <<alloc, ownerRoom, bridges>>

-----------------------------------------------------------------------------
(* arm_lobby.  It refuses when ...                                         *)
ArmRefused(r) ==
  \/ State(r) \in {"RELEASED", "FAILED"}
  \/ State(r) = "ROUND_ENDED" /\ FreeSlots = {}

(* ... returns at once when the allocation looks armed ...                 *)
AlreadyArmed(r) ==
  /\ State(r) \in {"ARMED", "STARTING", "READY"}
  /\ alloc[Current(r)].bridge # "off"

(* (and the caller sends its endpoint to everybody in the room) ...        *)
HandedOut(r) == [room EXCEPT ![r].handed = @ \cup room[r].players]

(* ... replaces the allocation of a room whose round has ended ...         *)
NextRound(r) == <<r, room[r].cur + 1>>

(* ... and starts a bridge, on whose LISTENING the caller then waits.      *)
(* Popen overwrites bridge_proc: a bridge it referred to becomes a stray.  *)
(* At the bound on bridges it fails.                                       *)
ArmLobby(p) ==
  LET r == op[p].room
      new == State(r) = "ROUND_ENDED"
      i == IF new THEN NextRound(r) ELSE Current(r)
  IN  /\ op[p].pc = "arm"
      /\ IF ArmRefused(r) \/ AlreadyArmed(r) \/ bridges = MaxBridge
         THEN /\ op' = [op EXCEPT ![p] = Idle]
              /\ room' = IF AlreadyArmed(r) THEN HandedOut(r) ELSE room
              /\ UNCHANGED <<alloc, ownerRoom, bridges>>
         ELSE /\ bridges' = bridges + 1
              /\ room' = IF new THEN [room EXCEPT ![r].cur = @ + 1] ELSE room
              /\ alloc' = [alloc EXCEPT
                   ![i].state = "ARMED",
                   ![i].slot = IF new THEN LeastOf(FreeSlots) ELSE @,
                   ![i].bridge = "boot", ![i].stray = @ \/ Running(i),
                   ![i].file = ""]
              /\ ownerRoom' = IF new THEN [ownerRoom EXCEPT ![room[r].owner] = r]
                              ELSE ownerRoom
              /\ op' = [op EXCEPT ![p] = On("wait", i)]

(* The wait loop of arm_lobby, which polls without the lock.               *)
ArmSeesExit(p) ==
  LET i == op[p].inst
  IN  /\ op[p].pc = "wait" /\ alloc[i].bridge = "dead"
      /\ alloc' = [alloc EXCEPT ![i].state = "FAILED"]
      /\ op' = [op EXCEPT ![p] = Idle]
      /\ UNCHANGED <<room, ownerRoom, bridges>>

(* Mutant: the monitor thread is not started.                              *)
ArmForgetsMonitor(p) ==
  /\ op[p].pc = "wait" /\ alloc[op[p].inst].file = "LISTENING"
  /\ op' = [op EXCEPT ![p] = Idle]
  /\ room' = HandedOut(op[p].inst[1])
  /\ UNCHANGED <<alloc, ownerRoom, bridges>>

ArmSeesListening(p) ==
  LET i == op[p].inst
  IN  /\ op[p].pc = "wait" /\ alloc[i].bridge # "dead"
      /\ alloc[i].file = "LISTENING"
      /\ alloc' = [alloc EXCEPT ![i].monitor = IF @ = "off" THEN "run" ELSE @]
      /\ op' = [op EXCEPT ![p] = Idle]
      /\ room' = HandedOut(i[1])
      /\ UNCHANGED <<ownerRoom, bridges>>

(* Mutant: the deadline only counts for a bridge that has bound its port.  *)
ArmTimesOutOnceBound(p) ==
  LET i == op[p].inst
  IN  /\ op[p].pc = "wait" /\ alloc[i].bridge = "up"
      /\ alloc[i].file # "LISTENING"
      /\ alloc' = [alloc EXCEPT ![i].state = "FAILED"]
      /\ op' = [op EXCEPT ![p] = On("stop", i)]
      /\ UNCHANGED <<room, ownerRoom, bridges>>

ArmTimesOut(p) ==
  LET i == op[p].inst
  IN  /\ op[p].pc = "wait" /\ alloc[i].bridge # "dead"
      /\ alloc[i].file # "LISTENING"
      /\ alloc' = [alloc EXCEPT ![i].state = "FAILED"]
      /\ op' = [op EXCEPT ![p] = On("stop", i)]
      /\ UNCHANGED <<room, ownerRoom, bridges>>

-----------------------------------------------------------------------------
EndRound(p) ==
  LET r == op[p].room
  IN  /\ op[p].pc = "end"
      /\ IF State(r) \in {"RELEASED", "ROUND_ENDED"}
         THEN EndRoundDone(p, r) /\ UNCHANGED alloc
         ELSE /\ alloc' = [alloc EXCEPT ![Current(r)].state = "ROUND_ENDED"]
              /\ room' = [room EXCEPT ![r].match = {}]
              /\ op' = [op EXCEPT ![p] = [On("stop", Current(r))
                                            EXCEPT !.then = op[p].then]]
      /\ UNCHANGED <<ownerRoom, bridges>>

(* Mutant: the room is released and its bridge is left alone.              *)
ReleaseLobbyWithoutStop(p) ==
  LET r == op[p].room
  IN  /\ op[p].pc = "release"
      /\ alloc' = [alloc EXCEPT ![Current(r)].state = "RELEASED"]
      /\ ownerRoom' = [ownerRoom EXCEPT ![room[r].owner] = 0]
      /\ room' = [room EXCEPT ![r].players = {}, ![r].match = {}]
      /\ op' = [op EXCEPT ![p] = Idle]
      /\ UNCHANGED bridges

ReleaseLobby(p) ==
  LET r == op[p].room
  IN  /\ op[p].pc = "release"
      /\ IF State(r) = "RELEASED"
         THEN /\ op' = [op EXCEPT ![p] = Idle]
              /\ UNCHANGED <<alloc, room, ownerRoom>>
         ELSE /\ alloc' = [alloc EXCEPT ![Current(r)].state = "RELEASED"]
              /\ ownerRoom' = [ownerRoom EXCEPT ![room[r].owner] = 0]
              /\ room' = [room EXCEPT ![r].players = {}, ![r].match = {}]
              /\ op' = [op EXCEPT ![p] = On("stop", Current(r))]
      /\ UNCHANGED bridges

(* _stop_allocation, without the lock: read the pids, kill the processes   *)
(* seen then, terminate the bridge bridge_proc refers to, forget them.     *)
StopReadsPids(p) ==
  /\ op[p].pc = "stop"
  /\ op' = [op EXCEPT ![p].pc = "kill",
                      ![p].seen = alloc[op[p].inst].heavy # "off"]
  /\ UNCHANGED <<alloc, room, ownerRoom, bridges>>

StopKills(p) ==
  LET i == op[p].inst
  IN  /\ op[p].pc = "kill"
      /\ alloc' = [alloc EXCEPT
           ![i].heavy = IF op[p].seen THEN "off" ELSE @,
           ![i].bridge = IF @ \in {"boot", "up"} THEN "dead" ELSE @]
      /\ op' = [op EXCEPT ![p].pc = "clear", ![p].seen = FALSE]
      /\ UNCHANGED <<room, ownerRoom, bridges>>

StopClears(p) ==
  LET i == op[p].inst
  IN  /\ op[p].pc = "clear"
      /\ alloc' = [alloc EXCEPT ![i].bridge = "off",
                                ![i].stray = @ \/ Running(i)]
      /\ EndRoundDone(p, i[1])
      /\ UNCHANGED <<ownerRoom, bridges>>

-----------------------------------------------------------------------------
(* _monitor_bridge.  One pass: look, then write what was seen.             *)
MonitorLooks(i) ==
  LET a == alloc[i]
  IN  /\ a.monitor = "run"
      /\ alloc' = [alloc EXCEPT ![i].monitor =
           IF i # Current(i[1]) \/ a.state = "RELEASED" THEN "off"
           ELSE IF a.bridge = "dead" THEN "exited"
           ELSE IF a.file \in Published THEN a.file
           ELSE "run"]
      /\ UNCHANGED <<room, ownerRoom, op, bridges>>

(* Mutant: the monitor stops without reporting the exit it saw.            *)
MonitorIgnoresExit(i) ==
  /\ alloc[i].monitor = "exited"
  /\ alloc' = [alloc EXCEPT ![i].monitor = "off"]
  /\ UNCHANGED <<room, ownerRoom, op, bridges>>

MonitorReportsExit(i) ==
  /\ alloc[i].monitor = "exited"
  /\ alloc' = [alloc EXCEPT ![i].monitor = "off",
                            ![i].state = IF @ = "RELEASED" THEN @ ELSE "FAILED"]
  /\ UNCHANGED <<room, ownerRoom, op, bridges>>

(* The state read from the file is written whatever state has become.      *)
MonitorWrites(i) ==
  LET seen == alloc[i].monitor
  IN  /\ seen \in Published
      /\ alloc' = [alloc EXCEPT
           ![i].monitor = IF seen = "FAILED" THEN "off" ELSE "run",
           ![i].state = IF seen = "SPAWNING" THEN "STARTING" ELSE seen]
      /\ UNCHANGED <<room, ownerRoom, op, bridges>>

-----------------------------------------------------------------------------
(* The bridge and what it starts.  A bridge whose port is taken exits.     *)
BridgeBinds(i) ==
  /\ alloc[i].bridge = "boot"
  /\ alloc' = IF PublicBound(alloc[i].slot)
              THEN [alloc EXCEPT ![i].bridge = "dead"]
              ELSE [alloc EXCEPT ![i].bridge = "up", ![i].file = "LISTENING"]
  /\ UNCHANGED <<room, ownerRoom, op, bridges>>

(* The first valid packet of a client starts the loader.                   *)
BridgeSpawnsLoader(i) ==
  /\ alloc[i].bridge = "up" /\ alloc[i].file = "LISTENING"
  /\ alloc' = [alloc EXCEPT ![i].heavy = "boot", ![i].file = "SPAWNING",
                            ![i].orphan = @ \/ alloc[i].heavy # "off"]
  /\ UNCHANGED <<room, ownerRoom, op, bridges>>

(* AFDEV comes up; a bridge that still waits for SESSION_READY says so.    *)
HeavyReady(i) ==
  /\ alloc[i].heavy = "boot" /\ ~TargetBound(alloc[i].slot)
  /\ alloc' = [alloc EXCEPT ![i].heavy = "ready",
                            ![i].file = IF alloc[i].bridge = "up" /\ @ = "SPAWNING"
                                        THEN "AFDEV_READY" ELSE @]
  /\ UNCHANGED <<room, ownerRoom, op, bridges>>

(* The loader fails, is killed or is too late, or a socket call raises:    *)
(* the bridge publishes FAILED, ends what it started as far as that is on  *)
(* record (UdpBridge: an AFDEV without a pid may stay) and exits.          *)
BridgeFails(i) ==
  /\ alloc[i].bridge = "up"
  /\ \E left \in {alloc[i].heavy} \cup
                 (IF alloc[i].file = "LISTENING" THEN {} ELSE {"off"}) :
        alloc' = [alloc EXCEPT ![i].bridge = "dead", ![i].file = "FAILED",
                               ![i].heavy = left]
  /\ UNCHANGED <<room, ownerRoom, op, bridges>>

FirstReply(i) ==
  /\ alloc[i].bridge = "up" /\ alloc[i].file = "AFDEV_READY"
  /\ alloc[i].heavy = "ready"
  /\ alloc' = [alloc EXCEPT ![i].file = "READY"]
  /\ UNCHANGED <<room, ownerRoom, op, bridges>>

-----------------------------------------------------------------------------
Request(p) ==
  \E r \in RoomId :
    \/ Reserve(p, r)
    \/ RegisterRoomPlayer(p, r)
    \/ BeginMatch(p, r)
    \/ MarkPlayerInMatch(p, r)
    \/ QuitMatchPlayer(p, r)
    \/ RemoveRoomPlayer(p, r)
    \/ PrepareSettingsUpdate(p, r)

(* What a thread that is inside a call does next.                          *)
Continue(p) ==
  \/ ArmLobby(p)
  \/ ArmSeesExit(p) \/ ArmSeesListening(p) \/ ArmTimesOut(p)
  \/ EndRound(p) \/ ReleaseLobby(p) \/ UpdateLobbySettings(p)
  \/ StopReadsPids(p) \/ StopKills(p) \/ StopClears(p)

Monitor(i) == MonitorLooks(i) \/ MonitorReportsExit(i) \/ MonitorWrites(i)

Process(i) == \/ BridgeBinds(i) \/ BridgeSpawnsLoader(i) \/ HeavyReady(i)
              \/ BridgeFails(i) \/ FirstReply(i)

Next ==
  \/ \E p \in Player : Request(p) \/ Continue(p)
  \/ \E i \in Inst : Monitor(i) \/ Process(i)

Spec == Init /\ [][Next]_vars

(* Threads run on; clients, the network and child processes owe nothing.   *)
FairSpec ==
  /\ Spec
  /\ \A p \in Player : WF_vars(Continue(p))
  /\ \A i \in Inst : WF_vars(Monitor(i))
-----------------------------------------------------------------------------
(* Every variable has its type; in particular only the mapped names of the *)
(* bridge's published states ever reach an allocation's state.             *)
TypeOK ==
  /\ alloc \in [Inst -> Alloc]
  /\ room \in [RoomId -> [cur : Round, owner : Player \cup {0},
                          players : SUBSET Player, match : SUBSET Player,
                          handed : SUBSET Player]]
  /\ ownerRoom \in [Player -> RoomId \cup {0}]
  /\ op \in [Player -> Thread]
  /\ bridges \in 0 .. MaxBridge

(* The two memberships of an allocation stay nested through starts, quits, *)
(* leaves and releases that overlap: whoever is in the match is in the     *)
(* room, and a released room lists nobody.                                 *)
MembershipNested ==
  \A r \in RoomId :
     /\ room[r].match \subseteq room[r].players
     /\ State(r) \in {"NONE", "RELEASED"} => room[r].players = {}

(* Through hand-overs, releases and re-arms, _owner_to_room points only at *)
(* rooms that have not been released and that their player owns: nobody's  *)
(* next A10A is answered with a room of another owner, or a dead one.      *)
OwnerIndexSound ==
  \A p \in Player, r \in RoomId : ownerRoom[p] = r =>
     /\ room[r].owner = p
     /\ State(r) \notin {"NONE", "RELEASED"}

Stopping(i) == \E p \in Player : op[p].inst = i /\ op[p].pc \in {"stop", "kill"}

(* Once a re-arm has replaced an allocation object nobody can reach its    *)
(* bridge through the room any more: unless a teardown that started        *)
(* earlier still has it to kill, or the bridge was lost before, it is gone. *)
ReplacedIsStopped ==
  \A i \in Inst : i[2] < room[i[1]].cur /\ Running(i) => Stopping(i)

(* Whatever the processes and the other threads do, every call a client's  *)
(* connection thread makes returns: its loops all have deadlines.          *)
CallsReturn == \A p \in Player : op[p].pc # "idle" ~> op[p].pc = "idle"

LooksLive(i) == alloc[i].state \in {"ARMED", "STARTING", "AFDEV_READY", "READY"}

(* A bridge that runs behind an allocation that looks live is never        *)
(* unwatched: its monitor runs, or the arm_lobby that will start the       *)
(* monitor is still waiting for it, or a teardown is about to take it.     *)
RunningIsWatched ==
  \A i \in Inst : Running(i) /\ LooksLive(i) =>
     \/ alloc[i].monitor # "off"
     \/ \E p \in Player : op[p].inst = i /\ op[p].pc = "wait"
     \/ Stopping(i)

(* When the bridge of an allocation that looks live has exited, this is    *)
(* noticed: the allocation does not go on looking live over a dead bridge. *)
DeathNoticed ==
  \A i \in Inst :
     alloc[i].bridge = "dead" /\ LooksLive(i)
       ~> alloc[i].bridge # "dead" \/ ~LooksLive(i)

(* The bridge of a released room goes down, unless the room does not stay  *)
(* released.                                                               *)
ReleasedGoesDown ==
  \A i \in Inst :
     alloc[i].state = "RELEASED" ~> ~Running(i) \/ alloc[i].state # "RELEASED"

-----------------------------------------------------------------------------
(* What the repository says of the spawner, and the code does not do.      *)

(* "room survives as ROUND_ENDED": the end of a round lasts until the room *)
(* is released or armed again (which replaces the allocation).             *)
RoundEndedSticks ==
  [][\A i \in Inst : alloc[i].state = "ROUND_ENDED" =>
        alloc'[i].state \in {"ROUND_ENDED", "RELEASED"}]_vars

=============================================================================
