----------------------------- MODULE AfdevLoader -----------------------------
(***************************************************************************)
(* One run of AFDevLoader_v48_spawner_multi_instance.py and the AFDEV it   *)
(* starts: AFDEV is created suspended, patched, resumed, told on its own   *)
(* game thread to open the map of the match, given the settings of the     *)
(* room and the key of the clients, and reported ready.                    *)
(*                                                                         *)
(* The loader reads and writes the memory of a process that goes on        *)
(* running.  To call one of AFDEV's functions it suspends the game thread, *)
(* points it at a trampoline, lets it go and waits for the result, until a *)
(* deadline; a trampoline given up is still run.  Times are left open: a   *)
(* wait may end before or after what it waits for.  Names, addresses and   *)
(* instruction bytes are left out.                                         *)
(***************************************************************************)
EXTENDS Naturals, Sequences

CONSTANTS
  MaxTries,      \* bound: how often 12 s suffice to retry the settings
  MaxResets      \* bound: how often AFDEV makes its socket anew

ASSUME LoaderAssumption == MaxTries \in Nat /\ MaxResets \in Nat

VARIABLES
  pc,            \* where the loader is in main()
  hold,          \* its remote call: free, thread held, or waiting for it
  patched,       \* patches installed and verified
  final,         \* final_gworld: the world the loader works on
  authority,     \* the world whose GameInfo it has found
  tries,         \* maya_settings_attempt
  guard,         \* the rekey guard's thread runs
  pid, ready,    \* the pid file and the ready file are there
  \* AFDEV
  proc,          \* absent, suspended, running or dead
  world,         \* how far its game thread is from start-up to the match
  pending,       \* PendingURL: the travel that OPEN has asked for
  calls,         \* trampolines its game thread has still to run
  answer,        \* the result slot of the call the loader waits for
  settled,       \* the match's GameInfo has the room's settings
  sock           \* the encrypted socket: its number and its key

loaderVars == <<pc, hold, patched, final, authority, tries, guard, pid, ready>>
afdevVars == <<proc, world, pending, calls, answer, settled, sock>>
vars == <<loaderVars, afdevVars>>

(* The worlds in order: none yet, the frontend, the frontend with the      *)
(* travel under way, none, the match without and with its GameInfo.        *)
World == {"boot", "front", "leaving", "empty", "new", "match"}
GWorld == CASE world \in {"boot", "empty"}    -> "null"
            [] world \in {"front", "leaving"} -> "front"
            [] OTHER                          -> "match"

(* The remote call each part of main() makes on the game thread.           *)
Calls == [open |-> "Exec", authority |-> "GetWorldInfo",
          settings |-> "FName", name |-> "FName"]

NoSocket == [n |-> 0, key |-> "none"]

Init ==
  /\ pc = "launch" /\ hold = "free" /\ patched = 0 /\ tries = 0
  /\ final = "unset" /\ authority = "none" /\ guard = FALSE
  /\ pid = FALSE /\ ready = FALSE
  /\ proc = "absent" /\ world = "boot" /\ pending = FALSE
  /\ calls = <<>> /\ answer = "none" /\ settled = FALSE /\ sock = NoSocket

Alive == proc = "running"

Goto(step) ==
  /\ pc' = step
  /\ UNCHANGED <<hold, patched, final, authority, tries, guard, pid, ready>>

-----------------------------------------------------------------------------
(* main() up to CreateProcessW, and everything that may be missing.        *)
Launch ==
  /\ pc = "launch"
  /\ \/ Goto("exit") /\ UNCHANGED afdevVars
     \/ /\ Goto("pid") /\ proc' = "suspended"
        /\ UNCHANGED <<world, pending, calls, answer, settled, sock>>

(* Mutant: the pid is not written down.                                    *)
WritePidNot ==
  /\ pc = "pid" /\ Goto("patch") /\ UNCHANGED afdevVars

(* The pid is written and an old ready file removed; on an error AFDEV     *)
(* stays behind, suspended.                                                *)
WritePid ==
  /\ pc = "pid"
  /\ \/ Goto("exit")
     \/ /\ pc' = "patch" /\ pid' = TRUE /\ ready' = FALSE
        /\ UNCHANGED <<hold, patched, final, authority, tries, guard>>
  /\ UNCHANGED afdevVars

(* One patch: the bytes in place are compared, replaced and read back.     *)
(* What does not match terminates the process.                             *)
Installs(k) ==
  /\ pc = "patch" /\ patched = k
  /\ \/ patched' = k + 1 /\ UNCHANGED <<pc, proc>>
     \/ pc' = "exit" /\ proc' = "dead" /\ UNCHANGED patched
  /\ UNCHANGED <<hold, final, authority, tries, guard, pid, ready>>
  /\ UNCHANGED <<world, pending, calls, answer, settled, sock>>

(* In this order: the login and mode bytes, a mutex of its own, the        *)
(* movement bridge, and the traces that the diagnostics read.              *)
BytesPatched == \E k \in 0 .. 3 : Installs(k)
MutexIsolated == Installs(4)
MovementBridged == Installs(5)
StagesHooked == Installs(6)
SpawnTraced == Installs(7)
GameInfoTraced == Installs(8)
Patches == 9

Resume ==
  /\ pc = "patch" /\ patched = Patches
  /\ \/ Goto("exit") /\ UNCHANGED proc
     \/ Goto("engine") /\ proc' = "running"
  /\ UNCHANGED <<world, pending, calls, answer, settled, sock>>

(* GEngine and GLog, within 20 s, and the mode the patches should bring.   *)
AwaitEngine ==
  /\ pc = "engine"
  /\ \/ Goto("exit")
     \/ Alive /\ Goto("open")
  /\ UNCHANGED afdevVars

-----------------------------------------------------------------------------
(* A remote call.  The settings are not even tried without an authority.   *)
Hold ==
  /\ pc \in DOMAIN Calls /\ hold = "free" /\ Alive
  /\ pc = "settings" => authority # "none"
  /\ hold' = "held"
  /\ UNCHANGED <<pc, patched, final, authority, tries, guard, pid, ready, afdevVars>>

Redirect ==
  /\ pc \in DOMAIN Calls /\ hold = "held" /\ Alive
  /\ hold' = "wait" /\ answer' = "none"
  /\ calls' = <<[op |-> Calls[pc], on |-> final, awaited |-> TRUE]>> \o calls
  /\ UNCHANGED <<pc, patched, final, authority, tries, guard, pid, ready>>
  /\ UNCHANGED <<proc, world, pending, settled, sock>>

(* A call that was redirected but is waited for no longer.                 *)
Abandoned == [i \in DOMAIN calls |-> [calls[i] EXCEPT !.awaited = FALSE]]

(* Mutant: after the deadline the loader goes on without the settings.     *)
AfterFailureGoesOn ==
  \/ /\ tries < MaxTries /\ Alive
     /\ tries' = tries + 1 /\ pc' = "authority"
  \/ pc' = "rekey" /\ UNCHANGED tries

(* What a failed attempt at the settings leads to: another one with the    *)
(* authority found again, for 12 s and while AFDEV is there, or the end.   *)
AfterFailure ==
  \/ /\ tries < MaxTries /\ Alive
     /\ tries' = tries + 1 /\ pc' = "authority"
  \/ pc' = "exit" /\ UNCHANGED tries

(* Mutant: the thread stays suspended when the call fails.                 *)
CallFailsHeld ==
  /\ pc \in DOMAIN Calls /\ hold \in {"held", "wait"}
  /\ hold' = (IF hold = "held" THEN "held" ELSE "free") /\ calls' = Abandoned
  /\ CASE pc = "open"      -> pc' = "exit" /\ UNCHANGED <<tries, authority>>
       [] pc = "authority" -> pc' = "settings" /\ authority' = "none" /\ UNCHANGED tries
       [] pc = "settings"  -> AfterFailure /\ UNCHANGED authority
       [] pc = "name"      -> pc' = "watch" /\ UNCHANGED <<tries, authority>>
  /\ UNCHANGED <<patched, final, guard, pid, ready>>
  /\ UNCHANGED <<proc, world, pending, answer, settled, sock>>

(* The call fails or is too late.  The thread is let go in any case.       *)
CallFails ==
  /\ pc \in DOMAIN Calls /\ hold \in {"held", "wait"}
  /\ hold' = "free" /\ calls' = Abandoned
  /\ CASE pc = "open"      -> pc' = "exit" /\ UNCHANGED <<tries, authority>>
       [] pc = "authority" -> pc' = "settings" /\ authority' = "none" /\ UNCHANGED tries
       [] pc = "settings"  -> AfterFailure /\ UNCHANGED authority
       [] pc = "name"      -> pc' = "watch" /\ UNCHANGED <<tries, authority>>
  /\ UNCHANGED <<patched, final, guard, pid, ready>>
  /\ UNCHANGED <<proc, world, pending, answer, settled, sock>>

Returned == hold = "wait" /\ answer # "none" /\ Alive

(* OPEN was executed; up to 30 s for LoadMap, whatever comes of it.        *)
Opened ==
  /\ pc = "open" /\ Returned
  /\ pc' = "travel" /\ hold' = "free"
  /\ UNCHANGED <<patched, final, authority, tries, guard, pid, ready, afdevVars>>

(* wait_for_pending_url_clear; a travel that does not start in 20 s, or an *)
(* AFDEV that is gone, is waited for without ever reporting.               *)
Travel ==
  /\ pc = "travel"
  /\ \/ ~pending /\ Goto("world")
     \/ Goto("watch")
  /\ UNCHANGED afdevVars

(* wait_for_nonnull_gworld: the first world there is, or none in 15 s.     *)
TakeWorld ==
  /\ pc = "world"
  /\ final' \in {GWorld, "null"}
  /\ pc' = "authority"
  /\ UNCHANGED <<hold, patched, authority, tries, guard, pid, ready, afdevVars>>

(* inspect_authority_world: the GameInfo of the world, if it has one.      *)
Inspected ==
  /\ pc = "authority" /\ Returned
  /\ authority' = IF answer = GWorld /\ world # "new" THEN answer ELSE "none"
  /\ pc' = "settings" /\ hold' = "free"
  /\ UNCHANGED <<patched, final, tries, guard, pid, ready, afdevVars>>

(* inspect_authority_world without an AFDEV to ask.                        *)
NotInspected ==
  /\ pc = "authority" /\ hold = "free" /\ ~Alive
  /\ authority' = "none" /\ pc' = "settings"
  /\ UNCHANGED <<hold, patched, final, tries, guard, pid, ready, afdevVars>>

(* apply_maya_game_settings: the fields are there and are written ...      *)
Settle ==
  /\ pc = "settings" /\ Returned /\ authority = "match"
  /\ pc' = "rekey" /\ hold' = "free" /\ settled' = TRUE
  /\ UNCHANGED <<patched, final, authority, tries, guard, pid, ready>>
  /\ UNCHANGED <<proc, world, pending, calls, answer, sock>>

(* ... or not: there is no authority, a field is missing (the frontend has *)
(* no difficulty), or the room's settings are not this map's.              *)
NotSettled ==
  /\ pc = "settings"
  /\ hold = "free" \/ Returned
  /\ hold' = "free"
  /\ AfterFailure
  /\ UNCHANGED <<patched, final, authority, guard, pid, ready, afdevVars>>

-----------------------------------------------------------------------------
(* AFDEV's own key, and the same after an attempt to replace it.           *)
Wrong == {"hard", "missed"}

(* v72_rekey_socket sets the key of the socket found a moment ago and      *)
(* reads it back.  A socket made anew in between is as one made just after.*)
Rekeyed(s) == IF s.key \in Wrong THEN [s EXCEPT !.key = "zero"] ELSE s

(* arm_zero_dskey_guard_v72: within 15 s, then the guard is started.       *)
Rekey ==
  /\ pc = "rekey"
  /\ \/ Goto("exit") /\ UNCHANGED sock
     \/ /\ Alive /\ sock # NoSocket
        /\ sock' = Rekeyed(sock)
        /\ pc' = "report" /\ guard' = TRUE
        /\ UNCHANGED <<hold, patched, final, authority, tries, pid, ready>>
  /\ UNCHANGED <<proc, world, pending, calls, answer, settled>>

(* Mutant: the guard watches only the socket it knows.                     *)
GuardKnowsOne ==
  /\ guard /\ Alive /\ pc # "exit"
  /\ sock.n = 1 /\ sock.key \in Wrong
  /\ sock' \in {Rekeyed(sock), [sock EXCEPT !.key = "missed"]}
  /\ UNCHANGED <<loaderVars, proc, world, pending, calls, answer, settled>>

(* The guard: a socket made anew, or with another key, is rekeyed.  An     *)
(* attempt that fails (no flag, no thread, no answer in 5 s, the wrong key *)
(* read back) is made again after 0.2 s, however often.                    *)
Guard ==
  /\ guard /\ Alive /\ pc # "exit"
  /\ sock.key \in Wrong
  /\ sock' \in {Rekeyed(sock), [sock EXCEPT !.key = "missed"]}
  /\ UNCHANGED <<loaderVars, proc, world, pending, calls, answer, settled>>

(* SESSION_READY, moved into place at once; then the player's name, for at *)
(* most 45 s and without consequences.                                     *)
Report ==
  /\ pc = "report"
  /\ \/ Goto("exit")
     \/ /\ ready' = TRUE /\ pc' = "name"
        /\ UNCHANGED <<hold, patched, final, authority, tries, guard, pid>>
  /\ UNCHANGED afdevVars

Named ==
  /\ pc = "name"
  /\ hold = "free" \/ Returned
  /\ pc' = "watch" /\ hold' = "free"
  /\ UNCHANGED <<patched, final, authority, tries, guard, pid, ready, afdevVars>>

(* The loader stays while AFDEV does.                                      *)
Leave ==
  /\ pc \in {"watch", "open"} /\ hold = "free" /\ proc = "dead"
  /\ Goto("exit")
  /\ UNCHANGED afdevVars

Step == \/ Launch \/ WritePid
        \/ BytesPatched \/ MutexIsolated \/ MovementBridged
        \/ StagesHooked \/ SpawnTraced \/ GameInfoTraced
        \/ Resume \/ AwaitEngine
        \/ Hold \/ Redirect \/ CallFails
        \/ Opened \/ Travel \/ TakeWorld \/ Inspected \/ NotInspected
        \/ Settle \/ NotSettled \/ Rekey \/ Report \/ Named \/ Leave

(* The bridge terminates the loader, wherever it is.                       *)
Killed ==
  /\ pc # "exit" /\ Goto("exit")
  /\ UNCHANGED afdevVars

-----------------------------------------------------------------------------
(* AFDEV.  Its game thread runs what it has been pointed at first.         *)
Free == Alive /\ hold # "held" /\ calls = <<>>

(* GetWorldInfo of a world that is not there crashes or answers nonsense.  *)
RunCall ==
  /\ Alive /\ hold # "held" /\ calls # <<>>
  /\ LET c == Head(calls)
         value == IF c.op # "GetWorldInfo" THEN "done"
                  ELSE IF c.on = GWorld THEN c.on ELSE "null"
     IN  /\ calls' = Tail(calls)
         /\ pending' = (pending \/ c.op = "Exec")
         /\ answer' = IF c.awaited THEN value ELSE answer
         /\ proc' \in IF c.op = "GetWorldInfo" /\ c.on # GWorld
                      THEN {"running", "dead"} ELSE {proc}
  /\ UNCHANGED <<loaderVars, world, settled, sock>>

Travels ==
  /\ Free
  /\ \/ world = "boot"    /\ world' = "front"   /\ UNCHANGED <<pending, sock>>
     \/ world = "front"   /\ world' = "leaving" /\ pending /\ pending' = FALSE /\ UNCHANGED sock
     \/ world = "leaving" /\ world' = "empty"   /\ UNCHANGED <<pending, sock>>
     \/ world = "empty"   /\ world' = "new"     /\ UNCHANGED <<pending, sock>>
     \/ world = "new"     /\ world' = "match"   /\ UNCHANGED pending
          /\ sock' = [n |-> 1, key |-> "hard"]
  /\ UNCHANGED <<loaderVars, proc, calls, answer, settled>>

SocketAnew ==
  /\ Free /\ world = "match" /\ sock.n <= MaxResets
  /\ sock' = [n |-> sock.n + 1, key |-> "hard"]
  /\ UNCHANGED <<loaderVars, proc, world, pending, calls, answer, settled>>

Dies ==
  /\ Alive /\ proc' = "dead"
  /\ UNCHANGED <<loaderVars, world, pending, calls, answer, settled, sock>>

Afdev == RunCall \/ Travels \/ SocketAnew \/ Dies

Next == Step \/ Guard \/ Killed \/ Afdev

Spec == Init /\ [][Next]_vars

(* Every wait of the loader has a deadline.  The guard turns ten times a   *)
(* second, and not all of its attempts fail; AFDEV and the bridge owe      *)
(* nothing.                                                                *)
FairSpec == Spec /\ WF_vars(Step) /\ WF_vars(Guard)

-----------------------------------------------------------------------------
TypeOK ==
  /\ pc \in {"launch", "pid", "patch", "engine", "open", "travel", "world",
             "authority", "settings", "rekey", "report", "name", "watch", "exit"}
  /\ hold \in {"free", "held", "wait"}
  /\ patched \in 0 .. Patches /\ tries \in 0 .. MaxTries
  /\ final \in {"unset", "null", "front", "match"}
  /\ authority \in {"none", "null", "front", "match"}
  /\ guard \in BOOLEAN /\ pid \in BOOLEAN /\ ready \in BOOLEAN
  /\ proc \in {"absent", "suspended", "running", "dead"}
  /\ world \in World /\ pending \in BOOLEAN /\ settled \in BOOLEAN
  /\ calls \in Seq([op : {"Exec", "GetWorldInfo", "FName"},
                    on : {"unset", "null", "front", "match"}, awaited : BOOLEAN])
  /\ answer \in {"none", "done", "null", "front", "match"}
  /\ sock \in [n : 0 .. MaxResets + 1, key : {"none", "hard", "missed", "zero"}]

(* A client that is let in by SESSION_READY finds the match, with the      *)
(* settings of its room, on a fully patched AFDEV, and a guard on its key: *)
(* whatever timed out, was retried or was given up on the way.             *)
ReadyMeans ==
  ready => /\ patched = Patches /\ guard /\ settled
           /\ world = "match" /\ final = "match"

(* The game thread of AFDEV is not left suspended, unless the loader is    *)
(* terminated just then.                                                   *)
ThreadLetGo == hold = "held" ~> hold # "held" \/ pc = "exit"

(* A socket that AFDEV makes anew with its own key gets the clients' key.  *)
KeyRestored ==
  guard /\ sock.key \in Wrong ~> sock.key = "zero" \/ ~Alive \/ pc = "exit"

Protocol == INSTANCE LoaderProtocol WITH
  loader <- IF pc = "exit" THEN "gone" ELSE "running",
  afdev <- IF proc = "absent" THEN "off" ELSE IF proc = "dead" THEN "dead"
           ELSE IF ready THEN "ready" ELSE IF pid THEN "pid" ELSE "launched"

(* What the bridge relies on: pid, then SESSION_READY, each while the      *)
(* loader runs, and no AFDEV that ends before its pid is on record.        *)
ProtocolKept == Protocol!Spec

=============================================================================
