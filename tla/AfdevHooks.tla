----------------------------- MODULE AfdevHooks -----------------------------
(***************************************************************************)
(* AfdevLoader together with what AFDevLoader_v48 installs inside AFDEV:   *)
(* the hooks of LoadMap, of SetGameInfo and of its SpawnActor, which       *)
(* AFDEV's game thread runs through and the loader clears and reads from   *)
(* outside; the thread that keeps the synthetic host an observer; and the  *)
(* movement bridge.                                                        *)
(*                                                                         *)
(* The game thread of AfdevLoader is refined: loading a world is passing   *)
(* the hooked places one after the other.  Nothing synchronises it with    *)
(* the loader, which takes GEngine for the sign that AFDEV is up.          *)
(***************************************************************************)
EXTENDS AfdevLoader, ServerMove

VARIABLES
  marker,        \* the last of LoadMap's seven stages passed
  count,         \* calls of SetGameInfo
  spawn,         \* the cells that the SpawnActor wrapper writes
  game,          \* where the game thread is in loading its world
  cleared,       \* writes of reset_post_open_trace done
  told,          \* what the loader has reported of the traces
  host,          \* the synthetic player of GamePlayers[0]
  sight          \* the guard has read its flags and not yet written them

hookVars == <<marker, count, spawn, game, cleared, told, host, sight>>
hookedVars == <<vars, moveVars, hookVars>>

NoSpawn == [tracking |-> FALSE, ret |-> "null", of |-> "none",
            actor |-> "none", done |-> FALSE, reason |-> FALSE]
Untold == [calls |-> 0, spawn |-> "none", of |-> "none"]

HookInit ==
  /\ Init /\ MoveInit
  /\ marker = 0 /\ count = 0 /\ spawn = NoSpawn /\ game = "load"
  /\ cleared = 0 /\ told = Untold
  /\ host = "none" /\ sight = FALSE

-----------------------------------------------------------------------------
(* The game thread loads a world: the stages up to the call of SetGameInfo *)
(* and, once that is through, those up to the last.                        *)
Loads ==
  /\ Travels
  /\ \/ /\ world' \in {"front", "new"}
        /\ marker' = 3 /\ UNCHANGED game
     \/ /\ world = "front" /\ game = "done"
        /\ UNCHANGED <<marker, game>>
     \/ /\ world = "leaving"
        /\ marker' = 1 /\ game' = "load"
     \/ /\ world = "new" /\ game = "created"
        /\ marker' = 7 /\ game' = "done"
  /\ UNCHANGED <<moveVars, count, spawn, cleared, told, host, sight>>

FrontLoaded ==
  /\ Free /\ world = "front" /\ game \in {"created", "rejected"}
  /\ marker' = 7 /\ game' = "done"
  /\ UNCHANGED <<vars, moveVars, count, spawn, cleared, told, host, sight>>

(* The wrapper of the call of SetGameInfo.                                 *)
SetsGameInfo ==
  /\ Free /\ world \in {"front", "new"} /\ game = "load"
  /\ count' = count + 1 /\ game' = "info"
  /\ UNCHANGED <<vars, moveVars, marker, spawn, cleared, told, host, sight>>

(* The wrapper of SpawnActor keeps the return address in a cell and puts   *)
(* its own in the place.  What the last call returned stays in its cell.   *)
SpawnEnters ==
  /\ Free /\ game = "info"
  /\ spawn' = [spawn EXCEPT !.tracking = TRUE, !.ret = "home", !.of = world,
                            !.done = FALSE, !.reason = FALSE]
  /\ game' = "spawn"
  /\ UNCHANGED <<vars, moveVars, marker, count, cleared, told, host, sight>>

(* One of the seven failure branches, recorded while tracking.             *)
SpawnFails ==
  /\ Free /\ game = "spawn"
  /\ spawn' = [spawn EXCEPT !.reason = @ \/ spawn.tracking]
  /\ game' = "failed"
  /\ UNCHANGED <<vars, moveVars, marker, count, cleared, told, host, sight>>

(* The stub behind SpawnActor records the actor and goes back through the  *)
(* cell of the return address: if that has been cleared, AFDEV crashes.    *)
SpawnReturns ==
  /\ Free /\ game \in {"spawn", "failed"}
  /\ spawn' = [spawn EXCEPT !.tracking = FALSE, !.done = TRUE,
                            !.actor = IF game = "spawn" THEN "actor" ELSE "null"]
  /\ game' = IF game = "spawn" THEN "created" ELSE "rejected"
  /\ proc' = IF spawn.ret = "home" THEN proc ELSE "dead"
  /\ UNCHANGED <<loaderVars, world, pending, calls, answer, settled, sock>>
  /\ UNCHANGED <<moveVars, marker, count, cleared, told, host, sight>>

-----------------------------------------------------------------------------
(* Mutant: the traces are cleared once OPEN has been called.               *)
ClearsAfterOpen == "travel"

(* reset_post_open_trace_v41 comes before OPEN.                            *)
ClearsAt == "open"
Writes == 8

(* Its writes, one by one; one to an AFDEV that is gone ends the loader.   *)
Clears ==
  /\ pc = ClearsAt /\ hold = "free" /\ Alive /\ cleared < Writes
  /\ cleared' = cleared + 1
  /\ marker' = IF cleared = 0 THEN 0 ELSE marker
  /\ spawn' = CASE cleared = 1 -> [spawn EXCEPT !.tracking = FALSE]
                [] cleared = 2 -> [spawn EXCEPT !.ret = "null"]
                [] cleared = 3 -> [spawn EXCEPT !.of = "none"]
                [] cleared = 4 -> [spawn EXCEPT !.actor = "none"]
                [] cleared = 5 -> [spawn EXCEPT !.done = FALSE]
                [] cleared = 6 -> [spawn EXCEPT !.reason = FALSE]
                [] OTHER -> spawn
  /\ count' = IF cleared = 7 THEN 0 ELSE count
  /\ UNCHANGED <<vars, moveVars, game, told, host, sight>>

(* The reports of the two traces, one after the other, as soon as there    *)
(* is a world.                                                             *)
Reports ==
  /\ pc = "authority" /\ hold = "free" /\ Alive
  /\ \/ /\ told = Untold
        /\ told' = [calls |-> count, of |-> world, spawn |-> "none"]
     \/ /\ told # Untold /\ told.spawn = "none"
        /\ told' = [told EXCEPT !.spawn = IF spawn.done THEN spawn.actor ELSE "pending"]
  /\ UNCHANGED <<vars, moveVars, marker, count, spawn, game, cleared, host, sight>>

(* main() goes on as in AfdevLoader, once it is through with the traces.   *)
Drives ==
  /\ Step
  /\ Alive /\ pc = ClearsAt => cleared = Writes
  /\ Alive /\ pc = "authority" => told.spawn # "none"
  /\ UNCHANGED <<moveVars, hookVars>>

-----------------------------------------------------------------------------
(* AFDEV's own player: it appears with the match, its flags are rewritten  *)
(* now and then, and it goes.                                              *)
HostChanges ==
  /\ Free /\ world = "match"
  /\ host' \in {"none", "player"} \ {host}
  /\ UNCHANGED <<vars, moveVars, marker, count, spawn, game, cleared, told, sight>>

(* arm_pve_synthetic_host_observer_v24, started before OPEN, polls.        *)
Watching == Alive /\ pc \notin {"launch", "pid", "patch", "engine", "exit"}

HostSeen ==
  /\ Watching /\ ~sight /\ host = "player"
  /\ sight' = TRUE
  /\ UNCHANGED <<vars, moveVars, marker, count, spawn, game, cleared, told, host>>

(* The flags just read are written back with bAlwaysObserver, even if the  *)
(* player they belong to is gone.                                          *)
HostObserves ==
  /\ Watching /\ sight
  /\ sight' = FALSE
  /\ host' = IF host = "none" THEN "none" ELSE "observer"
  /\ UNCHANGED <<vars, moveVars, marker, count, spawn, game, cleared, told>>

-----------------------------------------------------------------------------
(* Clients are let in by SESSION_READY; their moves are handled on the     *)
(* game thread.                                                            *)
Plays ==
  /\ ready /\ Free /\ world = "match"
  /\ MoveNext
  /\ UNCHANGED <<vars, hookVars>>

Others ==
  /\ Guard \/ Killed \/ RunCall \/ SocketAnew \/ Dies
  /\ UNCHANGED <<moveVars, hookVars>>

Loader == Drives \/ Clears \/ Reports

HookNext ==
  \/ Loader \/ Others
  \/ Loads \/ FrontLoaded \/ SetsGameInfo \/ SpawnEnters \/ SpawnFails \/ SpawnReturns
  \/ HostChanges \/ HostSeen \/ HostObserves
  \/ Plays

HookSpec == HookInit /\ [][HookNext]_hookedVars

(* As in AfdevLoader; the observer guard polls every 5 to 10 ms.           *)
HookFairSpec ==
  /\ HookSpec
  /\ WF_hookedVars(Loader) /\ WF_hookedVars(Guard /\ UNCHANGED <<moveVars, hookVars>>)
  /\ WF_hookedVars(HostSeen \/ HostObserves)

-----------------------------------------------------------------------------
(* Clearing the traces from outside, while the game thread runs through    *)
(* the hooks, loses nothing of the match: when it has loaded, its call of  *)
(* SetGameInfo, its actor and its last stage are there; and the loader     *)
(* does not report that SetGameInfo was never called once it has been.     *)
MatchIsTraced ==
  /\ world = "match" =>
       /\ count >= 1 /\ marker = 7
       /\ spawn.done /\ spawn.of = "new" /\ spawn.actor = "actor"
  /\ told.of = "match" => told.calls >= 1 /\ told.spawn \in {"none", "actor"}

(* What AFDEV may undo at any time is put right again, as often as it      *)
(* happens: the key of a socket made anew, and the flag that keeps a       *)
(* synthetic player from starting the match in place of the real ones.     *)
GuardsHold ==
  /\ KeyRestored
  /\ host = "player" ~> host # "player" \/ ~Alive \/ pc = "exit"
=============================================================================
