----------------------------- MODULE ServerMove -----------------------------
(***************************************************************************)
(* The movement bridge that AFDevLoader_v48 puts behind the two stripped   *)
(* ServerMove entries of AFDEV's player controller, and the moves a client *)
(* sends to them.                                                          *)
(*                                                                         *)
(* A move carries the client's time; the bridge lets AFDEV's own physics   *)
(* go on for the time since the move before it and then calls AFDEV's      *)
(* correction.  Moves are sent unreliably, under either entry: one that    *)
(* has been sent may arrive at any time, more than once or never.  Time is *)
(* counted in moves; acceleration, view and position are left out.         *)
(***************************************************************************)
EXTENDS Naturals

CONSTANTS
  MaxStamp,      \* bound: how many moves the client makes
  MaxResponse    \* MaxResponseTime: the longest time simulated for one move

ASSUME MoveAssumption == MaxStamp \in Nat /\ MaxResponse \in Nat

VARIABLES
  clock,         \* TimeStamp of the client's last move
  pawn,          \* the controller has a Pawn
  stamp,         \* CurrentTimeStamp of the controller
  simulated,     \* the time that MoveAutonomous has been given in all
  corrected      \* the moves handed to the correction, with their number

moveVars == <<clock, pawn, stamp, simulated, corrected>>

Stamp == 1 .. MaxStamp

MoveInit ==
  /\ clock = 0 /\ pawn \in BOOLEAN
  /\ stamp = 0 /\ simulated = 0
  /\ corrected = [m \in Stamp |-> 0]

-----------------------------------------------------------------------------
(* The client moves on, whatever the server thinks of its last moves.      *)
ClientMoves ==
  /\ clock < MaxStamp
  /\ clock' = clock + 1
  /\ UNCHANGED <<pawn, stamp, simulated, corrected>>

(* The pawn dies, or is spawned.                                           *)
PawnChanges ==
  /\ pawn' = ~pawn
  /\ UNCHANGED <<clock, stamp, simulated, corrected>>

(* Mutant: a move with the time of the last one passes.                    *)
NewerOrSame(m) == m >= stamp

(* comiss CurrentTimeStamp, TimeStamp; jae done.                           *)
Newer(m) == m > stamp

(* DeltaTime, not longer than MaxResponseTime.                             *)
Delta(m) == IF m - stamp > MaxResponse THEN MaxResponse ELSE m - stamp

(* With a pawn and a newer time: the time is taken over, the physics run   *)
(* for DeltaTime if it is positive, and the correction is called.          *)
Moves(m) ==
  /\ pawn /\ Newer(m)
  /\ stamp' = m
  /\ simulated' = IF m > stamp THEN simulated + Delta(m) ELSE simulated
  /\ corrected' = [corrected EXCEPT ![m] = @ + 1]

(* Everything else is dropped without a trace.                             *)
Ignores(m) ==
  /\ ~(pawn /\ Newer(m))
  /\ UNCHANGED <<stamp, simulated, corrected>>

(* A move that was sent arrives.                                           *)
MoveArrives ==
  \E m \in 1 .. clock :
    /\ Moves(m) \/ Ignores(m)
    /\ UNCHANGED <<clock, pawn>>

MoveNext == ClientMoves \/ PawnChanges \/ MoveArrives

MoveSpec == MoveInit /\ [][MoveNext]_moveVars

-----------------------------------------------------------------------------
(* A client never gets more time simulated than has passed on its own      *)
(* clock, and no move is corrected twice, through whatever losses, copies  *)
(* and changes of order.                                                   *)
MovedOnce ==
  /\ simulated <= stamp /\ stamp <= clock
  /\ \A m \in Stamp : corrected[m] <= 1
=============================================================================
