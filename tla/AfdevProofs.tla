----------------------------- MODULE AfdevProofs -----------------------------
(***************************************************************************)
(* What the loader and the hooks it puts into AFDEV keep to, for any       *)
(* number of attempts, socket resets, moves and sockets, and any           *)
(* MaxResponseTime.                                                        *)
(*                                                                         *)
(* SESSION_READY follows from what the loader did many steps earlier while *)
(* AFDEV went on: that the world it holds is the match's follows from what *)
(* a call on AFDEV's game thread answered, which has to be the call that   *)
(* was made last and not one given up before.  So the inductive invariant  *)
(* also says which call is awaited, and how far the stages of the loader   *)
(* have brought AFDEV.                                                     *)
(*                                                                         *)
(* Moves: what was corrected is not newer than CurrentTimeStamp, so it     *)
(* never passes the gate again, and what is simulated for a move is no     *)
(* more than the distance by which the time stamp goes forward.            *)
(*                                                                         *)
(* Traces: as long as they are not cleared altogether nothing of OPEN is   *)
(* under way (Unopened), so AFDEV is not past the frontend; from there on  *)
(* the cells say how far the game thread is with the match (Traced).       *)
(***************************************************************************)
EXTENDS AfdevHooks, TLAPS, SequenceTheorems

Call == [op : {"Exec", "GetWorldInfo", "FName"},
         on : {"unset", "null", "front", "match"}, awaited : BOOLEAN]

Early == {"launch", "pid", "patch", "engine", "open", "travel", "world"}

(* How far AFDEV and its pid file are at each stage of the loader.         *)
Stages ==
  /\ pc = "launch" => proc = "absent"
  /\ proc = "absent" => pc \in {"launch", "exit"} /\ ~pid /\ ~ready
  /\ pc = "pid" => proc = "suspended" /\ ~pid
  /\ pc = "patch" => proc = "suspended"
  /\ pc \notin {"launch", "pid", "exit"} => pid
  /\ proc \in {"running", "dead"} => pid
  /\ ready => pid
  /\ pc \notin {"launch", "pid", "patch", "exit"} => patched = Patches
  /\ hold # "free" => pc \in DOMAIN Calls \cup {"exit"}

(* What the loader knows of the world is so.                               *)
Knows ==
  /\ pc \in Early => authority = "none" /\ ~settled
  /\ pc \in Early \cup {"authority", "settings", "rekey"} => ~guard /\ ~ready
  /\ authority = "match" => world = "match" /\ final = "match"
  /\ settled => world = "match" /\ final = "match"
  /\ pc \in {"rekey", "report", "name"} => settled
  /\ pc \in {"report", "name"} => guard
  /\ guard => settled /\ patched = Patches
  /\ ready => guard /\ pc \in {"name", "watch", "exit"}

(* The call that is awaited is the one made last, and about the world the  *)
(* loader holds; once it is answered, none is.                             *)
AwaitedLast ==
  /\ \A i \in DOMAIN calls : calls[i].awaited =>
       /\ i = 1
       /\ pc # "exit" => /\ pc \in DOMAIN Calls /\ hold = "wait" /\ answer = "none"
                         /\ calls[i].op = Calls[pc] /\ calls[i].on = final
  /\ pc = "authority" /\ hold = "wait" => answer \in {"none", "null", final}

LoaderInv == TypeOK /\ Stages /\ Knows /\ AwaitedLast

(* What stays when AFDEV's queue of calls and the answer do.               *)
Steps == {"launch", "pid", "patch", "engine", "open", "travel", "world",
          "authority", "settings", "rekey", "report", "name", "watch", "exit"}

LEMMA Constants ==
  /\ DOMAIN Calls = {"open", "authority", "settings", "name"}
  /\ Calls["authority"] = "GetWorldInfo"
  /\ \A s \in DOMAIN Calls : Calls[s] \in {"Exec", "GetWorldInfo", "FName"}
  /\ MaxTries \in Nat /\ MaxResets \in Nat /\ Patches = 9
BY LoaderAssumption DEF Calls, Patches

LEMMA InitOK == Init => LoaderInv
<1> SUFFICES ASSUME Init PROVE LoaderInv
  OBVIOUS
<1> USE Constants DEF Init
<1>1. TypeOK
  <2>1. <<>> \in Seq(Call)
    OBVIOUS
  <2>2. NoSocket \in [n : 0 .. MaxResets + 1, key : {"none", "hard", "missed", "zero"}]
    BY DEF NoSocket
  <2>3. "boot" \in World /\ patched = 0 /\ 0 \in 0 .. Patches /\ 0 \in 0 .. MaxTries
    BY DEF World
  <2> QED BY <2>1, <2>2, <2>3 DEF TypeOK, Call
<1>2. Stages
  BY DEF Stages
<1>3. Knows
  BY DEF Knows, Early
<1>4. AwaitedLast
  BY DEF AwaitedLast
<1> QED BY <1>1, <1>2, <1>3, <1>4 DEF LoaderInv

(* The loader goes on to another stage that awaits no call, or ends, and   *)
(* AFDEV is left alone.                                                    *)
LEMMA GotoKeeps ==
  ASSUME LoaderInv, NEW s \in Steps, Goto(s), UNCHANGED afdevVars,
         s = "exit" \/ pc \notin DOMAIN Calls,
         s = "exit" \/ <<pc, s>> \in {<<"engine", "open">>, <<"travel", "world">>,
                                      <<"travel", "watch">>}
  PROVE  LoaderInv'
<1> USE Constants DEF LoaderInv, Goto, afdevVars
<1>1. TypeOK'
  BY DEF TypeOK, Steps
<1>2. Stages'
  BY DEF Stages
<1>3. Knows'
  BY DEF Knows, Early
<1>4. AwaitedLast'
  BY DEF AwaitedLast
<1> QED BY <1>1, <1>2, <1>3, <1>4

LEMMA LaunchKeeps == LoaderInv /\ Launch => LoaderInv'
<1> SUFFICES ASSUME LoaderInv, Launch PROVE LoaderInv'
  OBVIOUS
<1>1. CASE Goto("exit") /\ UNCHANGED afdevVars
  BY <1>1, GotoKeeps DEF Steps
<1>2. CASE /\ Goto("pid") /\ proc' = "suspended"
           /\ UNCHANGED <<world, pending, calls, answer, settled, sock>>
  <2> USE <1>2, Constants DEF LoaderInv, Launch, Goto
  <2>1. TypeOK'
    <3>1. pc' = "pid" /\ proc' = "suspended"
      OBVIOUS
    <3>2. UNCHANGED <<hold, patched, final, authority, tries, guard, pid, ready,
                      world, pending, calls, answer, settled, sock>>
      OBVIOUS
    <3> QED BY <3>1, <3>2 DEF TypeOK
  <2>2. Stages'
    BY DEF Stages
  <2>3. Knows'
    BY DEF Knows, Early
  <2>4. AwaitedLast'
    BY DEF AwaitedLast
  <2> QED BY <2>1, <2>2, <2>3, <2>4
<1> QED BY <1>1, <1>2 DEF Launch

LEMMA WritePidKeeps == LoaderInv /\ WritePid => LoaderInv'
<1> SUFFICES ASSUME LoaderInv, WritePid PROVE LoaderInv'
  OBVIOUS
<1>1. CASE Goto("exit")
  BY <1>1, GotoKeeps DEF Steps, WritePid
<1>2. CASE /\ pc' = "patch" /\ pid' = TRUE /\ ready' = FALSE
           /\ UNCHANGED <<hold, patched, final, authority, tries, guard>>
  <2>0. UNCHANGED afdevVars
    BY DEF WritePid
  <2> USE <1>2, <2>0, Constants DEF LoaderInv, afdevVars
  <2>1. TypeOK'
    <3>1. pc' = "patch" /\ pid' \in BOOLEAN /\ ready' \in BOOLEAN
      OBVIOUS
    <3>2. UNCHANGED <<hold, patched, final, authority, tries, guard, proc, world,
                      pending, calls, answer, settled, sock>>
      OBVIOUS
    <3> HIDE <1>2
    <3> QED BY <3>1, <3>2 DEF TypeOK
  <2>2. Stages'
    BY DEF Stages, WritePid
  <2>3. Knows'
    BY DEF Knows, Early, WritePid
  <2>4. AwaitedLast'
    BY DEF AwaitedLast, WritePid
  <2> QED BY <2>1, <2>2, <2>3, <2>4
<1> QED BY <1>1, <1>2 DEF WritePid

LEMMA InstallsKeeps ==
  ASSUME LoaderInv, NEW k \in 0 .. 8, Installs(k) PROVE LoaderInv'
<1> USE Constants DEF LoaderInv, Installs
<1>1. TypeOK'
  BY DEF TypeOK
<1>2. Stages'
  BY DEF Stages
<1>3. Knows'
  BY DEF Knows, Early
<1>4. AwaitedLast'
  BY DEF AwaitedLast
<1> QED BY <1>1, <1>2, <1>3, <1>4

LEMMA ResumeKeeps == LoaderInv /\ Resume => LoaderInv'
<1> SUFFICES ASSUME LoaderInv, Resume PROVE LoaderInv'
  OBVIOUS
<1> USE Constants DEF LoaderInv, Resume, Goto
<1>1. TypeOK'
  BY DEF TypeOK
<1>2. Stages'
  BY DEF Stages
<1>3. Knows'
  BY DEF Knows, Early
<1>4. AwaitedLast'
  BY DEF AwaitedLast
<1> QED BY <1>1, <1>2, <1>3, <1>4

LEMMA AwaitEngineKeeps == LoaderInv /\ AwaitEngine => LoaderInv'
BY GotoKeeps, Constants DEF AwaitEngine, Steps

LEMMA TravelKeeps == LoaderInv /\ Travel => LoaderInv'
BY GotoKeeps, Constants DEF Travel, Steps

LEMMA LeaveKeeps == LoaderInv /\ Leave => LoaderInv'
BY GotoKeeps DEF Leave, Steps

LEMMA KilledKeeps == LoaderInv /\ Killed => LoaderInv'
BY GotoKeeps DEF Killed, Steps

LEMMA HoldKeeps == LoaderInv /\ Hold => LoaderInv'
<1> SUFFICES ASSUME LoaderInv, Hold PROVE LoaderInv'
  OBVIOUS
<1> USE Constants DEF LoaderInv, Hold, afdevVars, Alive
<1>1. TypeOK'
  BY DEF TypeOK
<1>2. Stages'
  BY DEF Stages
<1>3. Knows'
  BY DEF Knows, Early
<1>4. AwaitedLast'
  BY DEF AwaitedLast
<1> QED BY <1>1, <1>2, <1>3, <1>4

(* A new call is put before those given up: it alone is awaited.           *)
LEMMA RedirectKeeps == LoaderInv /\ Redirect => LoaderInv'
<1> SUFFICES ASSUME LoaderInv, Redirect PROVE LoaderInv'
  OBVIOUS
<1> DEFINE new == [op |-> Calls[pc], on |-> final, awaited |-> TRUE]
<1> USE Constants DEF LoaderInv, Redirect, Alive
<1>1. calls \in Seq(Call) /\ new \in Call /\ calls' = <<new>> \o calls
  BY DEF TypeOK, Call
<1>2. calls' \in Seq(Call)
  BY <1>1
<1>3. \A i \in DOMAIN calls : ~calls[i].awaited
  BY DEF AwaitedLast
<1>4. \A i \in DOMAIN calls' : i = 1 \/ (i > 1 /\ i - 1 \in DOMAIN calls /\ calls'[i] = calls[i - 1])
  BY <1>1
<1>5. calls'[1] = new
  BY <1>1
<1>6. TypeOK'
  BY <1>2 DEF TypeOK, Call
<1>7. Stages'
  BY DEF Stages
<1>8. Knows'
  BY DEF Knows, Early
<1>9. AwaitedLast'
  BY <1>3, <1>4, <1>5 DEF AwaitedLast
<1> QED BY <1>6, <1>7, <1>8, <1>9

LEMMA AbandonedNone ==
  ASSUME TypeOK
  PROVE  /\ Abandoned \in Seq(Call) /\ DOMAIN Abandoned = DOMAIN calls
         /\ \A i \in DOMAIN Abandoned : ~Abandoned[i].awaited
<1>1. calls \in Seq(Call)
  BY DEF TypeOK, Call
<1>2. ASSUME NEW i \in DOMAIN calls
      PROVE  /\ [calls[i] EXCEPT !.awaited = FALSE] \in Call
             /\ [calls[i] EXCEPT !.awaited = FALSE].awaited = FALSE
  <2>1. calls[i] \in Call
    BY <1>1
  <2>2. ASSUME NEW c \in Call
        PROVE  /\ [c EXCEPT !.awaited = FALSE] \in Call
               /\ [c EXCEPT !.awaited = FALSE].awaited = FALSE
    BY DEF Call
  <2> QED BY <2>1, <2>2
<1>3. DOMAIN calls = 1 .. Len(calls) /\ Len(calls) \in Nat
  BY <1>1
<1>4. Abandoned = [i \in 1 .. Len(calls) |-> [calls[i] EXCEPT !.awaited = FALSE]]
  BY <1>3 DEF Abandoned
<1>5. Abandoned \in Seq(Call)
  BY <1>2, <1>3, <1>4, IsASeq
<1> QED BY <1>2, <1>3, <1>4, <1>5

(* A call that fails is given up; then no call is awaited.                 *)
LEMMA CallFailsKeeps == LoaderInv /\ CallFails => LoaderInv'
<1> SUFFICES ASSUME LoaderInv, CallFails PROVE LoaderInv'
  OBVIOUS
<1> USE Constants DEF LoaderInv, CallFails
<1>1. /\ calls' \in Seq(Call)
      /\ \A i \in DOMAIN calls' : ~calls'[i].awaited
  BY AbandonedNone
<1>2. /\ pc' \in {"exit", "settings", "authority", "watch"}
      /\ tries' \in 0 .. MaxTries /\ authority' \in {"none", authority}
      /\ pc' \in {"settings", "authority"} => pc \in {"settings", "authority"}
      /\ pc' = "watch" => pc = "name"
  <2>1. pc \in {"open", "authority", "settings", "name"} /\ tries \in 0 .. MaxTries
    BY DEF TypeOK
  <2>2. CASE pc = "open"
    BY <2>1, <2>2
  <2>3. CASE pc = "authority"
    BY <2>1, <2>3
  <2>4. CASE pc = "settings"
    <3>1. AfterFailure /\ UNCHANGED authority
      BY <2>4
    <3> QED BY <2>1, <2>4, <3>1 DEF AfterFailure
  <2>5. CASE pc = "name"
    BY <2>1, <2>5
  <2> QED BY <2>1, <2>2, <2>3, <2>4, <2>5
<1>3. TypeOK'
  BY <1>1, <1>2 DEF TypeOK, Call
<1>4. Stages'
  BY <1>2 DEF Stages
<1>5. Knows'
  BY <1>2 DEF Knows, Early
<1>6. AwaitedLast'
  BY <1>1 DEF AwaitedLast
<1> QED BY <1>3, <1>4, <1>5, <1>6

LEMMA OpenedKeeps == LoaderInv /\ Opened => LoaderInv'
<1> SUFFICES ASSUME LoaderInv, Opened PROVE LoaderInv'
  OBVIOUS
<1> USE Constants DEF LoaderInv, Opened, Returned, Alive, afdevVars
<1>1. TypeOK'
  BY DEF TypeOK
<1>2. Stages'
  BY DEF Stages
<1>3. Knows'
  BY DEF Knows, Early
<1>4. AwaitedLast'
  BY DEF AwaitedLast
<1> QED BY <1>1, <1>2, <1>3, <1>4

LEMMA TakeWorldKeeps == LoaderInv /\ TakeWorld => LoaderInv'
<1> SUFFICES ASSUME LoaderInv, TakeWorld PROVE LoaderInv'
  OBVIOUS
<1> USE Constants DEF LoaderInv, TakeWorld, GWorld, afdevVars
<1>1. TypeOK'
  BY DEF TypeOK
<1>2. Stages'
  BY DEF Stages
<1>3. Knows'
  BY DEF Knows, Early
<1>4. AwaitedLast'
  BY DEF AwaitedLast, Stages
<1> QED BY <1>1, <1>2, <1>3, <1>4

LEMMA InspectedKeeps == LoaderInv /\ Inspected => LoaderInv'
<1> SUFFICES ASSUME LoaderInv, Inspected PROVE LoaderInv'
  OBVIOUS
<1> USE Constants DEF LoaderInv, Inspected, Returned, Alive, GWorld, afdevVars
<1>1. TypeOK'
  BY DEF TypeOK
<1>2. Stages'
  BY DEF Stages
<1>3. Knows'
  BY DEF Knows, Early, AwaitedLast, TypeOK, World
<1>4. AwaitedLast'
  BY DEF AwaitedLast
<1> QED BY <1>1, <1>2, <1>3, <1>4

LEMMA NotInspectedKeeps == LoaderInv /\ NotInspected => LoaderInv'
<1> SUFFICES ASSUME LoaderInv, NotInspected PROVE LoaderInv'
  OBVIOUS
<1> USE Constants DEF LoaderInv, NotInspected, Alive, afdevVars
<1>1. TypeOK'
  BY DEF TypeOK
<1>2. Stages'
  BY DEF Stages
<1>3. Knows'
  BY DEF Knows, Early
<1>4. AwaitedLast'
  BY DEF AwaitedLast
<1> QED BY <1>1, <1>2, <1>3, <1>4

LEMMA SettleKeeps == LoaderInv /\ Settle => LoaderInv'
<1> SUFFICES ASSUME LoaderInv, Settle PROVE LoaderInv'
  OBVIOUS
<1> USE Constants DEF LoaderInv, Settle, Returned, Alive
<1>1. TypeOK'
  BY DEF TypeOK
<1>2. Stages'
  BY DEF Stages
<1>3. Knows'
  BY DEF Knows, Early
<1>4. AwaitedLast'
  BY DEF AwaitedLast
<1> QED BY <1>1, <1>2, <1>3, <1>4

LEMMA NotSettledKeeps == LoaderInv /\ NotSettled => LoaderInv'
<1> SUFFICES ASSUME LoaderInv, NotSettled PROVE LoaderInv'
  OBVIOUS
<1> USE Constants DEF LoaderInv, NotSettled, Returned, Alive, AfterFailure, afdevVars
<1>1. TypeOK'
  BY DEF TypeOK
<1>2. Stages'
  BY DEF Stages
<1>3. Knows'
  BY DEF Knows, Early
<1>4. AwaitedLast'
  BY DEF AwaitedLast
<1> QED BY <1>1, <1>2, <1>3, <1>4

LEMMA RekeyKeeps == LoaderInv /\ Rekey => LoaderInv'
<1> SUFFICES ASSUME LoaderInv, Rekey PROVE LoaderInv'
  OBVIOUS
<1> USE Constants DEF LoaderInv, Rekey, Goto, Rekeyed, Alive
<1>1. TypeOK'
  <2>1. sock' \in [n : 0 .. MaxResets + 1, key : {"none", "hard", "missed", "zero"}]
    BY DEF TypeOK
  <2>2. pc' \in {"exit", "report"} /\ guard' \in BOOLEAN
    BY DEF TypeOK
  <2>3. UNCHANGED <<hold, patched, final, authority, tries, pid, ready,
                    proc, world, pending, calls, answer, settled>>
    OBVIOUS
  <2> QED BY <2>1, <2>2, <2>3 DEF TypeOK
<1>2. Stages'
  BY DEF Stages
<1>3. Knows'
  <2>1. CASE pc' = "exit" /\ UNCHANGED guard
    BY <2>1 DEF Knows, Early, Stages
  <2>2. CASE pc' = "report" /\ guard' = TRUE
    BY <2>2 DEF Knows, Early, Stages
  <2> QED BY <2>1, <2>2
<1>4. AwaitedLast'
  BY DEF AwaitedLast
<1> QED BY <1>1, <1>2, <1>3, <1>4

LEMMA GuardKeeps == LoaderInv /\ Guard => LoaderInv'
<1> SUFFICES ASSUME LoaderInv, Guard PROVE LoaderInv'
  OBVIOUS
<1> USE Constants DEF LoaderInv, Guard, Rekeyed, Wrong, Alive, loaderVars
<1>1. TypeOK'
  BY DEF TypeOK
<1>2. Stages'
  BY DEF Stages
<1>3. Knows'
  BY DEF Knows, Early
<1>4. AwaitedLast'
  BY DEF AwaitedLast
<1> QED BY <1>1, <1>2, <1>3, <1>4

LEMMA ReportKeeps == LoaderInv /\ Report => LoaderInv'
<1> SUFFICES ASSUME LoaderInv, Report PROVE LoaderInv'
  OBVIOUS
<1> USE Constants DEF LoaderInv, Report, Goto, afdevVars
<1>1. TypeOK'
  <2>1. pc' \in {"exit", "name"} /\ ready' \in BOOLEAN
    BY DEF TypeOK
  <2>2. UNCHANGED <<hold, patched, final, authority, tries, guard, pid, afdevVars>>
    OBVIOUS
  <2> QED BY <2>1, <2>2 DEF TypeOK
<1>2. Stages'
  BY DEF Stages
<1>3. Knows'
  BY DEF Knows, Early
<1>4. AwaitedLast'
  BY DEF AwaitedLast
<1> QED BY <1>1, <1>2, <1>3, <1>4

LEMMA NamedKeeps == LoaderInv /\ Named => LoaderInv'
<1> SUFFICES ASSUME LoaderInv, Named PROVE LoaderInv'
  OBVIOUS
<1> USE Constants DEF LoaderInv, Named, Returned, Alive, afdevVars
<1>1. TypeOK'
  BY DEF TypeOK
<1>2. Stages'
  BY DEF Stages
<1>3. Knows'
  BY DEF Knows, Early
<1>4. AwaitedLast'
  BY DEF AwaitedLast
<1> QED BY <1>1, <1>2, <1>3, <1>4

LEMMA TravelsKeeps == LoaderInv /\ Travels => LoaderInv'
<1> SUFFICES ASSUME LoaderInv, Travels PROVE LoaderInv'
  OBVIOUS
<1> USE Constants DEF LoaderInv, Travels, Free, Alive, World, loaderVars
<1>1. TypeOK'
  <2>1. sock' \in [n : 0 .. MaxResets + 1, key : {"none", "hard", "missed", "zero"}]
    BY DEF TypeOK
  <2>2. world' \in World /\ pending' \in BOOLEAN
    BY DEF TypeOK
  <2>3. UNCHANGED <<loaderVars, proc, calls, answer, settled>>
    OBVIOUS
  <2> QED BY <2>1, <2>2, <2>3 DEF TypeOK
<1>2. Stages'
  BY DEF Stages
<1>3. Knows'
  BY DEF Knows, Early
<1>4. AwaitedLast'
  BY DEF AwaitedLast
<1> QED BY <1>1, <1>2, <1>3, <1>4

LEMMA SocketAnewKeeps == LoaderInv /\ SocketAnew => LoaderInv'
<1> SUFFICES ASSUME LoaderInv, SocketAnew PROVE LoaderInv'
  OBVIOUS
<1> USE Constants DEF LoaderInv, SocketAnew, Free, Alive, loaderVars
<1>1. TypeOK'
  BY DEF TypeOK
<1>2. Stages'
  BY DEF Stages
<1>3. Knows'
  BY DEF Knows, Early
<1>4. AwaitedLast'
  BY DEF AwaitedLast
<1> QED BY <1>1, <1>2, <1>3, <1>4

LEMMA DiesKeeps == LoaderInv /\ Dies => LoaderInv'
<1> SUFFICES ASSUME LoaderInv, Dies PROVE LoaderInv'
  OBVIOUS
<1> USE Constants DEF LoaderInv, Dies, Alive, loaderVars
<1>1. TypeOK'
  BY DEF TypeOK
<1>2. Stages'
  BY DEF Stages
<1>3. Knows'
  BY DEF Knows, Early
<1>4. AwaitedLast'
  BY DEF AwaitedLast
<1> QED BY <1>1, <1>2, <1>3, <1>4

(* The game thread runs the call made last; what it answers to an awaited  *)
(* GetWorldInfo is the world the call was about, or nonsense.              *)
LEMMA RunCallKeeps == LoaderInv /\ RunCall => LoaderInv'
<1> SUFFICES ASSUME LoaderInv, RunCall PROVE LoaderInv'
  OBVIOUS
<1> DEFINE c == Head(calls)
           value == IF c.op # "GetWorldInfo" THEN "done"
                    ELSE IF c.on = GWorld THEN c.on ELSE "null"
<1>1. calls \in Seq(Call) /\ calls # <<>>
  BY DEF LoaderInv, TypeOK, Call, RunCall
<1>2. /\ c \in Call /\ c = calls[1] /\ 1 \in DOMAIN calls
      /\ Tail(calls) \in Seq(Call)
      /\ \A i \in DOMAIN Tail(calls) : i + 1 \in DOMAIN calls /\ i + 1 # 1
                                        /\ Tail(calls)[i] = calls[i + 1]
  BY <1>1
<1>3. value \in {"done", "null", "front", "match"} \cup {c.on}
  BY DEF GWorld
<1>4. /\ calls' = Tail(calls) /\ answer' = IF c.awaited THEN value ELSE answer
      /\ pending' = (pending \/ c.op = "Exec") /\ Alive /\ hold # "held"
      /\ proc' \in {"running", "dead"}
      /\ UNCHANGED <<loaderVars, world, settled, sock>>
  BY DEF RunCall, Alive
<1> USE Constants DEF LoaderInv, Alive, loaderVars
<1>5. c.awaited /\ c.op # "GetWorldInfo" => value = "done"
  OBVIOUS
<1>6. c.op = "GetWorldInfo" => value \in {"null", c.on}
  OBVIOUS
<1>7. c.on = "unset" => value \in {"done", "null"}
  BY DEF GWorld
<1>8. value \in {"done", "null", "front", "match"}
  BY <1>2, <1>3, <1>7 DEF Call
<1> HIDE DEF c, value
<1>9. TypeOK'
  <2>1. answer' \in {"none", "done", "null", "front", "match"}
    BY <1>4, <1>8 DEF TypeOK
  <2>2. pending' \in BOOLEAN
    BY <1>4 DEF TypeOK
  <2> QED BY <1>2, <1>4, <2>1, <2>2 DEF TypeOK, Call
<1>10. Stages'
  BY <1>4 DEF Stages
<1>11. Knows'
  BY <1>4 DEF Knows, Early
<1>12. AwaitedLast'
  <2>1. \A i \in DOMAIN calls' : ~calls'[i].awaited
    BY <1>2, <1>4 DEF AwaitedLast
  <2>2. pc = "authority" /\ hold = "wait" => answer' \in {"none", "null", final}
    BY <1>2, <1>4, <1>6 DEF AwaitedLast
  <2> QED BY <1>4, <2>1, <2>2 DEF AwaitedLast
<1> QED BY <1>9, <1>10, <1>11, <1>12

LEMMA StutterKeeps == LoaderInv /\ UNCHANGED vars => LoaderInv'
BY DEF LoaderInv, TypeOK, Stages, Knows, AwaitedLast, vars, loaderVars, afdevVars

LEMMA PatchesKeep ==
  LoaderInv /\ (BytesPatched \/ MutexIsolated \/ MovementBridged \/ StagesHooked
                  \/ SpawnTraced \/ GameInfoTraced) => LoaderInv'
BY InstallsKeeps DEF BytesPatched, MutexIsolated, MovementBridged, StagesHooked,
   SpawnTraced, GameInfoTraced

LEMMA NextKeeps == LoaderInv /\ [Next]_vars => LoaderInv'
<1> SUFFICES ASSUME LoaderInv, [Next]_vars PROVE LoaderInv'
  OBVIOUS
<1>1. CASE Step
  BY <1>1, LaunchKeeps, WritePidKeeps, PatchesKeep, ResumeKeeps, AwaitEngineKeeps,
     HoldKeeps, RedirectKeeps, CallFailsKeeps, OpenedKeeps, TravelKeeps,
     TakeWorldKeeps, InspectedKeeps, NotInspectedKeeps, SettleKeeps,
     NotSettledKeeps, RekeyKeeps, ReportKeeps, NamedKeeps, LeaveKeeps DEF Step
<1>2. CASE Guard
  BY <1>2, GuardKeeps
<1>3. CASE Killed
  BY <1>3, KilledKeeps
<1>4. CASE Afdev
  BY <1>4, RunCallKeeps, TravelsKeeps, SocketAnewKeeps, DiesKeeps DEF Afdev
<1>5. CASE UNCHANGED vars
  BY <1>5, StutterKeeps
<1> QED BY <1>1, <1>2, <1>3, <1>4, <1>5 DEF Next

(* The inductive invariant holds in every reachable state, for every       *)
(* number of attempts and of socket resets.                                *)
THEOREM LoaderInvariant == Spec => []LoaderInv
BY InitOK, NextKeeps, PTL DEF Spec

(* The loader's and AFDEV's variables keep their types.                    *)
THEOREM LoaderTypeCorrect == Spec => []TypeOK
BY LoaderInvariant, PTL DEF LoaderInv

(* SESSION_READY means the match, its settings, every patch and the guard. *)
THEOREM ReadyAlwaysMeans == Spec => []ReadyMeans
<1>1. LoaderInv => ReadyMeans
  BY DEF LoaderInv, Knows, ReadyMeans
<1> QED BY <1>1, LoaderInvariant, PTL

-----------------------------------------------------------------------------
(* What the bridge sees of a state, as Protocol's substitution has it.     *)
LoaderSeen == IF pc = "exit" THEN "gone" ELSE "running"
AfdevSeen == IF proc = "absent" THEN "off" ELSE IF proc = "dead" THEN "dead"
             ELSE IF ready THEN "ready" ELSE IF pid THEN "pid" ELSE "launched"

(* All that a step may do to what the bridge sees: nothing but the loader's *)
(* end, one stage further, or the end of an AFDEV whose pid is written.    *)
NothingSeen ==
  /\ UNCHANGED <<proc, pid, ready>>
  /\ pc = "exit" => pc' = "exit"
Launched ==
  pc = "launch" /\ pc' = "pid" /\ proc' = "suspended" /\ UNCHANGED <<pid, ready>>
PidWritten ==
  pc = "pid" /\ pc' = "patch" /\ pid' /\ ~ready' /\ UNCHANGED proc
Resumed ==
  pc = "patch" /\ pc' = "engine" /\ proc' = "running" /\ UNCHANGED <<pid, ready>>
Reported ==
  pc = "report" /\ pc' = "name" /\ ready' /\ UNCHANGED <<proc, pid>>
Died ==
  /\ proc \in {"suspended", "running"} /\ pid /\ proc' = "dead" /\ UNCHANGED <<pid, ready>>
  /\ pc = "exit" => pc' = "exit"

LEMMA SeenShapes ==
  LoaderInv /\ [Next]_vars =>
    NothingSeen \/ Launched \/ PidWritten \/ Resumed \/ Reported \/ Died
<1> SUFFICES ASSUME LoaderInv, [Next]_vars
             PROVE  NothingSeen \/ Launched \/ PidWritten \/ Resumed \/ Reported \/ Died
  OBVIOUS
<1> USE Constants DEF afdevVars, loaderVars, Goto
<1>1. CASE Launch
  BY <1>1 DEF Launch, NothingSeen, Launched
<1>2. CASE WritePid
  BY <1>2 DEF WritePid, NothingSeen, PidWritten
<1>3. ASSUME NEW k \in Nat, Installs(k) PROVE NothingSeen \/ Died
  BY <1>3 DEF Installs, NothingSeen, Died, LoaderInv, Stages
<1>4. CASE BytesPatched \/ MutexIsolated \/ MovementBridged \/ StagesHooked
             \/ SpawnTraced \/ GameInfoTraced
  BY <1>3, <1>4 DEF BytesPatched, MutexIsolated, MovementBridged, StagesHooked,
                    SpawnTraced, GameInfoTraced
<1>5. CASE Resume
  BY <1>5 DEF Resume, NothingSeen, Resumed
<1>6. CASE AwaitEngine \/ Hold \/ Redirect \/ Opened \/ Travel \/ TakeWorld
             \/ Inspected \/ NotInspected \/ Settle \/ Rekey \/ Named \/ Leave
  BY <1>6 DEF AwaitEngine, Hold, Redirect, Opened, Travel, TakeWorld, Inspected,
              NotInspected, Settle, Rekey, Named, Leave, NothingSeen
<1>7. CASE CallFails
  BY <1>7 DEF CallFails, NothingSeen
<1>8. CASE NotSettled
  BY <1>8 DEF NotSettled, NothingSeen
<1>9. CASE Report
  BY <1>9 DEF Report, NothingSeen, Reported
<1>10. CASE Guard \/ Killed \/ Travels \/ SocketAnew \/ UNCHANGED vars
  BY <1>10 DEF Guard, Killed, Travels, SocketAnew, vars, NothingSeen
<1>11. CASE RunCall \/ Dies
  <2>1. /\ proc = "running" /\ proc' \in {"running", "dead"} /\ UNCHANGED loaderVars
    BY <1>11 DEF RunCall, Dies, Alive
  <2> QED BY <2>1 DEF Died, NothingSeen, LoaderInv, Stages
<1> QED BY <1>1, <1>2, <1>4, <1>5, <1>6, <1>7, <1>8, <1>9, <1>10, <1>11
        DEF Next, Step, Afdev

LEMMA InitMaps == Init => Protocol!Init
BY DEF Init, Protocol!Init

LEMMA StepMaps ==
  ASSUME LoaderInv, [Next]_vars
  PROVE  Protocol!Next \/ UNCHANGED <<LoaderSeen, AfdevSeen>>
<1>1. CASE NothingSeen
  <2>1. AfdevSeen' = AfdevSeen
    BY <1>1 DEF NothingSeen, AfdevSeen
  <2>2. LoaderSeen' = LoaderSeen \/ (LoaderSeen = "running" /\ LoaderSeen' = "gone")
    BY <1>1 DEF NothingSeen, LoaderSeen
  <2> QED BY <2>1, <2>2 DEF Protocol!Next, Protocol!End, LoaderSeen, AfdevSeen
<1>2. CASE Launched
  <2>1. AfdevSeen = "off" /\ AfdevSeen' = "launched"
    BY <1>2 DEF LoaderInv, Stages, Launched, AfdevSeen
  <2>2. LoaderSeen = "running" /\ LoaderSeen' = "running"
    BY <1>2 DEF Launched, LoaderSeen
  <2> QED BY <2>1, <2>2 DEF Protocol!Next, Protocol!Progress, Protocol!Further, LoaderSeen, AfdevSeen
<1>3. CASE PidWritten
  <2>1. AfdevSeen = "launched" /\ AfdevSeen' = "pid"
    BY <1>3 DEF LoaderInv, Stages, PidWritten, AfdevSeen
  <2>2. LoaderSeen = "running" /\ LoaderSeen' = "running"
    BY <1>3 DEF PidWritten, LoaderSeen
  <2> QED BY <2>1, <2>2 DEF Protocol!Next, Protocol!Progress, Protocol!Further, LoaderSeen, AfdevSeen
<1>4. CASE Resumed
  <2>1. UNCHANGED <<LoaderSeen, AfdevSeen>>
    BY <1>4 DEF LoaderInv, Stages, Resumed, AfdevSeen, LoaderSeen
  <2> QED BY <2>1
<1>5. CASE Reported
  <2>1. pid /\ ~ready /\ proc # "absent"
    BY <1>5 DEF LoaderInv, Stages, Knows, Reported
  <2>2. LoaderSeen = "running" /\ LoaderSeen' = "running"
    BY <1>5 DEF Reported, LoaderSeen
  <2>3. CASE proc = "dead"
    BY <1>5, <2>2, <2>3 DEF Reported, AfdevSeen
  <2>4. CASE proc # "dead"
    <3>1. AfdevSeen = "pid" /\ AfdevSeen' = "ready"
      BY <1>5, <2>1, <2>4 DEF Reported, AfdevSeen
    <3> QED BY <2>2, <3>1 DEF Protocol!Next, Protocol!Progress, Protocol!Further, LoaderSeen, AfdevSeen
  <2> QED BY <2>3, <2>4
<1>6. CASE Died
  <2>1. AfdevSeen \in {"pid", "ready"} /\ AfdevSeen' = "dead"
    BY <1>6 DEF Died, AfdevSeen
  <2>2. LoaderSeen' = LoaderSeen \/ (LoaderSeen = "running" /\ LoaderSeen' = "gone")
    BY <1>6 DEF Died, LoaderSeen
  <2> QED BY <2>1, <2>2 DEF Protocol!Next, Protocol!End, LoaderSeen, AfdevSeen
<1> QED BY SeenShapes, <1>1, <1>2, <1>3, <1>4, <1>5, <1>6

(* The loader keeps the protocol the bridge relies on: AFDEV is launched,  *)
(* its pid written down and SESSION_READY reported in this order, each     *)
(* once and while the loader runs; an AFDEV without a pid is not ended.    *)
THEOREM LoaderKeepsProtocol == Spec => ProtocolKept
<1>1. LoaderInv /\ [Next]_vars => [Protocol!Next]_<<LoaderSeen, AfdevSeen>>
  BY StepMaps
<1>2. Init => Protocol!Init
  BY InitMaps
<1> QED BY <1>1, <1>2, LoaderInvariant, PTL
       DEF Spec, ProtocolKept, Protocol!Spec, LoaderSeen, AfdevSeen

-----------------------------------------------------------------------------
MoveType ==
  /\ clock \in 0 .. MaxStamp /\ stamp \in Nat /\ simulated \in Nat
  /\ corrected \in [Stamp -> Nat]

NotAhead == simulated <= stamp /\ stamp <= clock

CorrectedBehind ==
  \A m \in Stamp : corrected[m] <= 1 /\ (corrected[m] = 1 => m <= stamp)

MoveInv == MoveType /\ NotAhead /\ CorrectedBehind

(* The time simulated for a move is at most what lies between its stamp    *)
(* and the one before.                                                     *)
LEMMA DeltaBound ==
  ASSUME NEW m \in Stamp, stamp \in Nat, m > stamp
  PROVE  Delta(m) \in Nat /\ stamp + Delta(m) <= m
<1>1. MaxStamp \in Nat /\ MaxResponse \in Nat
  BY MoveAssumption
<1>2. m \in Nat
  BY <1>1 DEF Stamp
<1>3. CASE m - stamp > MaxResponse
  BY <1>1, <1>2, <1>3 DEF Delta
<1>4. CASE ~(m - stamp > MaxResponse)
  BY <1>1, <1>2, <1>4 DEF Delta
<1>5. QED
  BY <1>3, <1>4

(* The inductive invariant holds of the first move and survives each step. *)
LEMMA MoveInductive ==
  /\ MoveInit => MoveInv
  /\ MoveInv /\ [MoveNext]_moveVars => MoveInv'
<1>1. MaxStamp \in Nat /\ MaxResponse \in Nat
  BY MoveAssumption
<1>2. MoveInit => MoveInv
  BY <1>1 DEF MoveInit, MoveInv, MoveType, NotAhead, CorrectedBehind, Stamp
<1>3. ASSUME MoveInv, [MoveNext]_moveVars
      PROVE  MoveInv'
  <2>1. CASE ClientMoves
    BY <1>1, <1>3, <2>1 DEF ClientMoves, MoveInv, MoveType, NotAhead, CorrectedBehind, Stamp
  <2>2. CASE PawnChanges
    BY <1>3, <2>2 DEF PawnChanges, MoveInv, MoveType, NotAhead, CorrectedBehind
  <2>3. CASE MoveArrives
    <3>1. PICK m \in 1 .. clock : (Moves(m) \/ Ignores(m)) /\ UNCHANGED <<clock, pawn>>
      BY <2>3 DEF MoveArrives
    <3>2. m \in Stamp /\ m <= clock
      BY <1>1, <1>3 DEF MoveInv, MoveType, Stamp
    <3>3. CASE Ignores(m)
      BY <1>3, <3>1, <3>3 DEF Ignores, MoveInv, MoveType, NotAhead, CorrectedBehind
    <3>4. CASE Moves(m)
      <4>1. m > stamp /\ stamp' = m /\ clock' = clock
        BY <3>1, <3>4 DEF Moves, Newer
      <4>2. Delta(m) \in Nat /\ stamp + Delta(m) <= m
        BY <1>3, <3>2, <4>1, DeltaBound DEF MoveInv, MoveType
      <4>3. simulated' = simulated + Delta(m)
        BY <3>4, <4>1 DEF Moves
      <4>4. corrected' = [corrected EXCEPT ![m] = @ + 1]
        BY <3>4 DEF Moves
      <4>5. corrected[m] = 0
        BY <1>3, <3>2, <4>1 DEF MoveInv, MoveType, CorrectedBehind, Stamp
      <4>6. MoveType'
        BY <1>1, <1>3, <3>2, <4>1, <4>2, <4>3, <4>4 DEF MoveInv, MoveType, Stamp
      <4>7. NotAhead'
        BY <1>1, <1>3, <3>2, <4>1, <4>2, <4>3 DEF MoveInv, MoveType, NotAhead, Stamp
      <4>8. CorrectedBehind'
        <5>1. SUFFICES ASSUME NEW n \in Stamp
                       PROVE  corrected'[n] <= 1 /\ (corrected'[n] = 1 => n <= stamp')
          BY DEF CorrectedBehind
        <5>2. CASE n = m
          BY <1>1, <1>3, <3>2, <4>1, <4>4, <4>5, <5>2 DEF MoveInv, MoveType, Stamp
        <5>3. CASE n # m
          <6>1. corrected'[n] = corrected[n]
            BY <1>3, <4>4, <5>3 DEF MoveInv, MoveType
          <6>2. n \in Nat /\ m \in Nat /\ stamp \in Nat
            BY <1>1, <1>3, <3>2 DEF MoveInv, MoveType, Stamp
          <6>3. QED
            BY <1>3, <4>1, <6>1, <6>2 DEF MoveInv, CorrectedBehind
        <5>4. QED
          BY <5>2, <5>3
      <4>9. QED
        BY <4>6, <4>7, <4>8 DEF MoveInv
    <3>5. QED
      BY <3>1, <3>3, <3>4
  <2>4. CASE UNCHANGED moveVars
    BY <1>3, <2>4 DEF moveVars, MoveInv, MoveType, NotAhead, CorrectedBehind
  <2>5. QED
    BY <1>3, <2>1, <2>2, <2>3, <2>4 DEF MoveNext
<1>4. QED
  BY <1>2, <1>3

-----------------------------------------------------------------------------
(* A step with the hooks is one of the loader and AFDEV, or none of theirs.*)
LEMMA HookStepIsStep ==
  ASSUME [HookNext]_hookedVars
  PROVE  [Next]_vars /\ [MoveNext]_moveVars
<1> USE DEF vars, loaderVars, afdevVars, hookVars, moveVars
<1>1. CASE Drives
  BY <1>1 DEF Drives, Next
<1>2. CASE Clears \/ Reports
  BY <1>2 DEF Clears, Reports
<1>3. CASE Others
  BY <1>3 DEF Others, Next, Afdev
<1>4. CASE Loads
  BY <1>4 DEF Loads, Next, Afdev
<1>5. CASE FrontLoaded \/ SetsGameInfo \/ SpawnEnters \/ SpawnFails
  BY <1>5 DEF FrontLoaded, SetsGameInfo, SpawnEnters, SpawnFails
<1>6. CASE SpawnReturns
  <2>1. CASE spawn.ret = "home"
    BY <1>6, <2>1 DEF SpawnReturns
  <2>2. CASE spawn.ret # "home"
    BY <1>6, <2>2 DEF SpawnReturns, Free, Dies, Next, Afdev
  <2>3. QED
    BY <2>1, <2>2
<1>7. CASE HostChanges \/ HostSeen \/ HostObserves
  BY <1>7 DEF HostChanges, HostSeen, HostObserves
<1>8. CASE Plays
  BY <1>8 DEF Plays
<1>9. CASE UNCHANGED hookedVars
  BY <1>9 DEF hookedVars
<1>10. QED
  BY <1>1, <1>2, <1>3, <1>4, <1>5, <1>6, <1>7, <1>8, <1>9 DEF HookNext, Loader

(* With the hooks, AFDEV and the loader are still those of AfdevLoader.    *)
LEMMA HooksRefineLoader == HookSpec => Spec /\ MoveSpec
<1>1. HookInit => Init /\ MoveInit
  BY DEF HookInit
<1>2. [HookNext]_hookedVars => [Next]_vars /\ [MoveNext]_moveVars
  BY HookStepIsStep
<1>3. QED
  BY <1>1, <1>2, PTL DEF HookSpec, Spec, MoveSpec

(* However many moves are sent, lost, repeated or reordered: no more time  *)
(* is simulated than has passed for the client, and no move is corrected   *)
(* twice.                                                                  *)
THEOREM AlwaysMovedOnce == HookSpec => []MovedOnce
<1>1. MoveInv => MovedOnce
  BY DEF MoveInv, NotAhead, CorrectedBehind, MovedOnce
<1>2. QED
  BY <1>1, MoveInductive, HooksRefineLoader, PTL DEF MoveSpec

-----------------------------------------------------------------------------
(* Until the traces are cleared nothing of OPEN is under way.              *)
Unopened ==
  /\ cleared \in 0 .. Writes
  /\ cleared # Writes =>
       /\ ~pending /\ world \in {"boot", "front"}
       /\ \A i \in DOMAIN calls : calls[i].op # "Exec"
       /\ pc = "open" => hold = "free"
       /\ pc \notin {"open", "launch", "pid", "patch", "engine", "exit"} => proc # "running"

Cells == [tracking : BOOLEAN, ret : {"null", "home"}, of : World \cup {"none"},
          actor : {"none", "null", "actor"}, done : BOOLEAN, reason : BOOLEAN]

(* What the cells hold of the world that is being loaded.                  *)
Traced ==
  /\ count \in Nat /\ spawn \in Cells
  /\ world \in {"boot", "empty"} => game = "load"
  /\ world = "new" => /\ game # "done"
                      /\ game # "load" => count >= 1
                      /\ game \in {"spawn", "failed", "created"} => spawn.of = "new"
                      /\ game = "created" => spawn.done /\ spawn.actor = "actor"
  /\ world = "match" => /\ count >= 1 /\ marker = 7 /\ game = "done"
                        /\ spawn.done /\ spawn.of = "new" /\ spawn.actor = "actor"

ToldRight ==
  told.of = "match" => /\ world = "match" /\ told.calls >= 1
                       /\ told.spawn \in {"none", "actor"}

TraceInv == Unopened /\ Traced /\ ToldRight

LEMMA TraceInitOK == HookInit => TraceInv
BY DEF HookInit, Init, TraceInv, Unopened, Traced, ToldRight, Cells, NoSpawn, Untold, Writes

(* The loader itself changes neither world nor travel request, and the     *)
(* queue of calls only by putting one in front or giving one up.           *)
LEMMA StepLeavesWorld ==
  ASSUME Step
  PROVE  /\ UNCHANGED <<world, pending>>
         /\ proc' = "running" => proc = "running" \/ pc = "patch"
         /\ Redirect \/ CallFails \/ UNCHANGED calls
BY DEF Step, Launch, WritePid, BytesPatched, MutexIsolated, MovementBridged, StagesHooked,
   SpawnTraced, GameInfoTraced, Installs, Resume, AwaitEngine, Hold, Redirect, CallFails,
   Opened, Travel, TakeWorld, Inspected, NotInspected, Settle, NotSettled, Rekey, Report,
   Named, Leave, afdevVars

(* How main() comes past OPEN.                                             *)
LEMMA StepStages ==
  ASSUME Step, LoaderInv, pc = "open" => hold = "free" /\ proc # "running"
  PROVE  /\ pc' = "open" => pc \in {"open", "engine"} /\ hold' = "free"
         /\ pc' \notin {"open", "launch", "pid", "patch", "engine", "exit"} =>
              pc \notin {"open", "launch", "pid", "patch", "engine", "exit"}
         /\ pc \notin {"open", "launch", "pid", "patch", "engine", "exit"} => proc' = proc
<1> USE Constants
<1>1. CASE Launch \/ WritePid
  BY <1>1 DEF Launch, WritePid, Goto, LoaderInv, Stages
<1>2. CASE BytesPatched \/ MutexIsolated \/ MovementBridged \/ StagesHooked \/ SpawnTraced \/ GameInfoTraced
  BY <1>2 DEF BytesPatched, MutexIsolated, MovementBridged, StagesHooked, SpawnTraced,
     GameInfoTraced, Installs
<1>3. CASE Resume \/ AwaitEngine
  BY <1>3 DEF Resume, AwaitEngine, Goto, LoaderInv, Stages, afdevVars
<1>4. CASE Hold \/ Redirect
  BY <1>4 DEF Hold, Redirect, Alive, afdevVars
<1>5. CASE CallFails
  BY <1>5 DEF CallFails, AfterFailure, afdevVars
<1>6. CASE Opened \/ Travel \/ TakeWorld
  BY <1>6 DEF Opened, Travel, TakeWorld, Goto, Returned, Alive, afdevVars
<1>7. CASE Inspected \/ NotInspected \/ Settle \/ NotSettled
  BY <1>7 DEF Inspected, NotInspected, Settle, NotSettled, AfterFailure, afdevVars
<1>8. CASE Rekey \/ Report \/ Named \/ Leave
  BY <1>8 DEF Rekey, Report, Named, Leave, Goto, afdevVars
<1>9. QED
  BY <1>1, <1>2, <1>3, <1>4, <1>5, <1>6, <1>7, <1>8 DEF Step

(* What the loader does leaves the traces' order intact: a call of OPEN is *)
(* not set up before they are cleared.                                     *)
LEMMA DrivesKeeps ==
  ASSUME LoaderInv, TraceInv, Drives
  PROVE  TraceInv'
<1> USE DEF TraceInv
<1>1. UNCHANGED <<world, pending>> /\ UNCHANGED <<marker, count, spawn, game, cleared, told>>
  BY StepLeavesWorld DEF Drives, hookVars
<1>2. Traced' /\ ToldRight'
  BY <1>1 DEF Traced, ToldRight
<1>3. CASE cleared = Writes
  BY <1>1, <1>2, <1>3 DEF Unopened
<1>4. CASE cleared # Writes
  <2>1. pc = "open" => hold = "free" /\ proc # "running"
    BY <1>4 DEF Drives, Unopened, Alive, ClearsAt
  <2>2. pc' = "open" => hold' = "free"
    BY <2>1, StepStages DEF Drives
  <2>3. pc' \notin {"open", "launch", "pid", "patch", "engine", "exit"} => proc' # "running"
    BY <1>4, <2>1, StepStages DEF Drives, Unopened
  <2>4. \A i \in DOMAIN calls' : calls'[i].op # "Exec"
    <3>1. ~Redirect
      BY <1>4, <2>1, Constants DEF Redirect, Alive, Unopened
    <3>2. CASE CallFails
      <4>1. calls' = Abandoned /\ calls \in Seq(Call)
        BY <3>2 DEF CallFails, LoaderInv, TypeOK, Call
      <4>2. \A i \in DOMAIN calls : calls[i] \in Call
        BY <4>1
      <4>3. DOMAIN calls' = DOMAIN calls
        BY <4>1 DEF Abandoned
      <4>4. \A i \in DOMAIN calls : calls'[i].op = calls[i].op
        BY <4>1, <4>2 DEF Abandoned, Call
      <4>5. QED
        BY <1>4, <4>3, <4>4 DEF Unopened
    <3>3. CASE UNCHANGED calls
      BY <1>4, <3>3 DEF Unopened
    <3>4. QED
      BY <3>1, <3>2, <3>3, StepLeavesWorld DEF Drives
  <2>5. QED
    BY <1>1, <1>2, <1>4, <2>2, <2>3, <2>4 DEF Unopened
<1>5. QED
  BY <1>3, <1>4

LEMMA OthersKeep ==
  ASSUME LoaderInv, TraceInv, Others
  PROVE  TraceInv'
<1> USE DEF TraceInv
<1>1. UNCHANGED <<world, marker, count, spawn, game, cleared, told>>
  BY DEF Others, hookVars, Guard, Killed, RunCall, SocketAnew, Dies, loaderVars, afdevVars
<1>2. Traced' /\ ToldRight'
  BY <1>1 DEF Traced, ToldRight
<1>3. CASE RunCall
  <2>1. calls \in Seq(Call) /\ calls # <<>>
    BY <1>3 DEF RunCall, LoaderInv, TypeOK, Call
  <2>2. calls' = Tail(calls) /\ pending' = (pending \/ Head(calls).op = "Exec")
    BY <1>3 DEF RunCall
  <2>3. Head(calls) = calls[1] /\ 1 \in DOMAIN calls
    BY <2>1
  <2>4. \A i \in DOMAIN calls' : i + 1 \in DOMAIN calls /\ calls'[i] = calls[i + 1]
    BY <2>1, <2>2
  <2>5. proc' \in {proc, "running", "dead"} /\ proc = "running"
    BY <1>3 DEF RunCall, Alive
  <2>6. UNCHANGED <<pc, hold>>
    BY <1>3 DEF RunCall, loaderVars
  <2>7. QED
    BY <1>1, <1>2, <2>2, <2>3, <2>4, <2>5, <2>6 DEF Unopened
<1>4. CASE Guard \/ Killed \/ SocketAnew \/ Dies
  BY <1>1, <1>2, <1>4 DEF Guard, Killed, SocketAnew, Dies, Goto, loaderVars, afdevVars, Unopened, Alive
<1>5. QED
  BY <1>3, <1>4 DEF Others

(* Clearing disturbs no cell of the match: AFDEV is not past the frontend. *)
LEMMA ClearsKeeps ==
  ASSUME TraceInv, Clears
  PROVE  TraceInv'
<1> USE DEF TraceInv
<1>1. UNCHANGED <<pc, hold, proc, world, pending, calls, game, told>>
  BY DEF Clears, vars, loaderVars, afdevVars
<1>2. world \in {"boot", "front"} /\ cleared # Writes
  BY DEF Clears, Unopened, Writes
<1>3. Unopened'
  BY <1>1, <1>2 DEF Clears, Unopened, Writes
<1>4. spawn' \in Cells /\ count' \in Nat
  BY DEF Clears, Traced, Cells
<1>5. Traced'
  BY <1>1, <1>2, <1>4 DEF Traced
<1>6. ToldRight'
  BY <1>1 DEF ToldRight
<1>7. QED
  BY <1>3, <1>5, <1>6

LEMMA ReportsKeeps ==
  ASSUME TraceInv, Reports
  PROVE  TraceInv'
<1> USE DEF TraceInv
<1>1. UNCHANGED <<pc, hold, proc, world, pending, calls, marker, count, spawn, game, cleared>>
  BY DEF Reports, vars, loaderVars, afdevVars
<1>2. Unopened' /\ Traced'
  BY <1>1 DEF Unopened, Traced
<1>3. ToldRight'
  <2>1. CASE told' = [calls |-> count, of |-> world, spawn |-> "none"]
    BY <1>1, <2>1 DEF ToldRight, Traced
  <2>2. CASE told' = [told EXCEPT !.spawn = IF spawn.done THEN spawn.actor ELSE "pending"]
    BY <1>1, <2>2 DEF ToldRight, Traced
  <2>3. QED
    BY <2>1, <2>2 DEF Reports
<1>4. QED
  BY <1>2, <1>3

(* The game thread itself: past the frontend the traces are cleared for    *)
(* good, and each hooked place leaves in the cells what the next relies on.*)
LEMMA GameThreadKeeps ==
  ASSUME LoaderInv, TraceInv,
         Loads \/ FrontLoaded \/ SetsGameInfo \/ SpawnEnters \/ SpawnFails \/ SpawnReturns
  PROVE  TraceInv'
<1> USE DEF TraceInv
<1>1. UNCHANGED <<cleared, told, pc, hold, calls>> /\ proc' \in {proc, "dead"}
  BY DEF Loads, Travels, FrontLoaded, SetsGameInfo, SpawnEnters, SpawnFails, SpawnReturns,
     vars, loaderVars, afdevVars
<1>2. CASE Loads
  <2>1. Unopened'
    BY <1>1, <1>2 DEF Loads, Travels, Unopened
  <2>2. Traced'
    BY <1>2 DEF Loads, Travels, Traced, Cells
  <2>3. world # "match"
    BY <1>2 DEF Loads, Travels
  <2>4. ToldRight'
    BY <1>1, <2>3 DEF ToldRight
  <2>5. QED
    BY <2>1, <2>2, <2>4
<1>3. CASE ~Loads
  <2>1. UNCHANGED <<world, pending>>
    BY <1>3 DEF FrontLoaded, SetsGameInfo, SpawnEnters, SpawnFails, SpawnReturns, vars, afdevVars
  <2>2. Unopened' /\ ToldRight'
    BY <1>1, <2>1 DEF Unopened, ToldRight
  <2>3. ASSUME FrontLoaded
        PROVE  Traced'
    BY <2>1, <2>3 DEF FrontLoaded, Traced
  <2>4. ASSUME SetsGameInfo
        PROVE  Traced'
    BY <2>1, <2>4 DEF SetsGameInfo, Traced
  <2>5. ASSUME SpawnEnters
        PROVE  Traced'
    BY <2>1, <2>5 DEF SpawnEnters, Traced, Cells, LoaderInv, TypeOK
  <2>6. ASSUME SpawnFails
        PROVE  Traced'
    BY <2>1, <2>6 DEF SpawnFails, Traced, Cells
  <2>7. ASSUME SpawnReturns
        PROVE  Traced'
    <3>1. UNCHANGED <<world, count, marker>> /\ world # "match" /\ spawn \in Cells
      BY <2>1, <2>7 DEF SpawnReturns, Traced
    <3>2. CASE game = "spawn"
      <4>1. /\ game' = "created"
            /\ spawn' = [spawn EXCEPT !.tracking = FALSE, !.done = TRUE, !.actor = "actor"]
        BY <2>7, <3>2 DEF SpawnReturns
      <4>2. QED
        BY <2>1, <3>1, <3>2, <4>1 DEF Traced, Cells
    <3>3. CASE game = "failed"
      <4>1. /\ game' = "rejected"
            /\ spawn' = [spawn EXCEPT !.tracking = FALSE, !.done = TRUE, !.actor = "null"]
        BY <2>7, <3>3 DEF SpawnReturns
      <4>2. QED
        BY <2>1, <3>1, <3>3, <4>1 DEF Traced, Cells
    <3>4. QED
      BY <2>7, <3>2, <3>3 DEF SpawnReturns
  <2>8. QED
    BY <1>3, <2>2, <2>3, <2>4, <2>5, <2>6, <2>7
<1>4. QED
  BY <1>2, <1>3

(* The observer guard and the moves touch no cell.                         *)
LEMMA BystandersKeep ==
  ASSUME TraceInv, HostChanges \/ HostSeen \/ HostObserves \/ Plays \/ UNCHANGED hookedVars
  PROVE  TraceInv'
<1>1. UNCHANGED <<vars, marker, count, spawn, game, cleared, told>>
  BY DEF HostChanges, HostSeen, HostObserves, Plays, hookedVars, hookVars
<1>2. QED
  BY <1>1 DEF TraceInv, Unopened, Traced, ToldRight, vars, loaderVars, afdevVars

(* Although the loader clears the traces while AFDEV runs, without a lock: *)
(* the match that has loaded has its call of SetGameInfo, its actor and    *)
(* its last stage on record, and what is reported of it is not less.       *)
THEOREM MatchAlwaysTraced == HookSpec => []MatchIsTraced
<1>1. HookInit => TraceInv
  BY TraceInitOK
<1>2. LoaderInv /\ TraceInv /\ [HookNext]_hookedVars => TraceInv'
  BY DrivesKeeps, OthersKeep, ClearsKeeps, ReportsKeeps, GameThreadKeeps, BystandersKeep
     DEF HookNext, Loader
<1>3. TraceInv => MatchIsTraced
  BY DEF TraceInv, Traced, ToldRight, MatchIsTraced
<1>4. QED
  BY <1>1, <1>2, <1>3, HooksRefineLoader, LoaderInvariant, PTL DEF HookSpec

(* What SESSION_READY promises, and what the bridge relies on, holds of    *)
(* the loader with its hooks as well.                                      *)
THEOREM HookedLoaderKeepsProtocol == HookSpec => []ReadyMeans /\ ProtocolKept
BY HooksRefineLoader, ReadyAlwaysMeans, LoaderKeepsProtocol, PTL
==============================================================================
