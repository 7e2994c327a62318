---------------------------- MODULE ClientProofs ----------------------------
(***************************************************************************)
(* What holds of the client's files, of the games and of the two patchers  *)
(* at them, and of the account database, for any number of games, callers, *)
(* names and passwords.                                                    *)
(*                                                                         *)
(* First ClientStart: FilesInv says what the DLL patcher has seen at each  *)
(* of its steps, PatchInv what a patcher at a game has written there       *)
(* before.  The two share nothing, and each action touches one of them.    *)
(*                                                                         *)
(* Then Accounts: AccountsInv says of the one writer what it has made of   *)
(* the tables so far, and of everybody else that the committed tables are  *)
(* in order; LoginOf what a login knows of what it has seen.               *)
(*                                                                         *)
(* Last AuthLogin: Power is commutative in its exponents, which takes      *)
(* induction over both, and Unpad undoes Pad; ExchangeInv says which       *)
(* number each side is about to come to, or has come to.                   *)
(***************************************************************************)
EXTENDS ClientStart, Accounts, SequenceTheorems, WellFoundedInduction, TLAPS

PatchStep == {"off", "arm", "check", "wait", "restore", "finally",
              "read", "stub", "entry", "verify", "resume"}
Build == {"original", "foreign"}

ClientType ==
  /\ pat \in [Patcher -> [pc : PatchStep, on : Game \cup {0}]]
  /\ game \in [Game -> [proc : {"none", "suspended", "running"}, entry : Build \cup Patcher]]
  /\ stub \in [Game -> SUBSET Patcher]
  /\ left \in {"", "inWrite", "lost"} /\ resumed \in SUBSET Game

(* A backup is begun of an original only, and what overwrites the DLL has  *)
(* seen its backup whole.                                                  *)
FilesInv ==
  /\ OriginalKept
  /\ tool \in {"backup", "copying", "temp", "writing", "replace"} => dll = "original"
  /\ tool \in {"temp", "writing", "replace", "restoring"} => bak = "original"

(* A patcher is at a game that is there, has written its trampoline before *)
(* the entry, and nobody writes anything but a trampoline of his own.      *)
EntryWhole(g) == game[g].entry \in Patcher => game[g].entry \in stub[g]
AtGame(w) ==
  pat[w].on # 0 =>
    /\ pat[w].on \in Alive
    /\ pat[w].pc = "entry" => w \in stub[pat[w].on]
    /\ pat[w].pc = "resume" => game[pat[w].on].entry \in Patcher

PatchInv ==
  /\ \A g \in Game : EntryWhole(g)
  /\ \A w \in Patcher : AtGame(w)
  /\ \A g \in resumed : g \in Alive /\ game[g].entry \in Patcher

ClientInv == ClientType /\ FilesInv /\ PatchInv /\ ArmedIsWatched

(* Nothing is patched, armed or half written when the client is installed. *)
LEMMA ClientStarts == Init => ClientInv
<1> SUFFICES ASSUME Init PROVE ClientInv
  OBVIOUS
<1>1. Off \in [pc : PatchStep, on : Game \cup {0}] /\ Off.on = 0
  BY DEF Off, PatchStep
<1>2. NoGame \in [proc : {"none", "suspended", "running"}, entry : Build \cup Patcher]
      /\ NoGame.entry \notin Patcher
  BY DEF NoGame, Build, Patcher
<1>3. ClientType
  BY <1>1, <1>2 DEF Init, ClientType
<1>4. PatchInv
  BY <1>1, <1>2 DEF Init, PatchInv, EntryWhole, AtGame
<1>5. FilesInv /\ ArmedIsWatched
  BY DEF Init, FilesInv, OriginalKept, ArmedIsWatched
<1> QED
  BY <1>3, <1>4, <1>5 DEF ClientInv

(* The files: only the patcher of the DLL touches them.                    *)
LEMMA FilesStep == FilesInv /\ [Next]_vars => FilesInv'
<1> SUFFICES ASSUME FilesInv, [Next]_vars PROVE FilesInv'
  OBVIOUS
<1> USE DEF FilesInv, OriginalKept, ToolGoes
<1>1. CASE ToolNext
  <2>1. CASE ApplyStarts
    BY <2>1 DEF ApplyStarts
  <2>2. CASE BacksUp
    BY <2>2 DEF BacksUp
  <2>3. CASE BackupDone
    BY <2>3 DEF BackupDone
  <2>4. CASE TempOpens
    BY <2>4 DEF TempOpens
  <2>5. CASE TempDone
    BY <2>5 DEF TempDone
  <2>6. CASE Replaces
    BY <2>6 DEF Replaces
  <2>7. CASE RestoreStarts
    BY <2>7 DEF RestoreStarts
  <2>8. CASE RestoreDone
    BY <2>8 DEF RestoreDone
  <2>9. CASE ToolStops
    BY <2>9 DEF ToolStops
  <2> QED
    BY <1>1, <2>1, <2>2, <2>3, <2>4, <2>5, <2>6, <2>7, <2>8, <2>9 DEF ToolNext
<1>2. CASE UNCHANGED fileVars
  BY <1>2 DEF fileVars
<1>3. ASSUME LauncherOpens \/ Logs \/ GameNext \/ PatchNext \/ UNCHANGED vars
      PROVE  UNCHANGED fileVars
  <2>1. CASE LauncherOpens \/ Logs \/ UNCHANGED vars
    BY <2>1 DEF LauncherOpens, Logs, vars
  <2>2. CASE GameNext
    BY <2>2 DEF GameNext, Starts, AsksDate, GameEnds, Gone
  <2>3. CASE PatchNext
    BY <2>3 DEF PatchNext, PatchReads, PatchWritesStub, PatchWritesEntry, PatchVerifies,
      WindowFinds, WindowStops, HelperStarts, HelperArms, HelperChecks, HelperSeesGame,
      HelperRestores, HelperResumes, HelperStops, FinallyRestores, FinallyWarns,
      HelperKilled, PatKeeps
  <2> QED
    BY <1>3, <2>1, <2>2, <2>3
<1> QED
  BY <1>1, <1>2, <1>3 DEF Next

(* A patcher goes on to a game, or to none, with nothing written.          *)
LEMMA PatcherGoes ==
  ASSUME ClientType, PatchInv, NEW w \in Patcher, NEW s \in PatchStep,
         NEW g \in Alive \cup {0}, PatAt(w, s, g),
         s = "entry" /\ g # 0 => w \in stub[g],
         s = "resume" /\ g # 0 => game[g].entry \in Patcher,
         UNCHANGED <<game, stub, left, resumed>>
  PROVE  (ClientType /\ PatchInv)'
<1>1. g \in Game \cup {0}
  BY DEF Alive
<1>2. ClientType'
  BY <1>1 DEF PatAt, ClientType
<1>3. Alive' = Alive
  BY DEF Alive
<1>4. (\A x \in Game : EntryWhole(x))' /\ (\A x \in resumed : x \in Alive /\ game[x].entry \in Patcher)'
  BY <1>3 DEF PatchInv, EntryWhole
<1>5. ASSUME NEW v \in Patcher PROVE AtGame(v)'
  <2>1. CASE v = w
    BY <1>3, <2>1 DEF PatAt, AtGame, ClientType
  <2>2. CASE v # w
    BY <1>3, <2>2 DEF PatAt, AtGame, ClientType, PatchInv
  <2> QED
    BY <2>1, <2>2
<1> QED
  BY <1>2, <1>4, <1>5 DEF PatchInv

(* A patcher that gives up leaves the games as they are.                   *)
LEMMA PatcherFails ==
  ASSUME ClientType, PatchInv, NEW w \in Patcher, Fails(w),
         UNCHANGED <<game, stub, resumed>>, left' \in {"", "inWrite", "lost"}
  PROVE  (ClientType /\ PatchInv)'
<1>2. ClientType'
  BY DEF Fails, ClientType, Off, PatchStep
<1>3. Alive' = Alive
  BY DEF Alive
<1>4. (\A x \in Game : EntryWhole(x))' /\ (\A x \in resumed : x \in Alive /\ game[x].entry \in Patcher)'
  BY <1>3 DEF PatchInv, EntryWhole
<1>5. ASSUME NEW v \in Patcher PROVE AtGame(v)'
  BY <1>3 DEF Fails, AtGame, ClientType, PatchInv, Off
<1> QED
  BY <1>2, <1>4, <1>5 DEF PatchInv

(* A game that ends takes its trampolines along, and its handle is void.   *)
LEMMA GameGoes ==
  ASSUME ClientType, PatchInv, NEW g \in Game, Gone(g)
  PROVE  (ClientType /\ PatchInv)'
<1> USE DEF Gone
<1>1. ClientType'
  BY DEF ClientType, NoGame, Build
<1>2. game'[g] = NoGame /\ \A x \in Game \ {g} : game'[x] = game[x] /\ stub'[x] = stub[x]
  BY DEF ClientType
<1>3. Alive' = Alive \ {g}
  BY <1>2 DEF Alive, NoGame
<1>4. (\A x \in Game : EntryWhole(x))'
  BY <1>2 DEF EntryWhole, PatchInv, NoGame, Patcher
<1>5. (\A x \in resumed : x \in Alive /\ game[x].entry \in Patcher)'
  BY <1>2, <1>3 DEF PatchInv, ClientType
<1>6. ASSUME NEW v \in Patcher PROVE AtGame(v)'
  <2>1. CASE pat[v].on = g
    <3>1. pat'[v].on = 0
      BY <2>1 DEF ClientType
    <3> QED
      BY <3>1 DEF AtGame
  <2>2. CASE pat[v].on # g
    <3>1. pat'[v] = pat[v]
      BY <2>2
    <3> QED
      BY <2>2, <3>1, <1>2, <1>3 DEF AtGame, PatchInv, Alive
  <2> QED
    BY <2>1, <2>2
<1> QED
  BY <1>1, <1>4, <1>5, <1>6 DEF PatchInv

(* Nobody touches a game.                                                  *)
LEMMA PatchStays ==
  ASSUME ClientType, PatchInv, UNCHANGED <<game, stub, pat, left, resumed>>
  PROVE  (ClientType /\ PatchInv)'
BY DEF ClientType, PatchInv, EntryWhole, AtGame, Alive

(* However patch_process of the helper and of the window interleave, no    *)
(* entry leads to a trampoline that is not there.                          *)
LEMMA PatchersStep == ClientType /\ PatchInv /\ [Next]_vars => (ClientType /\ PatchInv)'
<1> SUFFICES ASSUME ClientType, PatchInv, [Next]_vars PROVE (ClientType /\ PatchInv)'
  OBVIOUS
<1>0. /\ "helper" \in Patcher /\ "window" \in Patcher /\ 0 \notin Game
      /\ \A w \in Patcher : pat[w].on \in Alive \cup {0}
  BY DEF Patcher, Game, PatchInv, AtGame
<1>1. CASE ToolNext \/ LauncherOpens \/ UNCHANGED vars
  <2>1. UNCHANGED <<game, stub, pat, left, resumed>>
    BY <1>1 DEF ToolNext, LauncherOpens, vars, gameVars, helperVars, ToolKeeps,
         ApplyStarts, BacksUp, BackupDone, TempOpens, TempDone, Replaces, RestoreStarts,
         RestoreDone, ToolStops
  <2> QED
    BY <2>1, PatchStays
<1>2. CASE Logs
  <2>1. CASE Fails("helper")
    BY <1>0, <1>2, <2>1, PatcherFails DEF Logs, gameVars, ClientType
  <2>2. CASE pat' = pat
    <3>1. UNCHANGED <<game, stub, resumed>> /\ left' \in {"", "inWrite", "lost"}
      BY <1>2 DEF Logs, gameVars, ClientType
    <3> QED
      BY <2>2, <3>1 DEF ClientType, PatchInv, EntryWhole, AtGame, Alive
  <2> QED
    BY <1>2, <2>1, <2>2 DEF Logs, Fails
<1>3. CASE Starts
  <2>1. PICK g \in Game \ Alive, entry \in Build, proc \in {"suspended", "running"} :
          game' = [game EXCEPT ![g] = [proc |-> proc, entry |-> entry]]
    BY <1>3 DEF Starts, Build
  <2>2. UNCHANGED <<stub, pat, left, resumed>>
    BY <1>3 DEF Starts, helperVars
  <2>3. ClientType'
    BY <2>1, <2>2 DEF ClientType
  <2>4. game'[g].entry \notin Patcher /\ \A x \in Game \ {g} : game'[x] = game[x]
    BY <2>1 DEF ClientType, Build, Patcher
  <2>5. \A x \in Alive : x \in Alive' /\ game'[x] = game[x]
    BY <2>1, <2>4 DEF Alive
  <2>6. PatchInv'
    BY <2>2, <2>4, <2>5 DEF PatchInv, EntryWhole, AtGame, ClientType
  <2> QED
    BY <2>3, <2>6
<1>4. CASE \E g \in Game : AsksDate(g) \/ GameEnds(g)
  BY <1>4, GameGoes DEF AsksDate, GameEnds
<1>5. ASSUME NEW w \in Patcher, PatchReads(w) PROVE (ClientType /\ PatchInv)'
  <2>1. CASE Fails(w)
    BY <1>5, <2>1, PatcherFails DEF PatchReads, gameVars, PatKeeps, ClientType
  <2>2. CASE ~Fails(w)
    BY <1>5, <2>2, PatcherGoes DEF PatchReads, gameVars, PatKeeps, PatchStep
  <2> QED
    BY <2>1, <2>2
<1>6. ASSUME NEW w \in Patcher, PatchWritesStub(w) PROVE (ClientType /\ PatchInv)'
  <2>1. CASE pat[w].on \notin Alive
    BY <1>6, <2>1, PatcherFails DEF PatchWritesStub, PatKeeps, ClientType
  <2>2. CASE pat[w].on \in Alive
    <3> DEFINE g == pat[w].on
    <3>1. /\ g \in Game /\ stub' = [stub EXCEPT ![g] = @ \cup {w}]
          /\ pat' = [pat EXCEPT ![w] = [pc |-> "entry", on |-> g]]
          /\ UNCHANGED <<game, left, resumed>>
      BY <1>6, <2>2 DEF PatchWritesStub, PatAt, PatKeeps, Alive
    <3> HIDE DEF g
    <3>2. ClientType'
      BY <3>1 DEF ClientType, PatchStep
    <3>3. w \in stub'[g] /\ \A x \in Game : stub[x] \subseteq stub'[x]
      BY <3>1 DEF ClientType
    <3>4. Alive' = Alive
      BY <3>1 DEF Alive
    <3>5. (\A x \in Game : EntryWhole(x))' /\ (\A x \in resumed : x \in Alive /\ game[x].entry \in Patcher)'
      BY <3>1, <3>3, <3>4 DEF PatchInv, EntryWhole
    <3>6. ASSUME NEW v \in Patcher PROVE AtGame(v)'
      <4>1. CASE v = w
        <5>1. pat'[v] = [pc |-> "entry", on |-> g]
          BY <3>1, <4>1 DEF ClientType
        <5> QED
          BY <5>1, <3>3, <3>4, <2>2, <4>1 DEF AtGame, g
      <4>2. CASE v # w
        <5>1. pat'[v] = pat[v]
          BY <3>1, <4>2 DEF ClientType
        <5> QED
          BY <5>1, <3>1, <3>3, <3>4 DEF AtGame, PatchInv, Alive
      <4> QED
        BY <4>1, <4>2
    <3> QED
      BY <3>2, <3>5, <3>6 DEF PatchInv
  <2> QED
    BY <2>1, <2>2
<1>7. ASSUME NEW w \in Patcher, PatchWritesEntry(w) PROVE (ClientType /\ PatchInv)'
  <2>1. CASE pat[w].on \notin Alive
    BY <1>7, <2>1, PatcherFails DEF PatchWritesEntry, PatKeeps, ClientType
  <2>2. CASE pat[w].on \in Alive
    <3> DEFINE g == pat[w].on
    <3>1. /\ g \in Game /\ game' = [game EXCEPT ![g].entry = w]
          /\ pat' = [pat EXCEPT ![w] = [pc |-> "verify", on |-> g]]
          /\ UNCHANGED <<stub, left, resumed>>
      BY <1>7, <2>2 DEF PatchWritesEntry, PatAt, PatKeeps, Alive
    <3>2. w \in stub[g]
      BY <1>0, <1>7, <2>2, <3>1 DEF PatchWritesEntry, PatchInv, AtGame
    <3> HIDE DEF g
    <3>3. ClientType'
      BY <3>1 DEF ClientType, PatchStep
    <3>4. /\ game'[g].entry = w /\ game'[g].proc = game[g].proc
          /\ \A x \in Game \ {g} : game'[x] = game[x]
      BY <3>1 DEF ClientType
    <3>5. Alive' = Alive
      BY <3>1, <3>4 DEF Alive
    <3>6. (\A x \in Game : EntryWhole(x))' /\ (\A x \in resumed : x \in Alive /\ game[x].entry \in Patcher)'
      BY <3>1, <3>2, <3>4, <3>5 DEF PatchInv, EntryWhole, Alive
    <3>7. ASSUME NEW v \in Patcher PROVE AtGame(v)'
      <4>1. CASE v = w
        <5>1. pat'[v] = [pc |-> "verify", on |-> g]
          BY <3>1, <4>1 DEF ClientType
        <5> QED
          BY <5>1, <3>5, <2>2, <4>1 DEF AtGame, g
      <4>2. CASE v # w
        <5>1. pat'[v] = pat[v]
          BY <3>1, <4>2 DEF ClientType
        <5> QED
          BY <5>1, <3>1, <3>4, <3>5 DEF AtGame, PatchInv, Alive
      <4> QED
        BY <4>1, <4>2
    <3> QED
      BY <3>3, <3>6, <3>7 DEF PatchInv
  <2> QED
    BY <2>1, <2>2
<1>8. ASSUME NEW w \in Patcher, PatchVerifies(w) PROVE (ClientType /\ PatchInv)'
  <2>1. CASE Fails(w)
    BY <1>8, <2>1, PatcherFails DEF PatchVerifies, gameVars, PatKeeps, ClientType
  <2>2. CASE ~Fails(w)
    BY <1>8, <2>2, PatcherGoes DEF PatchVerifies, gameVars, PatKeeps, PatchStep
  <2> QED
    BY <2>1, <2>2
<1>9. CASE WindowFinds
  BY <1>0, <1>9, PatcherGoes DEF WindowFinds, gameVars, PatKeeps, PatchStep
<1>10. CASE WindowStops \/ HelperStops \/ FinallyRestores \/ FinallyWarns \/ HelperKilled
  <2>1. left' \in {"", "inWrite", "lost"} /\ UNCHANGED <<game, stub, resumed>>
    BY <1>10 DEF WindowStops, HelperStops, FinallyRestores, FinallyWarns, HelperKilled,
                 gameVars, PatKeeps, ClientType
  <2>2. CASE Fails("window") \/ Fails("helper")
    BY <1>0, <2>1, <2>2, PatcherFails
  <2>3. CASE PatAt("helper", "finally", 0) /\ left' = left
    BY <1>0, <2>1, <2>3, PatcherGoes DEF PatchStep
  <2> QED
    BY <1>10, <2>2, <2>3 DEF WindowStops, HelperStops, FinallyRestores, FinallyWarns,
                             HelperKilled
<1>11. CASE HelperStarts
  BY <1>0, <1>11, PatcherGoes DEF HelperStarts, gameVars, PatchStep
<1>12. CASE HelperArms
  BY <1>0, <1>12, PatcherGoes, PatcherFails DEF HelperArms, gameVars, PatchStep, ClientType
<1>13. CASE HelperChecks
  BY <1>0, <1>13, PatcherGoes DEF HelperChecks, gameVars, PatKeeps, PatchStep
<1>14. CASE HelperSeesGame
  BY <1>0, <1>14, PatcherGoes DEF HelperSeesGame, gameVars, PatchStep
<1>15. CASE HelperRestores
  BY <1>0, <1>15, PatcherGoes DEF HelperRestores, gameVars, PatchStep
<1>16. CASE HelperResumes
  <2> DEFINE g == pat["helper"].on
  <2>1. CASE ~(g \in Alive /\ game[g].proc = "suspended")
    BY <1>0, <1>16, <2>1, PatcherFails DEF HelperResumes, ClientType
  <2>2. CASE g \in Alive /\ game[g].proc = "suspended"
    <3>1. /\ g \in Game /\ game' = [game EXCEPT ![g].proc = "running"]
          /\ resumed' = resumed \cup {g} /\ pat' = [pat EXCEPT !["helper"] = Off]
          /\ UNCHANGED <<stub, left>>
      BY <1>16, <2>2 DEF HelperResumes, Fails, Alive
    <3>2. game[g].entry \in Patcher
      BY <1>0, <1>16, <2>2, <3>1 DEF HelperResumes, PatchInv, AtGame
    <3>3. Off \in [pc : PatchStep, on : Game \cup {0}] /\ Off.on = 0
      BY DEF Off, PatchStep
    <3> HIDE DEF g
    <3>4. ClientType'
      <4>1. pat' \in [Patcher -> [pc : PatchStep, on : Game \cup {0}]]
        BY <3>1, <3>3 DEF ClientType
      <4>2. game' \in [Game -> [proc : {"none", "suspended", "running"},
                                entry : Build \cup Patcher]]
        BY <3>1 DEF ClientType
      <4> QED
        BY <3>1, <4>1, <4>2 DEF ClientType
    <3>5. /\ \A x \in Game : game'[x].entry = game[x].entry
          /\ game'[g].proc = "running" /\ \A x \in Game \ {g} : game'[x] = game[x]
      BY <3>1 DEF ClientType
    <3>6. Alive' = Alive
      BY <3>1, <3>5, <2>2 DEF Alive, g
    <3>7. (\A x \in Game : EntryWhole(x))'
      BY <3>1, <3>5 DEF PatchInv, EntryWhole
    <3>8. (\A x \in resumed : x \in Alive /\ game[x].entry \in Patcher)'
      BY <2>2, <3>1, <3>2, <3>5, <3>6 DEF PatchInv, ClientType, g
    <3>9. ASSUME NEW v \in Patcher PROVE AtGame(v)'
      <4>1. pat'[v] = IF v = "helper" THEN Off ELSE pat[v]
        BY <3>1, <3>3 DEF ClientType
      <4> QED
        BY <4>1, <3>1, <3>3, <3>5, <3>6 DEF AtGame, PatchInv, Alive
    <3> QED
      BY <3>4, <3>7, <3>8, <3>9 DEF PatchInv
  <2> QED
    BY <2>1, <2>2
<1> QED
  BY <1>1, <1>2, <1>3, <1>4, <1>5, <1>6, <1>7, <1>8, <1>9, <1>10, <1>11, <1>12,
     <1>13, <1>14, <1>15, <1>16 DEF Next, GameNext, PatchNext

(* Where a patcher goes, it is.                                            *)
LEMMA PatcherAt ==
  ASSUME ClientType, NEW w \in Patcher, NEW s, NEW g, PatAt(w, s, g)
  PROVE  pat'[w].pc = s
<1>1. pat'[w] = [pc |-> s, on |-> g]
  BY DEF PatAt, ClientType
<1> QED
  BY <1>1

(* The create flags are put back by whoever armed them.                    *)
LEMMA ArmedStep == ClientType /\ ArmedIsWatched /\ [Next]_vars => ArmedIsWatched'
<1> SUFFICES ASSUME ClientType, ArmedIsWatched, [Next]_vars PROVE ArmedIsWatched'
  OBVIOUS
<1> USE DEF ArmedIsWatched, Watched
<1>0. "helper" \in Patcher /\ "window" # "helper" /\ Off.pc = "off"
  BY DEF Patcher, Off
<1>1. CASE ToolNext \/ UNCHANGED vars
  BY <1>1 DEF ToolNext, vars, helperVars, ToolKeeps,
       ApplyStarts, BacksUp, BackupDone, TempOpens, TempDone, Replaces, RestoreStarts,
       RestoreDone, ToolStops
<1>2. CASE LauncherOpens \/ Logs
  BY <1>2 DEF LauncherOpens, Logs
<1>3. CASE GameNext
  <2>1. CASE Starts
    BY <2>1 DEF Starts, helperVars
  <2>2. ASSUME NEW g \in Game, Gone(g) PROVE ArmedIsWatched'
    <3>1. pat'["helper"].pc = pat["helper"].pc
      BY <1>0, <2>2 DEF Gone, ClientType
    <3> QED
      BY <2>2, <3>1 DEF Gone
  <2> QED
    BY <1>3, <2>1, <2>2 DEF GameNext, AsksDate, GameEnds
<1>4. ASSUME NEW w \in Patcher,
             PatchReads(w) \/ PatchWritesStub(w) \/ PatchWritesEntry(w) \/ PatchVerifies(w)
      PROVE  ArmedIsWatched'
  <2>1. pat[w].pc \notin {"check", "wait", "restore", "finally"} /\ UNCHANGED <<site, left>>
    BY <1>4 DEF PatchReads, PatchWritesStub, PatchWritesEntry, PatchVerifies, PatKeeps
  <2>2. \A v \in Patcher : v # w => pat'[v] = pat[v]
    BY <1>4 DEF PatchReads, PatchWritesStub, PatchWritesEntry, PatchVerifies, PatAt, Fails,
                ClientType
  <2> QED
    BY <1>0, <2>1, <2>2
<1>5. CASE WindowFinds \/ WindowStops
  <2>1. pat'["helper"] = pat["helper"] /\ UNCHANGED <<site, left>>
    BY <1>0, <1>5 DEF WindowFinds, WindowStops, PatAt, Fails, PatKeeps, ClientType
  <2> QED
    BY <2>1
<1>6. CASE HelperStarts \/ HelperResumes
  <2>1. ~Watched /\ UNCHANGED <<site, left>>
    BY <1>6 DEF HelperStarts, HelperResumes
  <2> QED
    BY <2>1
<1>7. CASE HelperChecks \/ HelperSeesGame
  <2>1. pat'["helper"].pc \in {"wait", "restore"}
    BY <1>0, <1>7, PatcherAt DEF HelperChecks, HelperSeesGame
  <2> QED
    BY <2>1
<1>8. CASE HelperArms
  <2>1. CASE site = "original"
    <3>1. pat'["helper"].pc = "check"
      BY <1>0, <1>8, <2>1, PatcherAt DEF HelperArms
    <3> QED
      BY <3>1
  <2>2. CASE site # "original"
    <3>1. ~Watched /\ UNCHANGED <<site, left>>
      BY <1>8, <2>2 DEF HelperArms
    <3> QED
      BY <3>1
  <2> QED
    BY <2>1, <2>2
<1>9. CASE HelperRestores \/ FinallyRestores
  <2>1. site' = "original"
    BY <1>9 DEF HelperRestores, FinallyRestores
  <2> QED
    BY <2>1
<1>10. CASE FinallyWarns \/ HelperKilled
  <2>1. left' = "lost"
    BY <1>10 DEF FinallyWarns, HelperKilled
  <2> QED
    BY <2>1
<1>11. CASE HelperStops
  <2>1. CASE pat["helper"].pc \in {"wait", "restore"}
    <3>1. pat'["helper"].pc = "finally"
      BY <1>0, <1>11, <2>1, PatcherAt DEF HelperStops
    <3> QED
      BY <3>1
  <2>2. CASE pat["helper"].pc \notin {"wait", "restore"}
    <3>1. site' = site /\ (left' = "inWrite" \/ (~Watched /\ left' = left))
      BY <1>11, <2>2 DEF HelperStops
    <3> QED
      BY <3>1
  <2> QED
    BY <2>1, <2>2
<1> QED
  BY <1>1, <1>2, <1>3, <1>4, <1>5, <1>6, <1>7, <1>8, <1>9, <1>10, <1>11
  DEF Next, PatchNext

(* The three parts of the client's invariant, under every interleaving of  *)
(* the tools, the launcher and the games.                                  *)
THEOREM ClientInvariant == Spec => []ClientInv
<1>1. ClientInv /\ [Next]_vars => ClientInv'
  BY FilesStep, PatchersStep, ArmedStep DEF ClientInv
<1> QED
  BY ClientStarts, <1>1, PTL DEF Spec

(* Wherever apply or restore of patch_tcls_apclient_raw_pem.py is          *)
(* interrupted, a TCLS.dll that is not the original has a whole backup     *)
(* beside it.                                                              *)
THEOREM OriginalAlwaysKept == Spec => []OriginalKept
<1>1. ClientInv => OriginalKept
  BY DEF ClientInv, FilesInv
<1> QED
  BY ClientInvariant, <1>1, PTL

(* However patch_process of the two patchers interleave and whatever games *)
(* end, a game the helper has resumed runs through a whole trampoline.     *)
THEOREM ResumedAlwaysPatched == Spec => []ResumedIsPatched
<1>1. ClientInv => ResumedIsPatched
  BY DEF ClientInv, PatchInv, EntryWhole, ClientType, ResumedIsPatched
<1> QED
  BY ClientInvariant, <1>1, PTL

(* main of patch_tcls_suspended_launch.py leaves a launcher armed only if  *)
(* it is interrupted between the write and the flag that says so, if its   *)
(* finally block does not get to the memory, or if it is killed.           *)
THEOREM ArmedAlwaysWatched == Spec => []ArmedIsWatched
<1>1. ClientInv => ArmedIsWatched
  BY DEF ClientInv
<1> QED
  BY ClientInvariant, <1>1, PTL

-----------------------------------------------------------------------------
Account == [uin : Nat, user : User, password : Password,
            status : {"active", "disabled"}]
Database == [schema : 0 .. Tables, accounts : SUBSET Account, profiles : SUBSET Nat]
Inside == {"check", "account", "profile", "commit"}
Step == {"off", "schema", "begin", "read", "hash", "stamp", "answer", "created"}
          \cup Inside

AccountsType ==
  /\ base \in Database /\ draft \in Database
  /\ writer \in SUBSET Caller
  /\ call \in [Caller -> [pc : Step, kind : {"none", "create", "login"},
                          user : User \cup {<<>>}, password : Password \cup {<<>>},
                          row : SUBSET Account, right : BOOLEAN]]
  /\ \A p \in Caller : ~CallAt(p, "off") => call[p].user \in User
                                            /\ call[p].password \in Password

(* Names, numbers and profiles are in order, and there is a greatest       *)
(* number.                                                                 *)
Sound(db) ==
  /\ \A a, b \in db.accounts :
       a.uin = b.uin \/ a.user.name = b.user.name => a = b
  /\ db.profiles = {a.uin : a \in db.accounts}
  /\ db.accounts = {} \/ \E a \in db.accounts : \A b \in db.accounts : b.uin <= a.uin

(* What the one writer has made of the tables so far.                      *)
Adds(p, a) ==
  /\ call[p].row = {a} /\ a.user = call[p].user
  /\ \A b \in base.accounts : b.uin < a.uin
  /\ draft.accounts = base.accounts \cup {a}
  /\ draft.profiles = base.profiles \cup (IF CallAt(p, "commit") THEN {a.uin} ELSE {})

Drafting(p) ==
  /\ call[p].pc \in {"check", "account"} => draft = base
  /\ ~CallAt(p, "check") => Named(base, call[p].user) = {}
  /\ call[p].pc \in {"profile", "commit"} => \E a \in Account : Adds(p, a)

OneWriter ==
  /\ \A p \in Caller : p \in writer <=> call[p].pc \in Inside
  /\ \A p, q \in writer : p = q

There(uin, user) == \E a \in base.accounts : a.uin = uin /\ a.user = user
Promised ==
  /\ \A t \in answered : There(t.uin, t.user)
  /\ \A p \in Caller : CallAt(p, "created") =>
       \A a \in call[p].row : There(a.uin, a.user)

AccountsInv ==
  /\ AccountsType /\ Sound(base) /\ OneWriter
  /\ (\A p \in writer : Drafting(p)) /\ Promised

-----------------------------------------------------------------------------
(* create_account's MAX(uin) + 1 is a number nobody has.                   *)
LEMMA NumberIsNew ==
  ASSUME NEW db \in Database, Sound(db)
  PROVE  /\ NextUin(db) \in Nat
         /\ \A a \in db.accounts : a.uin < NextUin(db)
<1> DEFINE S == {FirstUin - 1} \cup {a.uin : a \in db.accounts}
<1>1. FirstUin \in Nat /\ \A a \in db.accounts : a.uin \in Nat
  BY AccountAssumption DEF Database, Account
<1>2. PICK m \in S : m \in Int /\ m >= -1 /\ \A x \in S : m >= x
  <2>1. CASE \A a \in db.accounts : a.uin < FirstUin
    BY <1>1, <2>1
  <2>2. CASE \E a \in db.accounts : a.uin >= FirstUin
    <3>1. PICK a \in db.accounts : \A b \in db.accounts : b.uin <= a.uin
      BY <2>2 DEF Sound
    <3>2. a.uin \in S /\ \A x \in S : a.uin >= x
      BY <1>1, <2>2, <3>1
    <3> QED
      BY <1>1, <3>2
  <2> QED
    BY <1>1, <2>1, <2>2
<1>3. Max(S) \in S /\ \A x \in S : Max(S) >= x
  BY <1>2 DEF Max
<1>4. Max(S) \in Int /\ Max(S) >= -1 /\ \A a \in db.accounts : a.uin <= Max(S)
  BY <1>1, <1>2, <1>3
<1>5. NextUin(db) = Max(S) + 1
  BY DEF NextUin
<1> HIDE DEF S
<1> QED
  BY <1>1, <1>4, <1>5

(* There is no database before the first call.                             *)
LEMMA AccountsStart == AccountsInit => AccountsInv
<1> SUFFICES ASSUME AccountsInit PROVE AccountsInv
  OBVIOUS
<1>1. Empty \in Database
  BY DEF Empty, Database, Tables
<1>2. NoCall \in [pc : Step, kind : {"none", "create", "login"},
                  user : User \cup {<<>>}, password : Password \cup {<<>>},
                  row : SUBSET Account, right : BOOLEAN]
  BY DEF NoCall, Step
<1>3. AccountsType
  BY <1>1, <1>2 DEF AccountsInit, AccountsType, CallAt, NoCall
<1>4. Sound(base)
  BY DEF AccountsInit, Sound, Empty
<1>5. OneWriter /\ Promised /\ \A p \in writer : Drafting(p)
  BY DEF AccountsInit, OneWriter, Promised, NoCall, Inside, CallAt
<1> QED
  BY <1>3, <1>4, <1>5 DEF AccountsInv

CallRecord == [pc : Step, kind : {"none", "create", "login"},
               user : User \cup {<<>>}, password : Password \cup {<<>>},
               row : SUBSET Account, right : BOOLEAN]

(* A call goes on outside a transaction.                                   *)
LEMMA CallGoesOn ==
  ASSUME AccountsInv, NEW p \in Caller, NEW c \in CallRecord,
         call' = [call EXCEPT ![p] = c],
         call[p].pc \notin Inside, c.pc \notin Inside \cup {"created"},
         c.pc # "off" => c.user \in User /\ c.password \in Password,
         UNCHANGED <<base, writer, draft, answered>>
  PROVE  AccountsInv'
<1> USE DEF AccountsInv
<1>1. AccountsType'
  BY DEF AccountsType, CallRecord, CallAt
<1>2. OneWriter'
  BY DEF OneWriter, AccountsType
<1>3. (\A q \in writer : Drafting(q))'
  BY DEF OneWriter, Drafting, AccountsType, CallAt, Adds
<1>4. Promised'
  BY DEF Promised, AccountsType, CallAt, There
<1> QED
  BY <1>1, <1>2, <1>3, <1>4

(* The writer goes on, with nothing committed.                             *)
LEMMA WriterGoesOn ==
  ASSUME AccountsInv, NEW p \in writer, NEW c \in CallRecord,
         call' = [call EXCEPT ![p] = c], c.pc \in Inside,
         c.user = call[p].user, c.password = call[p].password,
         draft' \in Database, Drafting(p)',
         UNCHANGED <<base, writer, answered>>
  PROVE  AccountsInv'
<1> USE DEF AccountsInv
<1>1. p \in Caller /\ call[p].pc \in Inside
  BY DEF OneWriter, AccountsType
<1>2. AccountsType'
  BY <1>1 DEF AccountsType, CallRecord, CallAt, Inside
<1>3. OneWriter'
  BY <1>1 DEF OneWriter, AccountsType
<1>4. (\A q \in writer : Drafting(q))'
  BY DEF OneWriter
<1>5. Promised'
  BY <1>1 DEF Promised, AccountsType, CallAt, There, Inside
<1> QED
  BY <1>2, <1>3, <1>4, <1>5

(* The transaction is over, and nothing of it is kept.                     *)
LEMMA WriterGives ==
  ASSUME AccountsInv, NEW p \in Caller, CallEnds(p),
         writer' = writer \ {p},
         draft' = IF p \in writer THEN Empty ELSE draft,
         UNCHANGED <<base, answered>>
  PROVE  AccountsInv'
<1> USE DEF AccountsInv, CallEnds
<1>1. Empty \in Database
  BY DEF Empty, Database, Tables
<1>2. NoCall \in CallRecord /\ NoCall.pc = "off"
  BY DEF NoCall, CallRecord, Step
<1>3. AccountsType'
  BY <1>1, <1>2 DEF AccountsType, CallRecord, CallAt
<1>4. OneWriter'
  BY <1>2 DEF OneWriter, AccountsType, Inside
<1>5. (\A q \in writer : Drafting(q))'
  BY <1>2 DEF OneWriter, Drafting, AccountsType, CallAt, Adds
<1>6. Promised'
  BY <1>2 DEF Promised, AccountsType, CallAt, There
<1> QED
  BY <1>3, <1>4, <1>5, <1>6

(* Every statement of account_db.py, whoever else is in the middle of a    *)
(* call.                                                                   *)
LEMMA AccountsStep == AccountsInv /\ AccountSteps => AccountsInv'
<1> SUFFICES ASSUME AccountsInv, AccountSteps PROVE AccountsInv'
  OBVIOUS
<1> USE DEF AccountsInv
<1>0. call \in [Caller -> CallRecord]
  BY DEF AccountsType, CallRecord
<1>1. ASSUME NEW p \in Caller, NEW kind \in {"create", "login"},
             NEW user \in User, NEW pw \in Password, Calls(p, kind, user, pw)
      PROVE  AccountsInv'
  <2> DEFINE c == [NoCall EXCEPT !.pc = "schema", !.kind = kind,
                                 !.user = user, !.password = pw]
  <2>1. c \in CallRecord /\ c.pc = "schema" /\ c.user = user /\ c.password = pw
    BY DEF NoCall, CallRecord, Step
  <2>2. call[p].pc \notin Inside /\ c.pc \notin Inside \cup {"created"}
    BY <1>1, <2>1 DEF Calls, CallAt, Inside
  <2> QED
    BY <1>1, <2>1, <2>2, CallGoesOn DEF Calls
<1>2. ASSUME NEW p \in Caller, MakesTable(p) PROVE AccountsInv'
  <2>1. base' \in Database /\ base'.accounts = base.accounts
        /\ base'.profiles = base.profiles
    BY <1>2 DEF MakesTable, AccountsType, Database, Tables
  <2>2. AccountsType' /\ OneWriter'
    BY <1>2, <2>1 DEF MakesTable, AccountsType, OneWriter, CallAt
  <2>3. Sound(base)'
    BY <2>1 DEF Sound
  <2>4. (\A q \in writer : Drafting(q))'
    BY <1>2 DEF MakesTable, Unlocked
  <2>5. Promised'
    BY <1>2, <2>1 DEF MakesTable, Promised, There, CallAt
  <2> QED
    BY <2>2, <2>3, <2>4, <2>5
<1>3. ASSUME NEW p \in Caller,
             StampsSchema(p) \/ Reads(p) \/ (\E u \in BOOLEAN : Compares(p, u))
               \/ StampsLogin(p)
      PROVE  AccountsInv'
  <2> DEFINE Goes(c) ==
          /\ call' = [call EXCEPT ![p] = c]
          /\ c.pc \in {"begin", "read", "hash", "stamp", "answer"}
          /\ c.user = call[p].user /\ c.password = call[p].password
  <2>1. PICK c \in CallRecord : Goes(c)
    <3>1. ASSUME NEW pc \in {"begin", "read", "answer"}, CallGoes(p, pc)
          PROVE  \E c \in CallRecord : Goes(c)
      <4>1. [call[p] EXCEPT !.pc = pc] \in CallRecord
        BY <1>0 DEF CallRecord, Step
      <4>2. Goes([call[p] EXCEPT !.pc = pc])
        BY <1>0, <3>1 DEF CallGoes, CallRecord
      <4> QED
        BY <4>1, <4>2
    <3>2. CASE StampsSchema(p) \/ StampsLogin(p)
      BY <3>1, <3>2 DEF StampsSchema, StampsLogin
    <3>3. CASE Reads(p)
      <4> DEFINE found == {a \in Named(base, call[p].user) : a.status = "active"}
      <4>1. found \in SUBSET Account
        BY DEF Named, AccountsType, Database
      <4> HIDE DEF found
      <4> DEFINE c == [call[p] EXCEPT !.row = found,
                         !.pc = IF found = {} THEN "answer" ELSE "hash"]
      <4>2. c \in CallRecord
        BY <1>0, <4>1 DEF CallRecord, Step
      <4>3. Goes(c)
        BY <1>0, <3>3 DEF Reads, found, CallRecord
      <4> QED
        BY <4>2, <4>3
    <3>4. CASE \E u \in BOOLEAN : Compares(p, u)
      <4> DEFINE same == \A a \in call[p].row : a.password = call[p].password
      <4>1. same \in BOOLEAN
        OBVIOUS
      <4>2. PICK u \in BOOLEAN : call' = [call EXCEPT ![p].right = same,
                 ![p].pc = IF same /\ u THEN "stamp" ELSE "answer"]
        BY <3>4 DEF Compares
      <4> HIDE DEF same
      <4> DEFINE c == [call[p] EXCEPT !.right = same,
                         !.pc = IF same /\ u THEN "stamp" ELSE "answer"]
      <4>3. c \in CallRecord
        BY <1>0, <4>1 DEF CallRecord, Step
      <4>4. Goes(c)
        BY <1>0, <4>2 DEF CallRecord
      <4> QED
        BY <4>3, <4>4
    <3> QED
      BY <1>3, <3>2, <3>3, <3>4
  <2>2. call[p].pc \in {"schema", "read", "hash", "stamp"}
        /\ UNCHANGED <<base, writer, draft, answered>>
    BY <1>3 DEF StampsSchema, Reads, Compares, StampsLogin, CallAt
  <2> QED
    BY <2>1, <2>2, CallGoesOn DEF Inside, AccountsType, CallAt
<1>4. ASSUME NEW p \in Caller, Begins(p) PROVE AccountsInv'
  <2>1. call[p].pc = "begin" /\ writer = {} /\ writer' = {p} /\ draft' = base
        /\ call' = [call EXCEPT ![p].pc = "check"] /\ UNCHANGED <<base, answered>>
    BY <1>4 DEF Begins, CallAt, Unlocked, CallGoes
  <2>2. AccountsType'
    BY <2>1 DEF AccountsType, CallAt, Step, Inside
  <2>3. OneWriter'
    BY <2>1 DEF OneWriter, AccountsType, Inside
  <2>4. (\A q \in writer : Drafting(q))'
    BY <2>1 DEF Drafting, CallAt, AccountsType
  <2>5. Promised'
    BY <2>1 DEF Promised, There, CallAt, AccountsType
  <2> QED
    BY <2>1, <2>2, <2>3, <2>4, <2>5
<1>5. ASSUME NEW p \in Caller, Checks(p) PROVE AccountsInv'
  <2>1. p \in writer /\ draft = base
    BY <1>5 DEF Checks, CallAt, OneWriter, Drafting, Inside
  <2>2. CASE Named(draft, call[p].user) # {}
    <3>1. writer = {p}
      BY <2>1 DEF OneWriter
    <3> QED
      BY <1>5, <2>1, <2>2, <3>1, WriterGives DEF Checks, RollsBack
  <2>3. CASE Named(draft, call[p].user) = {}
    <3> DEFINE c == [call[p] EXCEPT !.pc = "account"]
    <3>1. c \in CallRecord /\ call' = [call EXCEPT ![p] = c]
          /\ c.pc = "account" /\ c.user = call[p].user /\ c.password = call[p].password
          /\ UNCHANGED <<base, writer, draft, answered>>
      BY <1>0, <1>5, <2>3 DEF Checks, CallGoes, CallRecord, Step, Inside
    <3>2. Drafting(p)'
      BY <1>0, <2>1, <2>3, <3>1 DEF Drafting, CallAt, Named
    <3> QED
      BY <2>1, <3>1, <3>2, WriterGoesOn DEF AccountsType, Inside
  <2> QED
    BY <2>2, <2>3
<1>6. ASSUME NEW p \in Caller, InsertsAccount(p) PROVE AccountsInv'
  <2> DEFINE new == [uin |-> NextUin(draft), user |-> call[p].user,
                     password |-> call[p].password, status |-> "active"]
  <2>1. p \in writer /\ draft = base /\ Named(base, call[p].user) = {}
        /\ call[p].pc = "account"
    BY <1>6 DEF InsertsAccount, CallAt, OneWriter, Drafting, Inside
  <2>2. new \in Account /\ \A b \in base.accounts : b.uin < new.uin
    BY <1>0, <2>1, NumberIsNew DEF Account, AccountsType, CallAt, Database
  <2>9. PICK row \in Account : row = new
    BY <2>2
  <2> DEFINE c == [call[p] EXCEPT !.pc = "profile", !.row = {row}]
  <2>3. c \in CallRecord /\ call' = [call EXCEPT ![p] = c]
        /\ c.pc = "profile" /\ c.user = call[p].user /\ c.password = call[p].password
        /\ c.row = {row}
        /\ draft' = [base EXCEPT !.accounts = @ \cup {row}]
        /\ UNCHANGED <<base, writer, answered>>
    BY <1>0, <1>6, <2>1, <2>2, <2>9 DEF InsertsAccount, CallRecord, Step, Inside
  <2>4. draft' \in Database /\ draft'.accounts = base.accounts \cup {row}
        /\ draft'.profiles = base.profiles
    BY <2>2, <2>3 DEF AccountsType, Database
  <2>5. row.user = call[p].user /\ call'[p] = c
    BY <1>0, <2>3, <2>9
  <2>10. \A b \in base.accounts : b.uin < row.uin
    BY <2>2, <2>9
  <2> HIDE DEF new, c
  <2>6. call'[p].pc = "profile" /\ call'[p].row = {row} /\ base' = base
        /\ call'[p].user = call[p].user
    BY <2>3, <2>5
  <2>7. Adds(p, row)'
    <3>1. draft'.profiles = base'.profiles
               \cup (IF CallAt(p, "commit")' THEN {row.uin} ELSE {})
      BY <2>4, <2>6 DEF CallAt
    <3>2. row.user = call'[p].user /\ \A b \in base'.accounts : b.uin < row.uin
      BY <2>10, <2>5, <2>6
    <3>3. draft'.accounts = base'.accounts \cup {row}
      BY <2>4, <2>6
    <3>4. call'[p].row = {row}
      BY <2>6
    <3> QED
      BY <3>1, <3>2, <3>3, <3>4 DEF Adds
  <2>8. Drafting(p)'
    <3>1. Named(base', call'[p].user) = {}
      BY <2>1, <2>6
    <3>2. call'[p].pc \notin {"check", "account"}
      BY <2>6
    <3>3. \E a \in Account : Adds(p, a)'
      BY <2>2, <2>7
    <3> QED
      BY <3>1, <3>2, <3>3 DEF Drafting
  <2> QED
    BY <2>1, <2>3, <2>4, <2>8, WriterGoesOn DEF Inside
<1>7. ASSUME NEW p \in Caller, InsertsProfile(p) PROVE AccountsInv'
  <2> DEFINE c == [call[p] EXCEPT !.pc = "commit"]
  <2>1. p \in writer /\ call[p].pc = "profile" /\ Named(base, call[p].user) = {}
    BY <1>7 DEF InsertsProfile, CallAt, OneWriter, Drafting, Inside
  <2>2. PICK a \in Account : Adds(p, a)
    BY <2>1 DEF Drafting
  <2>3. c \in CallRecord /\ call' = [call EXCEPT ![p] = c]
        /\ c.pc = "commit" /\ c.user = call[p].user /\ c.password = call[p].password
        /\ c.row = {a} /\ call'[p] = c
        /\ draft' = [draft EXCEPT !.profiles = @ \cup {a.uin}]
        /\ UNCHANGED <<base, writer, answered>>
    <3>1. {x.uin : x \in call[p].row} = {a.uin}
      BY <2>2 DEF Adds
    <3>2. draft' = [draft EXCEPT !.profiles = @ \cup {a.uin}]
          /\ call' = [call EXCEPT ![p] = c] /\ UNCHANGED <<base, writer, answered>>
      BY <1>7, <3>1 DEF InsertsProfile, CallGoes
    <3>3. c \in CallRecord /\ c.pc = "commit" /\ c.user = call[p].user
          /\ c.password = call[p].password /\ c.row = call[p].row
      BY <1>0 DEF CallRecord, Step, Inside
    <3> HIDE DEF c
    <3>4. c.row = {a} /\ call'[p] = c
      BY <1>0, <2>2, <3>2, <3>3 DEF Adds
    <3> QED
      BY <3>2, <3>3, <3>4
  <2>4. draft' \in Database /\ draft'.accounts = draft.accounts
        /\ draft'.profiles = draft.profiles \cup {a.uin}
    BY <2>2, <2>3 DEF AccountsType, Database, Account
  <2> HIDE DEF c
  <2>5. Adds(p, a)'
    BY <2>1, <2>2, <2>3, <2>4 DEF Adds, CallAt
  <2>6. Drafting(p)'
    BY <2>1, <2>2, <2>3, <2>5 DEF Drafting, CallAt, Named
  <2> QED
    BY <2>1, <2>3, <2>4, <2>6, WriterGoesOn DEF Inside
<1>8. ASSUME NEW p \in Caller, Commits(p) PROVE AccountsInv'
  <2>1. p \in writer /\ call[p].pc = "commit" /\ Named(base, call[p].user) = {}
    BY <1>8 DEF Commits, CallAt, OneWriter, Drafting, Inside
  <2>2. PICK a \in Account : Adds(p, a)
    BY <2>1 DEF Drafting
  <2>3. base' = draft /\ writer' = {} /\ draft' = Empty /\ answered' = answered
        /\ call' = [call EXCEPT ![p].pc = "created"]
    BY <1>8 DEF Commits, CallGoes
  <2>4. AccountsType'
    BY <2>1, <2>3 DEF AccountsType, CallAt, Step, Empty, Database, Tables, Inside
  <2>5. OneWriter' /\ (\A q \in writer : Drafting(q))'
    BY <2>1, <2>3 DEF OneWriter, AccountsType, Inside
  <2>6. base'.accounts = base.accounts \cup {a}
        /\ base'.profiles = base.profiles \cup {a.uin}
        /\ a.user = call[p].user /\ call[p].row = {a}
    BY <2>1, <2>2, <2>3 DEF Adds, CallAt
  <2>7. Sound(base)'
    <3>1. \A b \in base.accounts : b.uin < a.uin /\ b.user.name # a.user.name
      BY <2>1, <2>2, <2>6 DEF Adds, Named
    <3>3. a.uin \in Nat /\ \A b \in base.accounts : b.uin \in Nat
      BY DEF Account, AccountsType, Database
    <3>4. a \in base'.accounts /\ \A b \in base'.accounts : b.uin <= a.uin
      BY <2>6, <3>1, <3>3
    <3>5. \A b, d \in base'.accounts :
            b.uin = d.uin \/ b.user.name = d.user.name => b = d
      BY <2>6, <3>1, <3>3 DEF Sound
    <3>6. base'.profiles = {b.uin : b \in base'.accounts}
      BY <2>6 DEF Sound
    <3> QED
      BY <3>4, <3>5, <3>6 DEF Sound
  <2>8. Promised'
    BY <2>3, <2>6 DEF Promised, There, CallAt, AccountsType
  <2> QED
    BY <2>4, <2>5, <2>7, <2>8
<1>9. ASSUME NEW p \in Caller, Created(p) PROVE AccountsInv'
  <2>1. call[p].pc = "created" /\ p \notin writer
        /\ call' = [call EXCEPT ![p] = NoCall] /\ UNCHANGED <<base, writer, draft>>
    BY <1>9 DEF Created, CallAt, CallEnds, OneWriter, Inside
  <2>2. NoCall \in CallRecord /\ NoCall.pc = "off"
    BY DEF NoCall, CallRecord, Step
  <2>3. AccountsType'
    BY <2>1, <2>2 DEF AccountsType, CallAt, CallRecord
  <2>4. OneWriter'
    BY <2>1, <2>2 DEF OneWriter, AccountsType, Inside
  <2>5. (\A q \in writer : Drafting(q))'
    BY <2>1, <2>2 DEF OneWriter, Drafting, AccountsType, CallAt, Adds
  <2>6. Promised'
    <3>1. \A q \in Caller : call'[q] = call[q] \/ call'[q].pc = "off"
      BY <2>1, <2>2 DEF AccountsType
    <3>2. \A t \in answered' : t \in answered
             \/ \E a \in call[p].row : t = [uin |-> a.uin, user |-> a.user]
      BY <1>9 DEF Created
    <3> QED
      BY <2>1, <3>1, <3>2 DEF Promised, There, CallAt
  <2> QED
    BY <2>1, <2>3, <2>4, <2>5, <2>6
<1>10. ASSUME NEW p \in Caller, LoginAnswered(p) \/ Locked(p) \/ CallerDies(p)
       PROVE  AccountsInv'
  <2>1. CASE CallerDies(p)
    BY <2>1, WriterGives DEF CallerDies
  <2>2. CASE LoginAnswered(p) \/ Locked(p)
    <3>1. p \notin writer
      BY <2>2 DEF LoginAnswered, Locked, CallAt, OneWriter, Inside
    <3> QED
      BY <2>2, <3>1, WriterGives DEF LoginAnswered, Locked
  <2> QED
    BY <1>10, <2>1, <2>2
<1>11. CASE StatusChanges
  <2>1. PICK a \in base.accounts, s \in {"active", "disabled"} :
          base' = [base EXCEPT !.accounts = (@ \ {a}) \cup {[a EXCEPT !.status = s]}]
    BY <1>11 DEF StatusChanges
  <2> DEFINE b == [a EXCEPT !.status = s]
  <2>2. a \in Account
    BY DEF AccountsType, Database
  <2>3. b \in Account /\ b.uin = a.uin /\ b.user = a.user
    BY <2>2 DEF Account
  <2> HIDE DEF b
  <2>4. base' \in Database /\ base'.accounts = (base.accounts \ {a}) \cup {b}
        /\ base'.profiles = base.profiles
    BY <2>1, <2>3 DEF AccountsType, Database, b
  <2>5. writer = {} /\ UNCHANGED <<writer, draft, call, answered>>
    BY <1>11 DEF StatusChanges, Unlocked
  <2>6. AccountsType' /\ OneWriter' /\ (\A q \in writer : Drafting(q))'
    BY <2>4, <2>5 DEF AccountsType, OneWriter, CallAt
  <2>7. Sound(base)'
    <3>1. \A d, e \in base'.accounts :
            d.uin = e.uin \/ d.user.name = e.user.name => d = e
      BY <2>3, <2>4 DEF Sound
    <3>2. {d.uin : d \in base'.accounts} = {d.uin : d \in base.accounts}
      BY <2>3, <2>4
    <3>3. \E d \in base'.accounts : \A e \in base'.accounts : e.uin <= d.uin
      BY <2>3, <2>4 DEF Sound, AccountsType, Database, Account
    <3> QED
      BY <2>4, <3>1, <3>2, <3>3 DEF Sound
  <2>8. Promised'
    BY <2>3, <2>4, <2>5 DEF Promised, There, CallAt
  <2> QED
    BY <2>6, <2>7, <2>8
<1> QED
  BY <1>1, <1>2, <1>3, <1>4, <1>5, <1>6, <1>7, <1>8, <1>9, <1>10, <1>11
  DEF AccountSteps

(* One writer, tables in order, and promises kept, for any callers.        *)
THEOREM AccountsInvariant == AccountsSpec => []AccountsInv
<1>1. AccountsInv /\ [AccountsNext]_accountVars => AccountsInv'
  <2> SUFFICES ASSUME AccountsInv, [AccountsNext]_accountVars PROVE AccountsInv'
    OBVIOUS
  <2>1. CASE AccountsNext
    BY <2>1, AccountsStep DEF AccountsNext
  <2>2. CASE UNCHANGED accountVars
    BY <2>2 DEF accountVars, AccountsInv, AccountsType, Sound, OneWriter, Drafting,
                Adds, Promised, There, CallAt
  <2> QED
    BY <2>1, <2>2
<1> QED
  BY AccountsStart, <1>1, PTL DEF AccountsSpec

(* Whatever process dies at whatever step of create_account: an account    *)
(* has one profile, nobody shares a name or a number, and an account       *)
(* somebody was told of is there, without any help of the tables'          *)
(* constraints.                                                            *)
THEOREM AccountsAlwaysWhole == AccountsSpec => []AccountsWhole
<1>1. AccountsInv => AccountsWhole
  BY DEF AccountsInv, Sound, Promised, There, AccountsWhole
<1> QED
  BY AccountsInvariant, <1>1, PTL

-----------------------------------------------------------------------------
LoginOf(c, s) ==
  /\ c.pc \in {"read", "hash", "stamp", "answer"} => c.kind = "login"
  /\ c.pc = "schema" => c.kind \in {"create", "login"}
  /\ c.pc \in {"schema", "read"} => c.right = FALSE
  /\ c.pc = "hash" => \/ (\A a \in c.row : a.password = c.password) /\ TRUE \in s
                      \/ (\E a \in c.row : a.password # c.password) /\ FALSE \in s
  /\ c.pc \in {"stamp", "answer"} => c.right \in s

LoginsInv ==
  /\ AccountsInv
  /\ \A p \in Caller : LoginOf(call[p], seen[p])

(* A login that goes on keeps what it saw, and sees the tables as they     *)
(* are.                                                                    *)
LEMMA LoginSees ==
  ASSUME Sees, NEW p \in Caller, call'[p].kind = "login"
  PROVE  /\ seen[p] \subseteq seen'[p]
         /\ Right(base', call'[p]) => TRUE \in seen'[p]
         /\ ~Right(base', call'[p]) => FALSE \in seen'[p]
<1>1. seen'[p] = seen[p] \cup {Right(base', call'[p])}
  BY DEF Sees
<1>2. CASE Right(base', call'[p])
  <2>1. Right(base', call'[p]) = TRUE
    BY <1>2
  <2> QED
    BY <1>1, <2>1, <1>2, Zenon
<1>3. CASE ~Right(base', call'[p])
  <2>1. Right(base', call'[p]) = FALSE
    BY <1>3 DEF Right
  <2> QED
    BY <1>1, <2>1, <1>3, Zenon
<1> QED
  BY <1>1, <1>2, <1>3

(* Somebody else's step takes nothing from what a login has seen.          *)
LEMMA LoginStays ==
  ASSUME Sees, NEW p \in Caller, LoginOf(call[p], seen[p]), call'[p] = call[p]
  PROVE  LoginOf(call'[p], seen'[p])
BY LoginSees DEF LoginOf

(* No login is under way at first.                                         *)
LEMMA LoginsStart == AccountsInit => LoginsInv
BY AccountsStart DEF AccountsInit, LoginsInv, LoginOf, NoCall

(* Every step of verify_account keeps its answer one it has seen to be     *)
(* right.                                                                  *)
LEMMA LoginsStep == LoginsInv /\ AccountSteps /\ Sees => LoginsInv'
<1> SUFFICES ASSUME LoginsInv, AccountSteps, Sees
             PROVE  \A q \in Caller : LoginOf(call'[q], seen'[q])
  BY AccountsStep DEF LoginsInv
<1>0. AccountsInv /\ call \in [Caller -> CallRecord]
  BY DEF LoginsInv, AccountsInv, AccountsType, CallRecord
<1>1. CASE StatusChanges
  BY <1>1, LoginStays DEF StatusChanges, LoginsInv
<1>2. ASSUME NEW p \in Caller, LoginOf(call'[p], seen'[p]),
             NEW c, call' = [call EXCEPT ![p] = c]
      PROVE  \A q \in Caller : LoginOf(call'[q], seen'[q])
  <2> SUFFICES ASSUME NEW q \in Caller, q # p PROVE LoginOf(call'[q], seen'[q])
    BY <1>2
  <2>1. call'[q] = call[q]
    BY <1>0, <1>2
  <2> QED
    BY <2>1, LoginStays DEF LoginsInv
<1>3. ASSUME NEW p \in Caller, NEW c,
             call' = [call EXCEPT ![p] = c],
             c.pc \notin {"schema", "read", "hash", "stamp", "answer"}
      PROVE  \A q \in Caller : LoginOf(call'[q], seen'[q])
  <2>1. call'[p] = c
    BY <1>0, <1>3
  <2>2. LoginOf(call'[p], seen'[p])
    BY <1>3, <2>1 DEF LoginOf
  <2> QED
    BY <1>2, <1>3, <2>2
<1>4. ASSUME NEW p \in Caller, NEW kind \in {"create", "login"},
             NEW user \in User, NEW pw \in Password, Calls(p, kind, user, pw)
      PROVE  \A q \in Caller : LoginOf(call'[q], seen'[q])
  <2> DEFINE c == [NoCall EXCEPT !.pc = "schema", !.kind = kind,
                                 !.user = user, !.password = pw]
  <2>1. call' = [call EXCEPT ![p] = c] /\ c.pc = "schema" /\ c.right = FALSE
        /\ c.kind = kind
    BY <1>4 DEF Calls, NoCall
  <2> HIDE DEF c
  <2>2. call'[p] = c
    BY <1>0, <2>1
  <2>3. LoginOf(call'[p], seen'[p])
    BY <2>1, <2>2 DEF LoginOf
  <2> QED
    BY <1>2, <2>1, <2>3
<1>5. ASSUME NEW p \in Caller, StampsSchema(p)
      PROVE  \A q \in Caller : LoginOf(call'[q], seen'[q])
  <2> DEFINE c == [call[p] EXCEPT !.pc =
                     IF call[p].kind = "create" THEN "begin" ELSE "read"]
  <2>1. call' = [call EXCEPT ![p] = c] /\ call[p].pc = "schema"
    BY <1>5 DEF StampsSchema, CallGoes, CallAt
  <2>2. c.right = call[p].right /\ c.kind = call[p].kind
        /\ c.pc = IF call[p].kind = "create" THEN "begin" ELSE "read"
    BY <1>0 DEF CallRecord
  <2> HIDE DEF c
  <2>3. call'[p] = c
    BY <1>0, <2>1
  <2>4. call[p].kind \in {"create", "login"} /\ call[p].right = FALSE
    BY <1>0, <2>1 DEF LoginsInv, LoginOf, CallRecord, AccountsInv
  <2>5. LoginOf(call'[p], seen'[p])
    BY <2>2, <2>3, <2>4 DEF LoginOf
  <2> QED
    BY <1>2, <2>1, <2>5
<1>6. ASSUME NEW p \in Caller, Reads(p)
      PROVE  \A q \in Caller : LoginOf(call'[q], seen'[q])
  <2> DEFINE found == {a \in Named(base, call[p].user) : a.status = "active"}
             c == [call[p] EXCEPT !.row = found,
                                  !.pc = IF found = {} THEN "answer" ELSE "hash"]
  <2>1. call' = [call EXCEPT ![p] = c] /\ call[p].pc = "read" /\ base' = base
    BY <1>6, <1>0 DEF Reads, CallAt, CallRecord
  <2>2. c.right = call[p].right /\ c.kind = call[p].kind /\ c.row = found
        /\ c.pc = (IF found = {} THEN "answer" ELSE "hash")
        /\ c.user = call[p].user /\ c.password = call[p].password
    BY <1>0 DEF CallRecord
  <2> HIDE DEF c
  <2>3. call'[p] = c
    BY <1>0, <2>1
  <2>4. call[p].kind = "login" /\ call[p].right = FALSE
    BY <1>0, <2>1 DEF LoginsInv, LoginOf
  <2>5. Right(base', call'[p]) <=> \E a \in found : a.password = c.password
    BY <2>1, <2>2, <2>3 DEF Right, Named
  <2>6. \A a, b \in found : a = b
    BY <1>0 DEF AccountsInv, Sound, Named
  <2>7. /\ Right(base', call'[p]) => TRUE \in seen'[p]
        /\ ~Right(base', call'[p]) => FALSE \in seen'[p]
    BY <2>2, <2>3, <2>4, LoginSees
  <2> HIDE DEF found
  <2>8. LoginOf(c, seen'[p])
    <3>1. CASE found = {}
      BY <3>1, <2>2, <2>4, <2>5, <2>7 DEF LoginOf
    <3>2. CASE found # {}
      <4>1. CASE Right(base', call'[p])
        BY <4>1, <3>2, <2>2, <2>4, <2>5, <2>6, <2>7 DEF LoginOf
      <4>2. CASE ~Right(base', call'[p])
        BY <4>2, <3>2, <2>2, <2>4, <2>5, <2>6, <2>7 DEF LoginOf
      <4> QED
        BY <4>1, <4>2
    <3> QED
      BY <3>1, <3>2
  <2> QED
    BY <1>2, <2>1, <2>3, <2>8
<1>7. ASSUME NEW p \in Caller, NEW u \in BOOLEAN, Compares(p, u)
      PROVE  \A q \in Caller : LoginOf(call'[q], seen'[q])
  <2> DEFINE same == \A a \in call[p].row : a.password = call[p].password
             c == [call[p] EXCEPT !.right = same,
                                  !.pc = IF same /\ u THEN "stamp" ELSE "answer"]
  <2>1. call' = [call EXCEPT ![p] = c] /\ call[p].pc = "hash"
    BY <1>7, <1>0 DEF Compares, CallAt, CallRecord
  <2>2. c.right = same /\ c.kind = call[p].kind /\ c.pc \in {"stamp", "answer"}
    BY <1>0 DEF CallRecord
  <2> HIDE DEF c
  <2>3. call'[p] = c
    BY <1>0, <2>1
  <2>4. /\ call[p].kind = "login"
        /\ \/ same /\ TRUE \in seen[p]
           \/ ~same /\ FALSE \in seen[p]
    BY <1>0, <2>1 DEF LoginsInv, LoginOf
  <2>5. same \in BOOLEAN
    OBVIOUS
  <2> HIDE DEF same
  <2>6. seen[p] \subseteq seen'[p]
    BY <2>2, <2>3, <2>4, LoginSees
  <2>7. same \in seen[p]
    <3>1. CASE same
      <4>1. same = TRUE
        BY <3>1, <2>5
      <4> QED
        BY <4>1, <3>1, <2>4, Zenon
    <3>2. CASE ~same
      <4>1. same = FALSE
        BY <3>2, <2>5
      <4> QED
        BY <4>1, <3>2, <2>4, Zenon
    <3> QED
      BY <3>1, <3>2
  <2>8. c.right \in seen'[p]
    BY <2>2, <2>6, <2>7, Zenon
  <2>9. LoginOf(c, seen'[p])
    BY <2>2, <2>4, <2>8 DEF LoginOf
  <2> QED
    BY <1>2, <2>1, <2>3, <2>9
<1>8. ASSUME NEW p \in Caller, StampsLogin(p)
      PROVE  \A q \in Caller : LoginOf(call'[q], seen'[q])
  <2> DEFINE c == [call[p] EXCEPT !.pc = "answer"]
  <2>1. call' = [call EXCEPT ![p] = c] /\ call[p].pc = "stamp"
    BY <1>8 DEF StampsLogin, CallGoes, CallAt
  <2>2. c.right = call[p].right /\ c.kind = call[p].kind /\ c.pc = "answer"
    BY <1>0 DEF CallRecord
  <2> HIDE DEF c
  <2>3. call'[p] = c
    BY <1>0, <2>1
  <2>4. call[p].kind = "login" /\ call[p].right \in seen[p]
    BY <1>0, <2>1 DEF LoginsInv, LoginOf
  <2>5. seen[p] \subseteq seen'[p]
    BY <2>2, <2>3, <2>4, LoginSees
  <2>6. c.right \in seen'[p]
    BY <2>2, <2>4, <2>5
  <2>7. LoginOf(c, seen'[p])
    BY <2>2, <2>4, <2>6 DEF LoginOf
  <2> QED
    BY <1>2, <2>1, <2>3, <2>7
<1>9. ASSUME NEW p \in Caller, MakesTable(p)
      PROVE  \A q \in Caller : LoginOf(call'[q], seen'[q])
  BY <1>9, LoginStays DEF MakesTable, LoginsInv
<1>10. ASSUME NEW p \in Caller, NEW pc, CallGoes(p, pc),
              pc \notin {"schema", "read", "hash", "stamp", "answer"}
       PROVE  \A q \in Caller : LoginOf(call'[q], seen'[q])
  <2> DEFINE c == [call[p] EXCEPT !.pc = pc]
  <2>1. call' = [call EXCEPT ![p] = c]
    BY <1>10 DEF CallGoes
  <2>2. c.pc = pc
    BY <1>0 DEF CallRecord
  <2> HIDE DEF c
  <2> QED
    BY <1>3, <1>10, <2>1, <2>2
<1>11. ASSUME NEW p \in Caller, CallEnds(p)
       PROVE  \A q \in Caller : LoginOf(call'[q], seen'[q])
  BY <1>3, <1>11 DEF CallEnds, NoCall
<1>12. ASSUME NEW p \in Caller, InsertsAccount(p)
       PROVE  \A q \in Caller : LoginOf(call'[q], seen'[q])
  <2>1. PICK row : call' = [call EXCEPT ![p].pc = "profile", ![p].row = row]
    BY <1>12 DEF InsertsAccount
  <2> DEFINE c == [call[p] EXCEPT !.pc = "profile", !.row = row]
  <2>2. call' = [call EXCEPT ![p] = c] /\ c.pc = "profile"
    BY <1>0, <2>1 DEF CallRecord
  <2> HIDE DEF c
  <2> QED
    BY <1>3, <2>2
<1>13. ASSUME NEW p \in Caller,
              \/ Begins(p) \/ Checks(p) \/ InsertsProfile(p) \/ Commits(p)
              \/ Created(p) \/ LoginAnswered(p) \/ Locked(p) \/ CallerDies(p)
       PROVE  \A q \in Caller : LoginOf(call'[q], seen'[q])
  <2>1. CallEnds(p) \/ \E pc \in {"check", "account", "commit", "created"} :
                         CallGoes(p, pc)
    BY <1>13 DEF Begins, Checks, RollsBack, InsertsProfile, Commits, Created,
                 LoginAnswered, Locked, CallerDies
  <2> QED
    BY <1>10, <1>11, <2>1
<1> QED
  BY <1>1, <1>4, <1>5, <1>6, <1>7, <1>8, <1>9, <1>12, <1>13 DEF AccountSteps

(* verify_account answers what was right at some time between the call and *)
(* the answer, although it hashes over a row that others change meanwhile. *)
THEOREM LoginsAlwaysRight == AccountsSpec => []LoginsRight
<1>1. LoginsInv /\ [AccountsNext]_accountVars => LoginsInv'
  <2> SUFFICES ASSUME LoginsInv, [AccountsNext]_accountVars PROVE LoginsInv'
    OBVIOUS
  <2>1. CASE AccountsNext
    BY <2>1, LoginsStep DEF AccountsNext
  <2>2. CASE UNCHANGED accountVars
    BY <2>2, ZenonT(60) DEF accountVars, LoginsInv, LoginOf, AccountsInv, AccountsType, Sound,
                OneWriter, Drafting, Adds, Promised, There, CallAt
  <2> QED
    BY <2>1, <2>2
<1>2. LoginsInv => LoginsRight
  BY DEF LoginsInv, LoginOf, LoginsRight, CallAt
<1> QED
  BY LoginsStart, <1>1, <1>2, PTL DEF AccountsSpec

-----------------------------------------------------------------------------
(* Induction: a set of naturals with no least element is empty, so a set   *)
(* with 0 in it and with n + 1 for every n has all of them.                *)
LEMMA LeastNatural ==
  ASSUME NEW S \in SUBSET Nat, S # {}
  PROVE  \E m \in S : \A k \in S : m <= k
<1> DEFINE R == OpToRel(<, Nat)
<1>1. IsWellFoundedOn(R, Nat)
  BY NatLessThanWellFounded
<1>3. \A k, m \in S : k < m => <<k, m>> \in R
  <2> SUFFICES ASSUME NEW k \in S, NEW m \in S, k < m PROVE <<k,m>> \in R
    OBVIOUS
  <2> QED
    BY DEF OpToRel
<1> HIDE DEF R
<1>2. \E m \in S : \A k \in S : <<k, m>> \notin R
  BY <1>1, WFMin
<1>4. PICK m \in S : \A k \in S : <<k, m>> \notin R
  BY <1>2
<1>5. ASSUME NEW k \in S PROVE m <= k
  <2>1. <<k, m>> \notin R
    BY <1>4
  <2>2. ~(k < m)
    BY <1>3, <2>1
  <2>3. k \in Nat /\ m \in Nat
    OBVIOUS
  <2> QED
    BY <2>2, <2>3
<1> QED
  BY <1>4, <1>5

(* So a set with 0 in it, and with n + 1 for every n, has all naturals.    *)
LEMMA SetInduction ==
  ASSUME NEW S, 0 \in S, \A n \in Nat : n \in S => n + 1 \in S
  PROVE  Nat \subseteq S
<1> SUFFICES ASSUME Nat \ S # {} PROVE FALSE
  OBVIOUS
<1>1. PICK m \in Nat \ S : \A k \in Nat \ S : m <= k
  BY LeastNatural
<1>2. m # 0 /\ m - 1 \in Nat /\ m - 1 \in S
  BY <1>1
<1> QED
  BY <1>1, <1>2

(* Quotient and remainder.                                                 *)
LEMMA QuotientUnique ==
  ASSUME NEW p \in Nat \ {0}, NEW k \in Nat, NEW j \in Nat,
         NEW r \in 0 .. p - 1, NEW s \in 0 .. p - 1, p * k + r = p * j + s
  PROVE  k = j /\ r = s
<1>1. ASSUME NEW x \in Nat, NEW y \in Nat, x < y PROVE p * x + p <= p * y
  <2>1. PICK z \in Nat : y = x + 1 + z
    <3>1. y - x - 1 \in Nat
      BY <1>1
    <3> QED
      BY <3>1, y = x + 1 + (y - x - 1)
  <2>2. p * y = p * x + p + p * z
    BY <2>1
  <2>3. p * z \in Nat
    BY <2>1
  <2> QED
    BY <2>2, <2>3
<1>2. CASE k < j
  <2>1. p * k + p <= p * j
    BY <1>1, <1>2
  <2>2. p * k \in Nat /\ p * j \in Nat
    OBVIOUS
  <2> QED
    BY <2>1, <2>2
<1>3. CASE j < k
  <2>1. p * j + p <= p * k
    BY <1>1, <1>3
  <2>2. p * k \in Nat /\ p * j \in Nat
    OBVIOUS
  <2> QED
    BY <2>1, <2>2
<1> QED
  BY <1>2, <1>3

(* What is left of a multiple and a remainder.                             *)
LEMMA RemainderOf ==
  ASSUME NEW p \in Nat \ {0}, NEW k \in Nat, NEW r \in 0 .. p - 1
  PROVE  (p * k + r) % p = r /\ (p * k + r) \div p = k
<1> DEFINE n == p * k + r
           j == n \div p
           s == n % p
<1>1. n \in Nat
  OBVIOUS
<1>2. n = p * j + s /\ j \in Nat /\ s \in 0 .. p - 1
  BY <1>1
<1> HIDE DEF j, s
<1>3. p * k + r = p * j + s
  BY <1>2
<1>4. k = j /\ r = s
  BY <1>2, <1>3, QuotientUnique
<1> QED
  BY <1>4 DEF j, s

(* A factor may be reduced before it is multiplied.                        *)
LEMMA ModTimes ==
  ASSUME NEW p \in Nat \ {0}, NEW a \in Nat, NEW b \in Nat
  PROVE  ((a % p) * b) % p = (a * b) % p
<1> DEFINE q == a \div p
           r == a % p
           t == (r * b) \div p
           u == (r * b) % p
<1>1. a = p * q + r /\ q \in Nat /\ r \in 0 .. p - 1
  OBVIOUS
<1> HIDE DEF q, r
<1>2. r * b \in Nat
  BY <1>1
<1>3. r * b = p * t + u /\ t \in Nat /\ u \in 0 .. p - 1
  <2> DEFINE n == r * b
  <2>1. n \in Nat
    BY <1>2
  <2> HIDE DEF n
  <2>2. n = p * (n \div p) + (n % p) /\ n \div p \in Nat /\ n % p \in 0 .. p - 1
    BY <2>1
  <2> QED
    BY <2>2 DEF n, t, u
<1> HIDE DEF t, u
<1>4. a * b = p * (q * b + t) + u
  <2>1. a * b = (p * q + r) * b
    BY <1>1
  <2>2. (p * q + r) * b = p * (q * b) + r * b
    <3>1. \A x, y, z \in Int : (x + y) * z = x * z + y * z
      OBVIOUS
    <3>2. \A x, y, z \in Int : (x * y) * z = x * (y * z)
      OBVIOUS
    <3>3. p * q \in Int /\ r \in Int /\ b \in Int /\ p \in Int /\ q \in Int
      BY <1>1
    <3> QED
      BY <3>1, <3>2, <3>3
  <2>3. p * (q * b) + (p * t + u) = p * (q * b + t) + u
    BY <1>1, <1>3
  <2> QED
    BY <2>1, <2>2, <2>3, <1>3
<1>5. q * b + t \in Nat
  BY <1>1, <1>3
<1>6. (a * b) % p = u
  BY <1>3, <1>4, <1>5, RemainderOf
<1> QED
  BY <1>6 DEF u, r

(* A function defined by recursion over the naturals is there: on each     *)
(* interval there is one part of it, and the parts agree.                  *)
Recursive(f, v, g) == f = [n \in Nat |-> IF n = 0 THEN v ELSE g[n][f[n - 1]]]

(* A function defined by recursion over the naturals is there.             *)
LEMMA Recursion ==
  ASSUME NEW V, NEW v \in V, NEW g \in [Nat -> [V -> V]]
  PROVE  \E f \in [Nat -> V] : Recursive(f, v, g)
<1> DEFINE UpTo(k) == {f \in [0 .. k -> V] :
                         f[0] = v /\ \A i \in 1 .. k : f[i] = g[i][f[i - 1]]}
<1>1. \A k \in Nat : UpTo(k) # {}
  <2> DEFINE S == {k \in Nat : UpTo(k) # {}}
  <2>1. 0 \in S
    <3>1. [i \in 0 .. 0 |-> v] \in UpTo(0)
      OBVIOUS
    <3> QED
      BY <3>1
  <2>2. ASSUME NEW k \in Nat, k \in S PROVE k + 1 \in S
    <3>1. PICK f \in [0 .. k -> V] : f[0] = v /\ \A i \in 1 .. k : f[i] = g[i][f[i - 1]]
      BY <2>2
    <3> DEFINE h == [i \in 0 .. k + 1 |-> IF i <= k THEN f[i] ELSE g[k + 1][f[k]]]
    <3>2. h \in [0 .. k + 1 -> V]
      <4>1. k \in 0 .. k /\ f[k] \in V
        BY <3>1
      <4>2. g[k + 1][f[k]] \in V
        BY <4>1
      <4> QED
        BY <3>1, <4>2
    <3>3. h[0] = v
      BY <3>1
    <3>4. ASSUME NEW i \in 1 .. k + 1 PROVE h[i] = g[i][h[i - 1]]
      <4>1. CASE i <= k
        BY <3>1, <4>1
      <4>2. CASE i = k + 1
        BY <4>2
      <4> QED
        BY <4>1, <4>2
    <3> HIDE DEF h
    <3>5. h \in UpTo(k + 1)
      BY <3>2, <3>3, <3>4
    <3> QED
      BY <3>5
  <2> HIDE DEF S
  <2>3. Nat \subseteq S
    BY <2>1, <2>2, SetInduction
  <2> QED
    BY <2>3 DEF S
<1>2. ASSUME NEW k \in Nat, NEW l \in Nat, k <= l, NEW f \in UpTo(k), NEW h \in UpTo(l)
      PROVE  f[k] = h[k]
  <2> DEFINE S == {i \in Nat : i <= k => f[i] = h[i]}
  <2>1. 0 \in S
    OBVIOUS
  <2>2. ASSUME NEW i \in Nat, i \in S PROVE i + 1 \in S
    <3>1. SUFFICES ASSUME i + 1 <= k PROVE f[i + 1] = h[i + 1]
      OBVIOUS
    <3>2. f[i] = h[i]
      BY <2>2, <3>1
    <3>3. i + 1 \in 1 .. k /\ i + 1 \in 1 .. l /\ i + 1 - 1 = i
      BY <1>2, <3>1
    <3>4. f[i + 1] = g[i + 1][f[i]]
      BY <3>3
    <3>5. h[i + 1] = g[i + 1][h[i]]
      BY <3>3
    <3> QED
      BY <3>2, <3>4, <3>5
  <2> HIDE DEF S
  <2>3. Nat \subseteq S
    BY <2>1, <2>2, SetInduction
  <2> QED
    BY <2>3 DEF S
<1> DEFINE part(k) == CHOOSE f \in UpTo(k) : TRUE
           F == [n \in Nat |-> part(n)[n]]
<1>3. \A k \in Nat : part(k) \in UpTo(k)
  BY <1>1
<1> HIDE DEF part
<1>4. F \in [Nat -> V]
  <2>1. ASSUME NEW k \in Nat PROVE part(k)[k] \in V
    <3>1. part(k) \in [0 .. k -> V]
      BY <1>3
    <3> QED
      BY <3>1
  <2> QED
    BY <2>1
<1>5. F[0] = v
  BY <1>3
<1>6. ASSUME NEW n \in Nat \ {0} PROVE F[n] = g[n][F[n - 1]]
  <2>1. n - 1 \in Nat /\ n - 1 <= n
    OBVIOUS
  <2>2. part(n - 1) \in UpTo(n - 1) /\ part(n) \in UpTo(n)
    BY <1>3, <2>1
  <2>3. part(n)[n] = g[n][part(n)[n - 1]]
    BY <2>2
  <2>4. part(n - 1)[n - 1] = part(n)[n - 1]
    <3> HIDE DEF UpTo
    <3> QED
      BY <1>2, <2>1, <2>2
  <2> QED
    BY <2>1, <2>3, <2>4
<1> HIDE DEF F
<1>7. F = [n \in Nat |-> IF n = 0 THEN v ELSE g[n][F[n - 1]]]
  BY <1>4, <1>5, <1>6
<1> QED
  BY <1>4, <1>7 DEF Recursive

(* The numbers of the exchange.                                            *)
Residue == 0 .. Prime - 1

(* The equations of Power.                                                 *)
LEMMA PowerStep ==
  ASSUME NEW b \in Nat
  PROVE  /\ Power(b, 0) = 1
         /\ \A e \in Nat : Power(b, e) \in Residue /\ Power(b, e + 1) = (b * Power(b, e)) % Prime
<1> DEFINE p == CHOOSE f : f = [n \in Nat |-> IF n = 0 THEN 1 ELSE (b * f[n - 1]) % Prime]
           g == [n \in Nat |-> [v \in Residue |-> (b * v) % Prime]]
<1>1. Prime \in Nat /\ Prime > 2
  BY AuthAssumption
<1>2. g \in [Nat -> [Residue -> Residue]]
  <2>1. ASSUME NEW v \in Residue PROVE (b * v) % Prime \in Residue
    <3>1. b * v \in Nat
      BY <1>1 DEF Residue
    <3> HIDE DEF Residue
    <3>2. \A n \in Nat : n % Prime \in 0 .. Prime - 1
      BY <1>1
    <3> QED
      BY <3>1, <3>2 DEF Residue
  <2> QED
    BY <2>1
<1>3. \A n \in Nat, v \in Residue : g[n][v] = (b * v) % Prime
  OBVIOUS
<1> HIDE DEF g
<1>4. 1 \in Residue
  BY <1>1 DEF Residue
<1>5. \E f \in [Nat -> Residue] : f = [n \in Nat |-> IF n = 0 THEN 1 ELSE (b * f[n - 1]) % Prime]
  <2>1. PICK f \in [Nat -> Residue] : Recursive(f, 1, g)
    BY <1>2, <1>4, Recursion
  <2>2. f = [n \in Nat |-> IF n = 0 THEN 1 ELSE g[n][f[n - 1]]]
    BY <2>1 DEF Recursive
  <2>3. \A n \in Nat \ {0} : n - 1 \in Nat /\ f[n - 1] \in Residue
    BY <2>1
  <2>4. f = [n \in Nat |-> IF n = 0 THEN 1 ELSE (b * f[n - 1]) % Prime]
    BY <1>3, <2>2, <2>3
  <2> QED
    BY <2>4
<1>6. p = [n \in Nat |-> IF n = 0 THEN 1 ELSE (b * p[n - 1]) % Prime]
  BY <1>5
<1>7. \A e : Power(b, e) = p[e]
  BY DEF Power
<1> HIDE DEF p
<1>8. p[0] = 1
  BY <1>6
<1>9. ASSUME NEW e \in Nat PROVE p[e + 1] = (b * p[e]) % Prime
  BY <1>6
<1>10. \A e \in Nat : p[e] \in Residue
  <2> DEFINE T == {e \in Nat : p[e] \in Residue}
  <2>1. 0 \in T
    BY <1>4, <1>8
  <2>2. ASSUME NEW e \in Nat, e \in T PROVE e + 1 \in T
    <3>1. b * p[e] \in Nat
      BY <2>2, <1>1 DEF Residue
    <3>2. \A n \in Nat : n % Prime \in 0 .. Prime - 1
      BY <1>1
    <3>3. p[e + 1] \in Residue
      BY <3>1, <3>2, <1>9 DEF Residue
    <3> QED
      BY <3>3
  <2> HIDE DEF T
  <2>3. Nat \subseteq T
    BY <2>1, <2>2, SetInduction
  <2> QED
    BY <2>3 DEF T
<1> QED
  BY <1>7, <1>8, <1>9, <1>10

(* Both factors may be.                                                    *)
LEMMA ModBoth ==
  ASSUME NEW p \in Nat \ {0}, NEW a \in Nat, NEW b \in Nat
  PROVE  ((a % p) * (b % p)) % p = (a * b) % p
<1>1. a % p \in Nat /\ b % p \in Nat
  OBVIOUS
<1>2. ((a % p) * (b % p)) % p = (a * (b % p)) % p
  BY <1>1, ModTimes
<1>3. ((b % p) * a) % p = (b * a) % p
  BY ModTimes
<1>4. (b % p) * a = a * (b % p) /\ b * a = a * b
  BY <1>1
<1> QED
  BY <1>2, <1>3, <1>4

(* A product is raised factor by factor.                                   *)
LEMMA PowerOfProduct ==
  ASSUME NEW b \in Nat, NEW c \in Nat
  PROVE  \A e \in Nat : Power((b * c) % Prime, e) = (Power(b, e) * Power(c, e)) % Prime
<1> DEFINE d == (b * c) % Prime
           S == {e \in Nat : Power(d, e) = (Power(b, e) * Power(c, e)) % Prime}
<1>1. Prime \in Nat \ {0} /\ Prime > 2
  BY AuthAssumption
<1>2. d \in Nat
  <2>1. b * c \in Nat
    OBVIOUS
  <2>2. \A n \in Nat : n % Prime \in Nat
    BY <1>1
  <2> QED
    BY <2>1, <2>2
<1>3. 0 \in S
  <2>1. Power(d, 0) = 1 /\ Power(b, 0) = 1 /\ Power(c, 0) = 1
    BY <1>2, PowerStep
  <2>2. 1 * 1 = 1 /\ 1 % Prime = 1
    BY <1>1
  <2> QED
    BY <2>1, <2>2
<1> HIDE DEF d
<1>4. ASSUME NEW e \in Nat, e \in S PROVE e + 1 \in S
  <2> DEFINE B == Power(b, e)
             C == Power(c, e)
             bB == b * B
             cC == c * C
             bc == b * c
             BC == B * C
  <2>1. \A n \in Nat : Power(n, e) \in Nat /\ Power(n, e + 1) = (n * Power(n, e)) % Prime
    BY PowerStep DEF Residue
  <2>2. B \in Nat /\ C \in Nat
    BY <2>1
  <2>3. Power(d, e + 1) = (d * (BC % Prime)) % Prime
    BY <1>2, <1>4, <2>1
  <2>4. Power(b, e + 1) = bB % Prime /\ Power(c, e + 1) = cC % Prime
    BY <2>1
  <2> HIDE DEF B, C
  <2>5. bc * BC = bB * cC
    <3>1. \A r, s, t, u \in Nat : (r * s) * (t * u) = (r * t) * (s * u)
      OBVIOUS
    <3> QED
      BY <3>1, <2>2
  <2>6. bc \in Nat /\ BC \in Nat /\ bB \in Nat /\ cC \in Nat /\ d = bc % Prime
    BY <2>2 DEF d
  <2> HIDE DEF bc, BC, bB, cC
  <2>7. \A r, s \in Nat : ((r % Prime) * (s % Prime)) % Prime = (r * s) % Prime
    BY <1>1, ModBoth
  <2>8. Power(d, e + 1) = (bc * BC) % Prime
    BY <2>3, <2>6, <2>7
  <2>9. (Power(b, e + 1) * Power(c, e + 1)) % Prime = (bB * cC) % Prime
    BY <2>4, <2>6, <2>7
  <2>10. e + 1 \in Nat
    OBVIOUS
  <2> QED
    BY <2>5, <2>8, <2>9, <2>10
<1> HIDE DEF S
<1>5. Nat \subseteq S
  BY <1>3, <1>4, SetInduction
<1> QED
  BY <1>5 DEF S, d

(* Both sides of the exchange come to one number.                          *)
LEMMA PowersSwap ==
  ASSUME NEW g \in Nat, NEW x \in Nat
  PROVE  \A y \in Nat : Power(Power(g, x), y) = Power(Power(g, y), x)
<1> DEFINE S == {y \in Nat : Power(Power(g, x), y) = Power(Power(g, y), x)}
<1>1. Prime \in Nat \ {0} /\ Prime > 2
  BY AuthAssumption
<1>2. \A e \in Nat : Power(g, e) \in Nat
  BY PowerStep DEF Residue
<1>3. 0 \in S
  <2> DEFINE T == {e \in Nat : Power(1, e) = 1}
  <2>1. 0 \in T
    BY PowerStep
  <2>2. ASSUME NEW e \in Nat, e \in T PROVE e + 1 \in T
    <3>1. Power(1, e + 1) = (1 * 1) % Prime
      BY <2>2, PowerStep
    <3>2. 1 * 1 = 1 /\ 1 % Prime = 1
      BY <1>1
    <3> QED
      BY <3>1, <3>2
  <2> HIDE DEF T
  <2>3. Nat \subseteq T
    BY <2>1, <2>2, SetInduction
  <2>4. Power(1, x) = 1
    BY <2>3 DEF T
  <2>5. Power(Power(g, x), 0) = 1 /\ Power(g, 0) = 1
    BY <1>2, PowerStep
  <2> QED
    BY <2>4, <2>5
<1>4. ASSUME NEW y \in Nat, y \in S PROVE y + 1 \in S
  <2> DEFINE a == Power(g, x)
             b == Power(g, y)
  <2>1. a \in Nat /\ b \in Nat
    BY <1>2
  <2>2. Power(a, y) = Power(b, x) /\ Power(g, y + 1) = (g * b) % Prime
    BY <1>4, PowerStep
  <2>3. Power(a, y + 1) = (a * Power(a, y)) % Prime
    BY <2>1, PowerStep
  <2> HIDE DEF b
  <2>4. Power((g * b) % Prime, x) = (Power(g, x) * Power(b, x)) % Prime
    BY <2>1, PowerOfProduct
  <2>5. y + 1 \in Nat
    OBVIOUS
  <2> QED
    BY <2>2, <2>3, <2>4, <2>5
<1> HIDE DEF S
<1>5. Nat \subseteq S
  BY <1>3, <1>4, SetInduction
<1> QED
  BY <1>5 DEF S

(* A number whose first digit is not zero is hashed alike on both sides.   *)
LEMMA NothingLeftOut ==
  ASSUME NEW n, Fixed(n)[1] # 0
  PROVE  Minimal(n) = Fixed(n)
<1> DEFINE d == Fixed(n)
<1>1. Width \in Nat \ {0}
  BY AuthAssumption
<1>2. d = [i \in 1 .. Width |-> d[i]]
  BY DEF Fixed
<1> HIDE DEF d
<1>3. d[1] # 0
  BY DEF d
<1>4. ASSUME NEW i \in 1 .. Width, \A j \in 1 .. i - 1 : d[j] = 0 PROVE i = 1
  <2>1. CASE i > 1
    <3>1. 1 \in 1 .. i - 1
      BY <2>1
    <3> QED
      BY <3>1, <1>3, <1>4
  <2> QED
    BY <2>1
<1>5. 1 \in 1 .. Width /\ \A j \in 1 .. 1 - 1 : d[j] = 0
  BY <1>1
<1>6. (CHOOSE i \in 1 .. Width :
         (d[i] # 0 \/ i = Width) /\ \A j \in 1 .. i - 1 : d[j] = 0) = 1
  BY <1>3, <1>4, <1>5
<1>7. SubSeq(d, 1, Width) = d
  BY <1>1, <1>2
<1> QED
  BY <1>6, <1>7 DEF Minimal, d

(* What is unpadded is what was padded.                                    *)
LEMMA PaddingComesOff ==
  ASSUME NEW text \in Plain
  PROVE  Unpad(Pad(text)) = text
<1> DEFINE l == Len(text)
           m == l % Block
           q == l \div Block
           r == IF m = 0 THEN Block ELSE m
           k == IF m = 0 THEN q - 1 ELSE q
           body == SubSeq(text, 1, l - r)
           tail == SubSeq(text, l - r + 1, l)
           area == [i \in 1 .. 2 * Block |-> IF i <= r THEN tail[i]
                                            ELSE IF i = Block + 1 THEN Block - r ELSE 0]
           s == body \o area
<1>1. Block \in Nat \ {0} /\ Block >= 2
  BY AuthAssumption
<1>2. PICK D : text \in Seq(D) /\ text # <<>>
  BY AuthAssumption
<1>3. l \in Nat \ {0}
  BY <1>2
<1> HIDE DEF l
<1>4. l = Block * q + m /\ q \in Nat /\ m \in 0 .. Block - 1
  BY <1>1, <1>3
<1> HIDE DEF m, q
<1>5. r \in 1 .. Block /\ k \in Nat /\ l = Block * k + r
  <2>1. CASE m = 0
    <3>1. q # 0
      BY <1>1, <1>3, <1>4, <2>1
    <3>2. q - 1 \in Nat /\ Block * q = Block * (q - 1) + Block
      BY <1>1, <1>4, <3>1
    <3> QED
      BY <1>1, <1>4, <2>1, <3>2
  <2>2. CASE m # 0
    BY <1>1, <1>4, <2>2
  <2> QED
    BY <2>1, <2>2
<1>6. Pad(text) = s
  BY DEF Pad, l, m
<1> HIDE DEF r, k
<1>7. l - r \in Nat /\ l - r = Block * k
  <2>1. Block * k \in Nat
    BY <1>1, <1>5
  <2> QED
    BY <1>5, <2>1
<1>8. body \in Seq(D) /\ Len(body) = l - r /\ \A i \in 1 .. l - r : body[i] = text[i]
  <2>1. \A i \in 1 .. l - r : text[i] \in D
    BY <1>2, <1>3, <1>5 DEF l
  <2>2. l - r \in Int /\ 1 \in Int
    BY <1>7
  <2> QED
    BY <1>7, <2>1, <2>2, SubSeqProperties
<1>9. tail \in Seq(D) /\ Len(tail) = r /\ \A i \in 1 .. r : tail[i] = text[l - r + i]
  <2>1. \A i \in l - r + 1 .. l : text[i] \in D
    BY <1>2, <1>3, <1>7 DEF l
  <2>2. l - r + 1 \in Int /\ l \in Int /\ l - (l - r + 1) + 1 = r /\ r \in Nat /\ l - r + 1 <= l
    BY <1>3, <1>5, <1>7
  <2>3. /\ tail \in Seq(D) /\ Len(tail) = r
        /\ \A i \in 1 .. r : tail[i] = text[l - r + 1 + i - 1]
    BY <2>1, <2>2, SubSeqProperties
  <2>4. \A i \in 1 .. r : l - r + 1 + i - 1 = l - r + i
    BY <1>3, <1>5
  <2> QED
    BY <2>3, <2>4
<1> HIDE DEF body, tail
<1>10. /\ area \in Seq(D \cup Nat) /\ Len(area) = 2 * Block
       /\ \A i \in 1 .. r : area[i] = tail[i]
       /\ area[Block + 1] = Block - r
  <2>1. 2 * Block \in Nat /\ r <= 2 * Block /\ Block + 1 \in 1 .. 2 * Block /\ r <= Block
    BY <1>1, <1>5
  <2>2. \A i \in 1 .. r : tail[i] \in D
    BY <1>9
  <2>3. Block - r \in Nat
    BY <1>1, <1>5
  <2>4. area \in [1 .. 2 * Block -> D \cup Nat]
    BY <2>2, <2>3
  <2>5. \A i \in 1 .. r : area[i] = tail[i]
    BY <1>5, <2>1
  <2>6. area[Block + 1] = Block - r
    <3>1. ~(Block + 1 <= r)
      BY <1>1, <1>5
    <3> QED
      BY <2>1, <3>1
  <2> HIDE DEF area
  <2> QED
    BY <2>1, <2>4, <2>5, <2>6
<1> HIDE DEF area
<1>11. /\ Len(s) = l - r + 2 * Block
       /\ \A i \in 1 .. l - r : s[i] = body[i]
       /\ \A i \in 1 .. 2 * Block : s[l - r + i] = area[i]
       /\ s \in Seq(D \cup Nat)
  <2>1. body \in Seq(D \cup Nat)
    BY <1>8
  <2>2. /\ s \in Seq(D \cup Nat) /\ Len(s) = Len(body) + Len(area)
        /\ \A i \in 1 .. Len(body) + Len(area) :
              s[i] = IF i <= Len(body) THEN body[i] ELSE area[i - Len(body)]
    BY <1>10, <2>1, ConcatProperties
  <2> HIDE DEF s
  <2>3. Len(body) = l - r /\ Len(area) = 2 * Block /\ l - r \in Nat /\ 2 * Block \in Nat
    BY <1>1, <1>7, <1>8, <1>10
  <2>4. ASSUME NEW i \in 1 .. 2 * Block PROVE s[l - r + i] = area[i]
    <3> DEFINE x == l - r + i
    <3>1. x \in 1 .. Len(body) + Len(area) /\ ~(x <= Len(body)) /\ x - Len(body) = i
      BY <2>3
    <3> HIDE DEF x
    <3>2. s[x] = area[x - Len(body)]
      BY <2>2, <3>1
    <3> QED
      BY <3>1, <3>2 DEF x
  <2> QED
    BY <2>2, <2>3, <2>4
<1> HIDE DEF s
<1>12. s[Len(s) - Block + 1] = Block - r
  <2>1. Len(s) - Block + 1 = l - r + (Block + 1) /\ Block + 1 \in 1 .. 2 * Block
    BY <1>1, <1>3, <1>5, <1>11
  <2> QED
    BY <1>10, <1>11, <2>1
<1>13. /\ Len(s) - (Block + (Block - r)) = l /\ Len(s) >= 2 * Block
       /\ ~(Block - r > Block - 1) /\ ~(l < 0)
  BY <1>1, <1>3, <1>5, <1>7, <1>11
<1>14. Len(s) % Block = 0
  <2>1. Len(s) = Block * (k + 2) + 0
    BY <1>1, <1>5, <1>7, <1>11
  <2>2. k + 2 \in Nat /\ 0 \in 0 .. Block - 1
    BY <1>1, <1>5
  <2> QED
    BY <1>1, <2>1, <2>2, RemainderOf
<1>15. SubSeq(s, 1, l) = text
  <2>1. ASSUME NEW i \in 1 .. l PROVE s[i] = text[i]
    <3>1. CASE i <= l - r
      BY <1>7, <1>8, <1>11, <3>1
    <3>2. CASE i > l - r
      <4>1. PICK j \in 1 .. r : i = l - r + j
        <5>1. i - (l - r) \in 1 .. r /\ i = l - r + (i - (l - r))
          BY <1>3, <1>5, <3>2
        <5> QED
          BY <5>1
      <4>2. j \in 1 .. 2 * Block
        BY <1>1, <1>5
      <4> QED
        BY <1>9, <1>10, <1>11, <4>1, <4>2
    <3> QED
      BY <3>1, <3>2, <1>3, <1>5
  <2>2. l <= Len(s)
    BY <1>1, <1>3, <1>5, <1>11
  <2>3. /\ SubSeq(s, 1, l) \in Seq(D \cup Nat) /\ Len(SubSeq(s, 1, l)) = l
        /\ \A i \in 1 .. l : SubSeq(s, 1, l)[i] = s[i]
    BY <1>3, <1>11, <2>2
  <2>4. text \in Seq(D \cup Nat) /\ Len(text) = l
    BY <1>2 DEF l
  <2> QED
    BY <2>1, <2>3, <2>4
<1>16. Unpad(s) = text
  <2> DEFINE marker == s[Len(s) - Block + 1]
             n == Len(s) - (Block + marker)
  <2>1. Unpad(s) = IF Len(s) < 2 * Block \/ Len(s) % Block # 0 THEN <<>>
                   ELSE IF marker > Block - 1 \/ n < 0 THEN <<>>
                   ELSE SubSeq(s, 1, n)
    BY DEF Unpad
  <2>2. marker = Block - r
    BY <1>12
  <2> HIDE DEF marker
  <2>3. n = l
    BY <1>13, <2>2
  <2> HIDE DEF n
  <2>4. ~(Len(s) < 2 * Block)
    <3>1. Len(s) \in Nat /\ 2 * Block \in Nat
      BY <1>1, <1>11
    <3> QED
      BY <1>13, <3>1
  <2> QED
    BY <1>13, <1>14, <1>15, <2>1, <2>2, <2>3, <2>4
<1> QED
  BY <1>6, <1>16

(* How far the exchange is on either side and under way.  The server has   *)
(* drawn for the number of this launcher; a launcher that has gone leaves  *)
(* a thread behind that nobody else is connected to.                       *)
WireInv ==
  /\ wire.kind = "hello" => srv.pc = "handshake" /\ cli.pc = "ack" /\ wire.pub = Power(Gen, cli.x)
  /\ wire.kind = "ack" =>
       /\ srv.pc = "verify" /\ wire.key = srv.key
       /\ cli.pc = "ack" =>
            \E y \in Nat : /\ wire.pub = Power(Gen, y)
                           /\ wire.key = Fixed(Power(Power(Gen, cli.x), y))
                           /\ wire.key[1] # 0
  /\ wire.kind \in {"verify", "result", "confirm"} =>
       wire.text \in Plain /\ wire.sealed = Pad(wire.text)

SidesInv ==
  /\ DOMAIN cli = {"pc", "rsa", "x", "secret"}
  /\ DOMAIN srv = {"pc", "pub", "draws", "key"}
  /\ srv.pc \in {"off", "handshake", "draw", "verify", "confirm"}
  /\ srv.pc \in {"off", "handshake", "draw"} => srv.key = NoKey
  /\ srv.pc \in {"handshake", "draw"} => cli.secret = NoKey
  /\ cli.pc \in {"off", "version", "auth", "ack"} => cli.secret = NoKey
  /\ cli.pc = "ack" => cli.x \in Nat
  /\ cli.pc = "ack" /\ srv.pc = "draw" => srv.pub = Power(Gen, cli.x)
  /\ cli.secret # NoKey /\ srv.key # NoKey => cli.secret = srv.key

ExchangeInv == WireInv /\ SidesInv

Sides == <<srv, cli, wire>>

(* It holds before anybody has logged in.                                  *)
LEMMA ExchangeStarts == Init => ExchangeInv
<1> SUFFICES ASSUME Init PROVE ExchangeInv
  OBVIOUS
<1>1. srv = NoThread /\ cli = NoLauncher /\ wire = Nothing
  BY DEF Init, AuthInit
<1>2. WireInv
  BY <1>1 DEF WireInv, Nothing
<1>3. SidesInv
  BY <1>1 DEF SidesInv, NoThread, NoLauncher, NoKey
<1> QED
  BY <1>2, <1>3 DEF ExchangeInv

(* A thread that ends, and a launcher that is gone.                        *)
LEMMA ExchangeEnds ==
  ASSUME ExchangeInv, srv' \in {srv, NoThread}, cli' \in {cli, NoLauncher}, wire' = Nothing
  PROVE  ExchangeInv'
BY DEF NoThread, NoLauncher, Nothing, NoKey, ExchangeInv, WireInv, SidesInv

(* Before and after the exchange: the launcher alone goes on.              *)
LEMMA LauncherGoes ==
  ASSUME ExchangeInv, UNCHANGED <<srv, wire>>, DOMAIN cli' = DOMAIN cli,
         cli.pc \notin {"ack"}, cli'.pc # "ack",
         cli'.secret \in {cli.secret, NoKey},
         cli'.pc \in {"off", "version", "auth"} => cli'.secret = NoKey
  PROVE  ExchangeInv'
BY DEF NoKey, ExchangeInv, WireInv, SidesInv

(* Every step of the exchange keeps it.                                    *)
LEMMA ExchangeStep == ExchangeInv /\ [Next]_vars => ExchangeInv'
<1> SUFFICES ASSUME ExchangeInv, [Next]_vars PROVE ExchangeInv'
  OBVIOUS
<1>1. Prime \in Nat /\ Gen \in Nat /\ Prime > 2
  BY AuthAssumption
<1>2. CASE UNCHANGED Sides
  BY <1>2 DEF Sides, ExchangeInv, WireInv, SidesInv
<1>3. ASSUME NEW readsKey, Opens(readsKey) PROVE ExchangeInv'
  <2>1. /\ DOMAIN cli' = DOMAIN cli /\ cli'.pc = "version" /\ cli'.secret = NoKey
        /\ cli.pc = "off" /\ UNCHANGED <<srv, wire>>
    BY <1>3 DEF Opens, NoLauncher, ExchangeInv, SidesInv
  <2> QED
    BY <2>1, LauncherGoes
<1>4. CASE ServerStops \/ GivesUp \/ Closes \/ ReadsConfirm
  <2>1. srv' \in {srv, NoThread} /\ cli' \in {cli, NoLauncher} /\ wire' = Nothing
    BY <1>4 DEF ServerStops, GivesUp, Closes, ReadsConfirm, HangsUp
  <2> QED
    BY <2>1, ExchangeEnds
<1>5. CASE Version \/ Dir
  <2>1. PICK stage, next : /\ OneAnswer(stage, next)
                           /\ \/ stage = "version" /\ next = "auth"
                              \/ stage = "dir" /\ next = "start"
    BY <1>5 DEF Version, Dir
  <2>2. CASE cli' = NoLauncher
    BY <2>1, <2>2, LauncherGoes DEF OneAnswer, NoLauncher, ExchangeInv, SidesInv
  <2>3. CASE cli' = [cli EXCEPT !.pc = next]
    <3>1. /\ DOMAIN cli' = DOMAIN cli /\ cli'.pc = next /\ cli'.secret = cli.secret
          /\ cli.pc = stage /\ UNCHANGED <<srv, wire>>
      BY <2>1, <2>3 DEF OneAnswer, ExchangeInv, SidesInv
    <3>2. cli'.pc = "auth" => cli'.secret = NoKey
      BY <2>1, <3>1 DEF ExchangeInv, SidesInv
    <3> QED
      BY <2>1, <3>1, <3>2, LauncherGoes
  <2> QED
    BY <2>1, <2>2, <2>3 DEF OneAnswer
<1>6. CASE Connects
  <2>1. PICK x \in 1 .. Prime - 2 :
          /\ cli' = [cli EXCEPT !.pc = "ack", !.x = x]
          /\ wire' = [Nothing EXCEPT !.kind = "hello", !.for = cli.rsa, !.pub = Power(Gen, x)]
    BY <1>6 DEF Connects
  <2>2. srv' = [NoThread EXCEPT !.pc = "handshake"] /\ cli.pc = "auth"
    BY <1>6 DEF Connects
  <2>3. /\ cli'.pc = "ack" /\ cli'.x = x /\ cli'.secret = NoKey /\ DOMAIN cli' = DOMAIN cli
    BY <2>1, <2>2 DEF ExchangeInv, SidesInv
  <2>4. wire'.kind = "hello" /\ wire'.pub = Power(Gen, x)
    BY <2>1 DEF Nothing
  <2>5. srv'.pc = "handshake" /\ srv'.key = NoKey /\ DOMAIN srv' = {"pc", "pub", "draws", "key"}
    BY <2>2 DEF NoThread
  <2>6. x \in Nat
    OBVIOUS
  <2>7. WireInv'
    BY <2>3, <2>4, <2>5 DEF WireInv
  <2>8. SidesInv'
    BY <2>3, <2>5, <2>6 DEF SidesInv, ExchangeInv
  <2> QED
    BY <2>7, <2>8 DEF ExchangeInv
<1>7. CASE ReadsHello
  <2>1. CASE HangsUp
    <3>1. srv' \in {srv, NoThread} /\ cli' \in {cli, NoLauncher} /\ wire' = Nothing
      BY <2>1 DEF HangsUp
    <3> QED
      BY <3>1, ExchangeEnds
  <2>2. CASE srv' = [srv EXCEPT !.pc = "draw", !.pub = wire.pub] /\ wire' = Nothing /\ cli' = cli
    <3>1. /\ srv.pc = "handshake" /\ cli.pc = "ack" /\ wire.pub = Power(Gen, cli.x)
      BY <1>7 DEF ReadsHello, ExchangeInv, WireInv
    <3>2. srv'.pc = "draw" /\ srv'.pub = wire.pub /\ srv'.key = srv.key /\ DOMAIN srv' = DOMAIN srv
      BY <2>2 DEF ExchangeInv, SidesInv
    <3>3. WireInv'
      BY <2>2 DEF Nothing, WireInv
    <3>4. SidesInv'
      BY <2>2, <3>1, <3>2 DEF ExchangeInv, SidesInv
    <3> QED
      BY <3>3, <3>4 DEF ExchangeInv
  <2> QED
    BY <1>7, <2>1, <2>2 DEF ReadsHello
<1>8. CASE Draws
  <2>1. PICK y \in 1 .. Prime - 2 :
          \/ Fixed(Power(srv.pub, y))[1] # 0 /\ Answers(y, Power(srv.pub, y))
          \/ srv' = [srv EXCEPT !.draws = @ + 1] /\ UNCHANGED <<cli, wire>>
          \/ HangsUp
    BY <1>8 DEF Draws
  <2>2. srv.pc = "draw"
    BY <1>8 DEF Draws
  <2>3. CASE HangsUp
    <3>1. srv' \in {srv, NoThread} /\ cli' \in {cli, NoLauncher} /\ wire' = Nothing
      BY <2>3 DEF HangsUp
    <3> QED
      BY <3>1, ExchangeEnds
  <2>4. CASE srv' = [srv EXCEPT !.draws = @ + 1] /\ UNCHANGED <<cli, wire>>
    <3>1. srv'.pc = srv.pc /\ srv'.pub = srv.pub /\ srv'.key = srv.key /\ DOMAIN srv' = DOMAIN srv
      BY <2>4 DEF ExchangeInv, SidesInv
    <3> QED
      BY <2>4, <3>1 DEF ExchangeInv, SidesInv, WireInv
  <2>5. CASE Fixed(Power(srv.pub, y))[1] # 0 /\ Answers(y, Power(srv.pub, y))
    <3> DEFINE k == Fixed(Power(srv.pub, y))
    <3>1. /\ srv' = [srv EXCEPT !.pc = "verify", !.pub = 0, !.draws = 0, !.key = k]
          /\ wire' = [Nothing EXCEPT !.kind = "ack", !.for = rsa, !.pub = Power(Gen, y), !.key = k]
          /\ cli' = cli
      BY <2>5 DEF Answers
    <3>2. cli.pc = "ack" => k = Fixed(Power(Power(Gen, cli.x), y))
      BY <2>2 DEF ExchangeInv, SidesInv
    <3>3. k[1] # 0
      BY <2>5
    <3> HIDE DEF k
    <3>4. srv'.pc = "verify" /\ srv'.key = k /\ DOMAIN srv' = DOMAIN srv
      BY <3>1 DEF ExchangeInv, SidesInv
    <3>5. wire'.kind = "ack" /\ wire'.pub = Power(Gen, y) /\ wire'.key = k
      BY <3>1 DEF Nothing
    <3>6. cli.secret = NoKey /\ y \in Nat
      BY <2>2 DEF ExchangeInv, SidesInv
    <3>7. WireInv'
      BY <3>1, <3>2, <3>3, <3>4, <3>5, <3>6 DEF WireInv
    <3>8. SidesInv'
      BY <3>1, <3>4, <3>6 DEF ExchangeInv, SidesInv
    <3> QED
      BY <3>7, <3>8 DEF ExchangeInv
  <2> QED
    BY <2>1, <2>3, <2>4, <2>5
<1>9. CASE ReadsAck
  <2> DEFINE secret == Minimal(Power(wire.pub, cli.x))
  <2>1. cli.pc = "ack" /\ wire.kind = "ack" /\ srv' = srv
    BY <1>9 DEF ReadsAck
  <2>2. PICK s \in {"result", "failed"} : cli' = [cli EXCEPT !.pc = s, !.x = 0, !.secret = secret]
    BY <1>9 DEF ReadsAck, ExchangeInv, SidesInv
  <2>3. wire' = Nothing \/ \E text \in Plain : wire' = Frame("verify", secret, text)
    BY <1>9 DEF ReadsAck
  <2>4. secret = srv.key
    <3>1. PICK y \in Nat : /\ wire.pub = Power(Gen, y)
                           /\ wire.key = Fixed(Power(Power(Gen, cli.x), y))
                           /\ wire.key[1] # 0
      BY <2>1 DEF ExchangeInv, WireInv
    <3>2. cli.x \in Nat /\ wire.key = srv.key
      BY <2>1 DEF ExchangeInv, WireInv, SidesInv
    <3>3. Power(Power(Gen, y), cli.x) = Power(Power(Gen, cli.x), y)
      BY <1>1, <3>2, PowersSwap
    <3>4. Minimal(Power(Power(Gen, cli.x), y)) = wire.key
      BY <3>1, NothingLeftOut
    <3> QED
      BY <3>1, <3>2, <3>3, <3>4
  <2> HIDE DEF secret
  <2>5. cli'.pc = s /\ cli'.secret = secret /\ DOMAIN cli' = DOMAIN cli
    BY <2>2 DEF ExchangeInv, SidesInv
  <2>6. srv.pc = "verify"
    BY <2>1 DEF ExchangeInv, WireInv
  <2>7. WireInv'
    <3>1. CASE wire' = Nothing
      BY <3>1 DEF Nothing, WireInv
    <3>2. ASSUME NEW text \in Plain, wire' = Frame("verify", secret, text)
          PROVE  WireInv'
      BY <3>2 DEF Frame, Nothing, WireInv
    <3> QED
      BY <2>3, <3>1, <3>2
  <2>8. SidesInv'
    BY <2>1, <2>4, <2>5, <2>6 DEF ExchangeInv, SidesInv
  <2> QED
    BY <2>7, <2>8 DEF ExchangeInv
<1>10. CASE ReadsVerify
  <2>1. CASE HangsUp
    <3>1. srv' \in {srv, NoThread} /\ cli' \in {cli, NoLauncher} /\ wire' = Nothing
      BY <2>1 DEF HangsUp
    <3> QED
      BY <3>1, ExchangeEnds
  <2>2. CASE ~HangsUp
    <3>1. PICK text \in Plain : wire' = Frame("result", srv.key, text)
      BY <1>10, <2>2 DEF ReadsVerify
    <3>2. srv' = [srv EXCEPT !.pc = "confirm"] /\ cli' = cli /\ srv.pc = "verify"
      BY <1>10, <2>2 DEF ReadsVerify
    <3>3. srv'.pc = "confirm" /\ srv'.key = srv.key /\ DOMAIN srv' = DOMAIN srv
      BY <3>2 DEF ExchangeInv, SidesInv
    <3>4. WireInv'
      BY <3>1 DEF Frame, Nothing, WireInv
    <3>5. SidesInv'
      BY <3>2, <3>3 DEF ExchangeInv, SidesInv
    <3> QED
      BY <3>4, <3>5 DEF ExchangeInv
  <2> QED
    BY <2>1, <2>2
<1>11. CASE ReadsResult
  <2>1. PICK text \in Plain : wire' = Frame("confirm", cli.secret, text)
    BY <1>11 DEF ReadsResult
  <2>2. cli' = [cli EXCEPT !.pc = "dir"] /\ srv' = srv /\ cli.pc = "result"
    BY <1>11 DEF ReadsResult
  <2>3. cli'.pc = "dir" /\ cli'.secret = cli.secret /\ DOMAIN cli' = DOMAIN cli
    BY <2>2 DEF ExchangeInv, SidesInv
  <2>4. WireInv'
    BY <2>1 DEF Frame, Nothing, WireInv
  <2>5. SidesInv'
    BY <2>2, <2>3 DEF ExchangeInv, SidesInv
  <2> QED
    BY <2>4, <2>5 DEF ExchangeInv
<1>12. ASSUME AuthNext, ~UNCHANGED Sides PROVE ExchangeInv'
  <2>1. KeygenNext => UNCHANGED Sides
    BY DEF KeygenNext, Generates, WritesPrivate, WritesPublic, Installs, KeygenStops, Sides
  <2>2. (\E byLauncher \in BOOLEAN : Boots(byLauncher)) => UNCHANGED Sides
    BY DEF Boots, Sides
  <2> QED
    BY <1>4, <1>5, <1>6, <1>7, <1>8, <1>9, <1>10, <1>11, <1>12, <2>1, <2>2 DEF AuthNext
<1>13. \/ UNCHANGED Sides \/ AuthNext
       \/ \E readsKey : Opens(readsKey)
  <2>1. CASE ToolNext
    BY <2>1 DEF ToolNext, ApplyStarts, BacksUp, BackupDone, TempOpens, TempDone, Replaces,
      RestoreStarts, RestoreDone, ToolStops, ToolKeeps, authVars, Sides
  <2>2. CASE LauncherOpens
    BY <2>2 DEF LauncherOpens
  <2>3. CASE Logs
    BY <2>3 DEF Logs
  <2>4. CASE GameNext
    BY <2>4 DEF GameNext, Starts, AsksDate, GameEnds, Gone, authVars, Sides
  <2>5. CASE PatchNext
    BY <2>5 DEF PatchNext, PatchReads, PatchWritesStub, PatchWritesEntry, PatchVerifies,
      WindowFinds, WindowStops, HelperStarts, HelperArms, HelperChecks, HelperSeesGame,
      HelperRestores, HelperResumes, HelperStops, FinallyRestores, FinallyWarns,
      HelperKilled, PatKeeps, authVars, Sides
  <2>6. CASE UNCHANGED vars
    BY <2>6 DEF vars, authVars, Sides
  <2> QED
    BY <2>1, <2>2, <2>3, <2>4, <2>5, <2>6 DEF Next
<1> QED
  BY <1>2, <1>3, <1>12, <1>13

(* Whatever exponents are drawn, the two sides of an AUTH exchange hold    *)
(* one key, and what is sealed can be opened (build_auth_response,         *)
(* ap_encrypt, ap_decrypt).                                                *)
THEOREM SealAlwaysOpens == Spec => []SealOpens
<1>1. ExchangeInv => SealOpens
  <2> SUFFICES ASSUME ExchangeInv PROVE SealOpens
    OBVIOUS
  <2>1. wire.kind \in {"verify", "result", "confirm"} => Unpad(wire.sealed) = wire.text
    BY PaddingComesOff DEF ExchangeInv, WireInv
  <2> QED
    BY <2>1 DEF SealOpens, ExchangeInv, SidesInv
<1> QED
  BY <1>1, ExchangeStarts, ExchangeStep, PTL DEF Spec
=============================================================================
