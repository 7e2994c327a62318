----------------------------- MODULE ClientStart -----------------------------
(***************************************************************************)
(* From the installed client to a running game: the patch of TCLS.dll on   *)
(* disk (tools/patches/patch_tcls_apclient_raw_pem.py), the launcher and   *)
(* its login (AuthLogin), and the two ways in which a game gets its        *)
(* datetime patch: patch_tgame_datetime.py, a window that launch.bat       *)
(* always opens, finds it running; patch_tcls_suspended_launch.py has the  *)
(* launcher create it suspended, patches it, and resumes it.  Both write   *)
(* to the memory of processes that others read, write and end.             *)
(*                                                                         *)
(* Every read and every write of a file or of a process is a step.  What   *)
(* is compared byte by byte in the code is a whole value here.  Bounds:    *)
(* the setup tools run one at a time, before the server and the launcher,  *)
(* and a launcher opens when no game of an earlier one is left.            *)
(***************************************************************************)
EXTENDS AuthLogin, FiniteSets

CONSTANT MaxGames      \* bound: games at a time

ASSUME StartAssumption == MaxGames \in Nat

VARIABLES
  dll, bak, temp,   \* TCLS.dll, TCLS.dll.bak and the temporary file
  tool,             \* where the DLL patcher is
  site,             \* the create flags in the launcher's memory
  game,             \* the processes TGame.exe
  stub,             \* the trampolines written into each of them
  pat,              \* the two datetime patchers
  old,              \* existing_tgame of the helper, while it needs them
  left,             \* how the helper ended that left this launcher armed
  resumed           \* games the helper has resumed

fileVars == <<dll, bak, temp, tool>>
gameVars == <<game, stub>>
helperVars == <<pat, old, left, resumed>>
vars == <<authVars, fileVars, site, gameVars, helperVars>>

Game == 1 .. MaxGames
Patcher == {"helper", "window"}
Off == [pc |-> "off", on |-> 0]
NoGame == [proc |-> "none", entry |-> "original"]

Init ==
  /\ AuthInit
  /\ dll = "original" /\ bak = "none" /\ temp = "none" /\ tool = "idle"
  /\ site = "original"
  /\ game = [g \in Game |-> NoGame]
  /\ stub = [g \in Game |-> {}]
  /\ pat = [w \in Patcher |-> Off] /\ old = {} /\ left = "" /\ resumed = {}

Alive == {g \in Game : game[g].proc # "none"}

(* Nothing of an earlier launch is left.                                   *)
Quiet == cli.pc = "off" /\ Alive = {} /\ \A w \in Patcher : pat[w].pc = "off"
SetupTime == Quiet /\ rsa = Down /\ keygen.pc = "idle" /\ tool = "idle"

-----------------------------------------------------------------------------
(* The DLL patcher.  A file that is being copied is torn until it is done. *)
ToolGoes(step) == tool' = step
ToolKeeps == UNCHANGED <<authVars, site, gameVars, helperVars>>

(* Mutant: the patched file is put in place before the backup is made.     *)
ApplyStartsEarly ==
  /\ SetupTime /\ dll = "original"
  /\ dll' = "patched"
  /\ ToolGoes("backup") /\ UNCHANGED <<bak, temp>> /\ ToolKeeps

(* apply reads the DLL and takes nothing but the verified original.        *)
ApplyStarts ==
  /\ SetupTime /\ dll = "original"
  /\ ToolGoes("backup") /\ UNCHANGED <<dll, bak, temp>> /\ ToolKeeps

(* ensure_backup: a verified backup is kept, any other is refused.         *)
BacksUp ==
  /\ tool = "backup"
  /\ \/ bak = "none" /\ bak' = "torn" /\ ToolGoes("copying")
     \/ bak = "original" /\ UNCHANGED bak /\ ToolGoes("temp")
     \/ bak = "torn" /\ UNCHANGED bak /\ ToolGoes("idle")
  /\ UNCHANGED <<dll, temp>> /\ ToolKeeps

BackupDone ==
  /\ tool = "copying" /\ bak' = dll
  /\ ToolGoes(IF dll = "original" THEN "temp" ELSE "idle")
  /\ UNCHANGED <<dll, temp>> /\ ToolKeeps

(* atomic_replace: the patched bytes go to a file of their own first.      *)
TempOpens ==
  /\ tool = "temp" /\ temp' = "torn" /\ ToolGoes("writing")
  /\ UNCHANGED <<dll, bak>> /\ ToolKeeps

TempDone ==
  /\ tool = "writing" /\ temp' = "patched" /\ ToolGoes("replace")
  /\ UNCHANGED <<dll, bak>> /\ ToolKeeps

Replaces ==
  /\ tool = "replace"
  /\ dll' = temp /\ temp' = "none" /\ ToolGoes("idle")
  /\ UNCHANGED bak /\ ToolKeeps

(* restore copies a verified backup over the one or the other known DLL.   *)
RestoreStarts ==
  /\ SetupTime
  /\ bak = "original" /\ dll \in {"patched", "original"}
  /\ dll' = "torn" /\ ToolGoes("restoring")
  /\ UNCHANGED <<bak, temp>> /\ ToolKeeps

RestoreDone ==
  /\ tool = "restoring" /\ dll' = bak /\ ToolGoes("idle")
  /\ UNCHANGED <<bak, temp>> /\ ToolKeeps

(* The tool ends anywhere.  What it leaves of its temporary file, whose     *)
(* name is its own, nothing reads again.                                   *)
ToolStops ==
  /\ tool # "idle" /\ ToolGoes("idle") /\ temp' = "none"
  /\ UNCHANGED <<dll, bak>> /\ ToolKeeps

ToolNext ==
  \/ ApplyStarts \/ BacksUp \/ BackupDone \/ TempOpens \/ TempDone \/ Replaces
  \/ RestoreStarts \/ RestoreDone \/ ToolStops

-----------------------------------------------------------------------------
(* External: the launcher loads the DLL; only the patched one reads the    *)
(* key file as it is.  Its memory is its own: a new one is not armed.      *)
LauncherOpens ==
  /\ tool = "idle" /\ keygen.pc = "idle" /\ Quiet /\ dll # "torn"
  /\ Opens(dll = "patched") /\ site' = "original"
  /\ UNCHANGED <<fileVars, gameVars, helperVars>>

(* What AuthLogin has it do.  A helper whose launcher has gone fails at    *)
(* its next access to it.                                                  *)
Holding == {"arm", "check", "wait", "restore", "finally"}
Logs ==
  /\ AuthNext /\ tool = "idle"
  /\ keygen' = keygen \/ Quiet
  /\ IF cli'.pc = "off" /\ cli.pc # "off"
     THEN /\ site' = "original" /\ left' = ""
          /\ pat' = IF pat["helper"].pc \in Holding
                    THEN [pat EXCEPT !["helper"] = Off] ELSE pat
          /\ old' = {}
     ELSE UNCHANGED <<site, left, pat, old>>
  /\ UNCHANGED <<fileVars, gameVars, resumed>>

(* External: START creates a game, suspended if the launcher is armed, of  *)
(* the build the patch is made for or of another.                          *)
Starts ==
  /\ cli.pc = "start"
  /\ \E g \in Game \ Alive, entry \in {"original", "foreign"} :
       game' = [game EXCEPT ![g] =
         [proc |-> IF site = "armed" THEN "suspended" ELSE "running", entry |-> entry]]
  /\ UNCHANGED <<authVars, fileVars, site, stub, helperVars>>

(* A process is gone; a handle to it (on) is good for nothing.             *)
Gone(g) ==
  /\ game' = [game EXCEPT ![g] = NoGame] /\ stub' = [stub EXCEPT ![g] = {}]
  /\ pat' = [w \in Patcher |-> IF pat[w].on = g THEN [pat[w] EXCEPT !.on = 0] ELSE pat[w]]
  /\ old' = old \ {g} /\ resumed' = resumed \ {g}
  /\ UNCHANGED <<authVars, fileVars, site, left>>

(* External: a running game asks for the date.  Unpatched it ends; patched *)
(* it runs through the trampoline, if there is one.                        *)
AsksDate(g) ==
  /\ game[g].proc = "running" /\ game[g].entry \notin stub[g]
  /\ Gone(g)

GameEnds(g) == g \in Alive /\ Gone(g)

GameNext == Starts \/ \E g \in Game : AsksDate(g) \/ GameEnds(g)

-----------------------------------------------------------------------------
(* patch_process, which both patchers run: the entry is compared, the      *)
(* trampoline written, the entry redirected to it and read back.           *)
PatAt(w, step, g) == pat' = [pat EXCEPT ![w] = [pc |-> step, on |-> g]]
PatKeeps == UNCHANGED <<authVars, fileVars, site, old, left, resumed>>
Fails(w) == pat' = [pat EXCEPT ![w] = Off]

(* Mutant: what cannot be patched is taken for patched already.            *)
PatchReadsPast(w) ==
  /\ pat[w].pc = "read"
  /\ LET g == pat[w].on
     IN IF g \in Alive
        THEN PatAt(w, IF game[g].entry = "original" THEN "stub" ELSE "resume", g)
        ELSE Fails(w)
  /\ UNCHANGED gameVars /\ PatKeeps

PatchReads(w) ==
  /\ pat[w].pc = "read"
  /\ LET g == pat[w].on
     IN IF g \in Alive /\ game[g].entry = "original" THEN PatAt(w, "stub", g) ELSE Fails(w)
  /\ UNCHANGED gameVars /\ PatKeeps

PatchWritesStub(w) ==
  /\ pat[w].pc = "stub"
  /\ LET g == pat[w].on
     IN IF g \in Alive
        THEN stub' = [stub EXCEPT ![g] = @ \cup {w}] /\ PatAt(w, "entry", g)
        ELSE Fails(w) /\ UNCHANGED stub
  /\ UNCHANGED game /\ PatKeeps

PatchWritesEntry(w) ==
  /\ pat[w].pc = "entry"
  /\ LET g == pat[w].on
     IN IF g \in Alive
        THEN game' = [game EXCEPT ![g].entry = w] /\ PatAt(w, "verify", g)
        ELSE Fails(w) /\ UNCHANGED game
  /\ UNCHANGED stub /\ PatKeeps

(* What the helper finds changed it does not resume.                       *)
PatchVerifies(w) ==
  /\ pat[w].pc = "verify"
  /\ LET g == pat[w].on
     IN IF g \in Alive /\ game[g].entry = w /\ w = "helper"
        THEN PatAt(w, "resume", g) ELSE Fails(w)
  /\ UNCHANGED gameVars /\ PatKeeps

-----------------------------------------------------------------------------
(* The window waits until it finds a game whose code is there.             *)
WindowFinds ==
  /\ pat["window"].pc = "off"
  /\ \E g \in Alive : PatAt("window", "read", g)
  /\ UNCHANGED gameVars /\ PatKeeps

WindowStops ==
  /\ pat["window"].pc # "off" /\ Fails("window")
  /\ UNCHANGED gameVars /\ PatKeeps

(* The helper: the games that are there already are noted, the create      *)
(* flags armed and read back, the flag that they are armed set.            *)
HelperStarts ==
  /\ pat["helper"].pc = "off" /\ cli.pc = "start"
  /\ old' = Alive /\ PatAt("helper", "arm", 0)
  /\ UNCHANGED <<authVars, fileVars, site, gameVars, left, resumed>>

HelperArms ==
  /\ pat["helper"].pc = "arm"
  /\ IF site = "original"
     THEN site' = "armed" /\ PatAt("helper", "check", 0) /\ UNCHANGED old
     ELSE Fails("helper") /\ old' = {} /\ UNCHANGED site
  /\ UNCHANGED <<authVars, fileVars, gameVars, left, resumed>>

HelperChecks ==
  /\ pat["helper"].pc = "check" /\ PatAt("helper", "wait", 0)
  /\ UNCHANGED gameVars /\ PatKeeps

HelperSeesGame ==
  /\ pat["helper"].pc = "wait"
  /\ \E g \in Alive \ old : PatAt("helper", "restore", g)
  /\ old' = {}
  /\ UNCHANGED <<authVars, fileVars, site, gameVars, left, resumed>>

HelperRestores ==
  /\ pat["helper"].pc = "restore" /\ site' = "original"
  /\ PatAt("helper", "read", pat["helper"].on)
  /\ UNCHANGED <<authVars, fileVars, gameVars, old, left, resumed>>

(* Only a game that is still suspended is resumed.                         *)
HelperResumes ==
  /\ pat["helper"].pc = "resume" /\ Fails("helper")
  /\ LET g == pat["helper"].on
     IN IF g \in Alive /\ game[g].proc = "suspended"
        THEN game' = [game EXCEPT ![g].proc = "running"] /\ resumed' = resumed \cup {g}
        ELSE UNCHANGED <<game, resumed>>
  /\ UNCHANGED <<authVars, fileVars, site, stub, old, left>>

(* Mutant: there is no finally.                                            *)
HelperStopsAtOnce ==
  /\ pat["helper"].pc \notin {"off", "finally"} /\ Fails("helper") /\ old' = {}
  /\ left' = IF pat["helper"].pc = "check" THEN "inWrite" ELSE left
  /\ UNCHANGED <<authVars, fileVars, site, gameVars, resumed>>

(* A time-out, Ctrl+C or an error: finally runs, and puts the create flags *)
(* back if they were armed.  Inside write_code, when they have just been   *)
(* written, the flag for that is not set yet.                              *)
HelperStops ==
  /\ pat["helper"].pc \notin {"off", "finally"} /\ old' = {}
  /\ IF pat["helper"].pc \in {"wait", "restore"}
     THEN PatAt("helper", "finally", 0) /\ UNCHANGED left
     ELSE /\ Fails("helper")
          /\ left' = IF pat["helper"].pc = "check" THEN "inWrite" ELSE left
  /\ UNCHANGED <<authVars, fileVars, site, gameVars, resumed>>

FinallyRestores ==
  /\ pat["helper"].pc = "finally" /\ Fails("helper") /\ site' = "original"
  /\ UNCHANGED <<authVars, fileVars, gameVars, old, left, resumed>>

(* Unknown bytes are left alone, a write that fails is only warned about.  *)
FinallyWarns ==
  /\ pat["helper"].pc = "finally" /\ Fails("helper") /\ left' = "lost"
  /\ UNCHANGED <<authVars, fileVars, site, gameVars, old, resumed>>

(* The process is ended, or Ctrl+C comes once more: there is no finally.   *)
HelperKilled ==
  /\ pat["helper"].pc \in Holding \ {"arm"} /\ Fails("helper")
  /\ left' = "lost" /\ old' = {}
  /\ UNCHANGED <<authVars, fileVars, site, gameVars, resumed>>

PatchNext ==
  \/ \E w \in Patcher : \/ PatchReads(w) \/ PatchWritesStub(w)
                        \/ PatchWritesEntry(w) \/ PatchVerifies(w)
  \/ WindowFinds \/ WindowStops
  \/ HelperStarts \/ HelperArms \/ HelperChecks \/ HelperSeesGame
  \/ HelperRestores \/ HelperResumes
  \/ HelperStops \/ FinallyRestores \/ FinallyWarns \/ HelperKilled

Next == ToolNext \/ LauncherOpens \/ Logs \/ GameNext \/ PatchNext

Spec == Init /\ [][Next]_vars

-----------------------------------------------------------------------------
(* Wherever the DLL patcher is interrupted, a DLL that is not the original *)
(* has a verified copy of the original beside it (apply, restore).         *)
OriginalKept == dll # "original" => bak = "original"

(* A game the helper has resumed goes through a whole trampoline, although *)
(* the window may patch it at the same time (patch_process, main).         *)
ResumedIsPatched == \A g \in resumed : game[g].entry \in stub[g]

(* A launcher is armed only while a helper is about to put it back, except *)
(* in the three cases in which a helper can do no more: it was interrupted *)
(* between the write and its flag, could not undo it, or was killed (main). *)
Watched == pat["helper"].pc \in {"check", "wait", "restore", "finally"}
ArmedIsWatched == site = "armed" => left # "" \/ Watched
=============================================================================
