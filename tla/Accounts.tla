------------------------------ MODULE Accounts ------------------------------
(***************************************************************************)
(* The account database, server/account_db.py: an SQLite file that several *)
(* processes (the registration site, tools, the emulator) create accounts  *)
(* in and check passwords against, each call on a connection of its own.   *)
(*                                                                         *)
(* SQLite is external: one writer at a time, who sees its own changes; the *)
(* others read what was committed last; what a process that dies had not   *)
(* committed is gone; a statement that waits for the writer too long fails *)
(* (busy_timeout).  A user name is its folded form with one of two         *)
(* spellings; a salted hash is the password that goes into it.             *)
(***************************************************************************)
EXTENDS Integers, FiniteSets, FiniteSetsExt

CONSTANTS
  Caller,     \* the processes, each with one call at a time
  User,       \* user names: the folded name and how it is spelled
  Password,   \* passwords of a length that is accepted
  FirstUin    \* FIRST_UIN

ASSUME AccountAssumption ==
  /\ FirstUin \in Nat
  /\ \A u \in User : DOMAIN u = {"name", "spelling"}

VARIABLES
  base,      \* what is committed: how far the schema is, accounts, profiles
  writer,    \* the callers inside a write transaction: one at most
  draft,     \* the tables as the writer sees them
  call,      \* the callers
  answered,  \* history: accounts a caller was told it has created
  seen       \* history: whether the login was right, at any time of the call

accountVars == <<base, writer, draft, call, answered, seen>>

Tables == 4    \* meta, accounts, profiles, the index
Empty == [schema |-> 0, accounts |-> {}, profiles |-> {}]
NoCall == [pc |-> "off", kind |-> "none", user |-> <<>>, password |-> <<>>,
           row |-> {}, right |-> FALSE]

AccountsInit ==
  /\ base = Empty /\ writer = {} /\ draft = Empty
  /\ call = [p \in Caller |-> NoCall]
  /\ answered = {} /\ seen = [p \in Caller |-> {}]

-----------------------------------------------------------------------------
Named(db, user) == {a \in db.accounts : a.user.name = user.name}
NextUin(db) == Max({FirstUin - 1} \cup {a.uin : a \in db.accounts}) + 1

(* Whom a login with this name and password should let in.                 *)
Right(db, c) ==
  \E a \in Named(db, c.user) : a.status = "active" /\ a.password = c.password

-----------------------------------------------------------------------------
CallAt(p, pc) == call[p].pc = pc
CallGoes(p, pc) == call' = [call EXCEPT ![p].pc = pc]
CallEnds(p) == call' = [call EXCEPT ![p] = NoCall]
Unlocked == writer = {}

(* The name and the password were accepted, or there is no call to speak   *)
(* of; the password of a new account is hashed before the file is opened.  *)
Calls(p, kind, user, password) ==
  /\ CallAt(p, "off")
  /\ call' = [call EXCEPT ![p] =
       [NoCall EXCEPT !.pc = "schema", !.kind = kind,
                      !.user = user, !.password = password]]
  /\ UNCHANGED <<base, writer, draft, answered>>

(* init_db: each CREATE IF NOT EXISTS that finds its table missing is a    *)
(* transaction.                                                            *)
MakesTable(p) ==
  /\ CallAt(p, "schema") /\ base.schema < Tables /\ Unlocked
  /\ base' = [base EXCEPT !.schema = @ + 1]
  /\ UNCHANGED <<writer, draft, call, answered>>

(* INSERT OR IGNORE takes the writer's place even when it ignores.         *)
StampsSchema(p) ==
  /\ CallAt(p, "schema") /\ base.schema = Tables /\ Unlocked
  /\ CallGoes(p, IF call[p].kind = "create" THEN "begin" ELSE "read")
  /\ UNCHANGED <<base, writer, draft, answered>>

(* BEGIN IMMEDIATE.                                                        *)
Begins(p) ==
  /\ CallAt(p, "begin") /\ Unlocked
  /\ writer' = {p} /\ draft' = base
  /\ CallGoes(p, "check")
  /\ UNCHANGED <<base, answered>>

RollsBack(p) ==
  /\ writer' = {} /\ draft' = Empty
  /\ CallEnds(p)
  /\ UNCHANGED <<base, answered>>

(* DuplicateUsername, or on.                                               *)
Checks(p) ==
  /\ CallAt(p, "check")
  /\ IF Named(draft, call[p].user) # {}
     THEN RollsBack(p)
     ELSE CallGoes(p, "account") /\ UNCHANGED <<base, writer, draft, answered>>

(* Mutant: the account is committed before its profile is written.         *)
InsertsAccountAlone(p) ==
  /\ CallAt(p, "account")
  /\ LET row == [uin |-> NextUin(draft), user |-> call[p].user,
                 password |-> call[p].password, status |-> "active"]
     IN /\ draft' = [draft EXCEPT !.accounts = @ \cup {row}]
        /\ base' = draft'
        /\ call' = [call EXCEPT ![p].pc = "profile", ![p].row = {row}]
  /\ UNCHANGED <<writer, answered>>

(* The number is the greatest so far and one.  The constraints of the      *)
(* tables are left out: what create_account asks first has to be enough.   *)
InsertsAccount(p) ==
  /\ CallAt(p, "account")
  /\ LET row == [uin |-> NextUin(draft), user |-> call[p].user,
                 password |-> call[p].password, status |-> "active"]
     IN /\ draft' = [draft EXCEPT !.accounts = @ \cup {row}]
        /\ call' = [call EXCEPT ![p].pc = "profile", ![p].row = {row}]
  /\ UNCHANGED <<base, writer, answered>>

InsertsProfile(p) ==
  /\ CallAt(p, "profile")
  /\ draft' = [draft EXCEPT !.profiles = @ \cup {a.uin : a \in call[p].row}]
  /\ CallGoes(p, "commit")
  /\ UNCHANGED <<base, writer, answered>>

Commits(p) ==
  /\ CallAt(p, "commit")
  /\ base' = draft /\ writer' = {} /\ draft' = Empty
  /\ CallGoes(p, "created")
  /\ UNCHANGED answered

Created(p) ==
  /\ CallAt(p, "created")
  /\ answered' = answered \cup {[uin |-> a.uin, user |-> a.user] : a \in call[p].row}
  /\ CallEnds(p)
  /\ UNCHANGED <<base, writer, draft>>

(* Mutant: the status is left to whoever disables the account.             *)
ReadsAnyStatus(p) ==
  /\ CallAt(p, "read")
  /\ call' = [call EXCEPT ![p].row = Named(base, call[p].user),
       ![p].pc = IF Named(base, call[p].user) = {} THEN "answer" ELSE "hash"]
  /\ UNCHANGED <<base, writer, draft, answered>>

(* verify_account reads the row outside any transaction.                   *)
Reads(p) ==
  /\ CallAt(p, "read")
  /\ LET found == {a \in Named(base, call[p].user) : a.status = "active"}
     IN call' = [call EXCEPT ![p].row = found,
                             ![p].pc = IF found = {} THEN "answer" ELSE "hash"]
  /\ UNCHANGED <<base, writer, draft, answered>>

(* The slow part, 600000 rounds over the row as it was read.  The caller   *)
(* asked for update_last_login or did not.                                 *)
Compares(p, update) ==
  /\ CallAt(p, "hash")
  /\ LET same == \A a \in call[p].row : a.password = call[p].password
     IN call' = [call EXCEPT ![p].right = same,
          ![p].pc = IF same /\ update THEN "stamp" ELSE "answer"]
  /\ UNCHANGED <<base, writer, draft, answered>>

(* update_last_login: a transaction of its own.  The time is left out.     *)
StampsLogin(p) ==
  /\ CallAt(p, "stamp") /\ Unlocked
  /\ CallGoes(p, "answer")
  /\ UNCHANGED <<base, writer, draft, answered>>

LoginAnswered(p) ==
  /\ CallAt(p, "answer") /\ CallEnds(p)
  /\ UNCHANGED <<base, writer, draft, answered>>

(* OperationalError: the writer took longer than the waiting time.         *)
Locked(p) ==
  /\ call[p].pc \in {"schema", "begin", "stamp"} /\ ~Unlocked
  /\ CallEnds(p)
  /\ UNCHANGED <<base, writer, draft, answered>>

(* External: the process ends, and its transaction with it.                *)
CallerDies(p) ==
  /\ ~CallAt(p, "off") /\ CallEnds(p)
  /\ writer' = writer \ {p}
  /\ draft' = IF p \in writer THEN Empty ELSE draft
  /\ UNCHANGED <<base, answered>>

(* External: somebody disables an account, or enables it again.            *)
StatusChanges ==
  /\ Unlocked
  /\ \E a \in base.accounts, s \in {"active", "disabled"} :
       /\ a.status # s
       /\ base' = [base EXCEPT !.accounts = (@ \ {a}) \cup {[a EXCEPT !.status = s]}]
  /\ UNCHANGED <<writer, draft, call, answered>>

AccountSteps ==
  \/ \E p \in Caller :
       \/ \E kind \in {"create", "login"}, user \in User, pw \in Password :
            Calls(p, kind, user, pw)
       \/ MakesTable(p) \/ StampsSchema(p) \/ Begins(p) \/ Checks(p)
       \/ InsertsAccount(p) \/ InsertsProfile(p) \/ Commits(p) \/ Created(p)
       \/ Reads(p) \/ \E update \in BOOLEAN : Compares(p, update)
       \/ StampsLogin(p) \/ LoginAnswered(p)
       \/ Locked(p) \/ CallerDies(p)
  \/ StatusChanges

(* History: a call has seen a login right, or wrong, at each of its times. *)
Sees ==
  seen' = [p \in Caller |->
    IF call'[p].kind # "login" THEN {} ELSE seen[p] \cup {Right(base', call'[p])}]

AccountsNext == AccountSteps /\ Sees

AccountsSpec == AccountsInit /\ [][AccountsNext]_accountVars

-----------------------------------------------------------------------------
(* Whatever process dies at whatever step of create_account: an account    *)
(* has one profile, no name and no number belongs to two accounts however  *)
(* they are spelled, and an account somebody was told of is there.         *)
AccountsWhole ==
  /\ \A a, b \in base.accounts :
       a.uin = b.uin \/ a.user.name = b.user.name => a = b
  /\ base.profiles = {a.uin : a \in base.accounts}
  /\ \A t \in answered : \E a \in base.accounts : a.uin = t.uin /\ a.user = t.user

(* verify_account hashes for long over a row it read before, while others  *)
(* create, disable and enable: its answer was right at some time between   *)
(* the call and the answer.                                                *)
LoginsRight == \A p \in Caller : CallAt(p, "answer") => call[p].right \in seen[p]
=============================================================================
