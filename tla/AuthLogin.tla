----------------------------- MODULE AuthLogin -----------------------------
(***************************************************************************)
(* The way of the launcher (client.exe with TCLS.dll) through VERSION,     *)
(* AUTH and DIR of server/assaultfire_server_v143b.py, with the key pair   *)
(* that tools/setup/generate_local_rsa_keypair.py makes for both sides.    *)
(*                                                                         *)
(* AUTH is a Diffie-Hellman exchange under the server's RSA key, after     *)
(* which both sides hash the shared number and talk in sealed frames.  A   *)
(* hash or a cipher is taken for what goes into it: two keys are equal     *)
(* when the digits that are hashed are, and a sealed text can be opened    *)
(* with the key it was sealed with.  The launcher's side is external.      *)
(***************************************************************************)
EXTENDS Integers, Sequences

CONSTANTS
  Prime, Gen,      \* P_PRIME and G
  Radix, Width,    \* digits (256) and how many a number below Prime has (64)
  MaxDraws,        \* exponents the server draws before it gives up (64)
  Block,           \* the length of a cipher block (16)
  Plain,           \* the texts a launcher may send
  MaxKeys          \* bound: key pairs generated

ASSUME AuthAssumption ==
  /\ Prime \in Nat /\ Gen \in 2 .. Prime - 1
  /\ Radix \in Nat \ {0, 1} /\ Width \in Nat \ {0} /\ Prime < Radix ^ Width
  /\ MaxDraws \in Nat \ {0} /\ Block \in 2 .. Radix
  /\ Plain \subseteq Seq(0 .. Radix - 1) \ {<<>>}
  /\ MaxKeys \in Nat

VARIABLES
  priv, pub, ap,   \* PRIVATE.PEM, the generated public key, APClient.dat
  keygen,          \* where the key generator is, and how many pairs it made
  rsa,             \* RSA_PRIV of the running server
  srv,             \* the handle_auth thread
  cli,             \* external: the launcher
  wire             \* what is under way between the two

keyVars == <<priv, pub, ap, keygen>>
authVars == <<keyVars, rsa, srv, cli, wire>>

(* A key file is not there, half written, or of one pair.                  *)
Absent == 0
Torn == -1
Down == -2
Pair(k) == k > 0

NoKey == <<>>
NoThread == [pc |-> "off", pub |-> 0, draws |-> 0, key |-> NoKey]
NoLauncher == [pc |-> "off", rsa |-> Absent, x |-> 0, secret |-> NoKey]
Nothing == [kind |-> "none", for |-> 0, pub |-> 0, key |-> NoKey,
            text |-> <<>>, sealed |-> <<>>]

AuthInit ==
  /\ priv = Absent /\ pub = Absent /\ ap = Absent
  /\ keygen = [pc |-> "idle", made |-> 0]
  /\ rsa = Down /\ srv = NoThread /\ cli = NoLauncher /\ wire = Nothing

-----------------------------------------------------------------------------
(* Numbers and their digits, the most significant one first.               *)
Power(b, e) ==
  LET power[n \in Nat] == IF n = 0 THEN 1 ELSE (b * power[n - 1]) % Prime
  IN power[e]

(* shared.to_bytes(64): as many digits as a number below Prime can have.   *)
Fixed(n) == [i \in 1 .. Width |-> (n \div Radix ^ (Width - i)) % Radix]

(* External: the launcher hashes no more digits than the number needs.     *)
Minimal(n) ==
  LET d == Fixed(n)
      first == CHOOSE i \in 1 .. Width :
                 (d[i] # 0 \/ i = Width) /\ \A j \in 1 .. i - 1 : d[j] = 0
  IN SubSeq(d, first, Width)

(* ap_encrypt: the last r bytes, one block of them at most, begin an area  *)
(* of two blocks whose second block begins with how many are missing.      *)
Pad(text) ==
  LET r == IF Len(text) % Block = 0 THEN Block ELSE Len(text) % Block
      body == SubSeq(text, 1, Len(text) - r)
      tail == SubSeq(text, Len(text) - r + 1, Len(text))
  IN body \o [i \in 1 .. 2 * Block |-> IF i <= r THEN tail[i]
                                       ELSE IF i = Block + 1 THEN Block - r
                                       ELSE 0]

(* ap_decrypt; the empty text where it raises.                             *)
Unpad(s) ==
  LET marker == s[Len(s) - Block + 1]
      n == Len(s) - (Block + marker)
  IN IF Len(s) < 2 * Block \/ Len(s) % Block # 0 THEN <<>>
     ELSE IF marker > Block - 1 \/ n < 0 THEN <<>>
     ELSE SubSeq(s, 1, n)

Frame(kind, key, text) ==
  [Nothing EXCEPT !.kind = kind, !.key = key, !.text = text, !.sealed = Pad(text)]

-----------------------------------------------------------------------------
(* The key generator: the private key, the public key, and, on request,    *)
(* its copy for the client.  It refuses to replace a key unless forced.    *)
(* It is part of the setup: bound, nothing else runs meanwhile.            *)
Generates(force) ==
  /\ keygen.pc = "idle" /\ keygen.made < MaxKeys
  /\ rsa = Down /\ cli.pc = "off"
  /\ force \/ (priv = Absent /\ pub = Absent)
  /\ keygen' = [pc |-> "private", made |-> keygen.made + 1]
  /\ UNCHANGED <<priv, pub, ap, rsa, srv, cli, wire>>

WritesPrivate ==
  /\ keygen.pc = "private"
  /\ priv' = keygen.made /\ keygen' = [keygen EXCEPT !.pc = "public"]
  /\ UNCHANGED <<pub, ap, rsa, srv, cli, wire>>

WritesPublic ==
  /\ keygen.pc = "public"
  /\ pub' = keygen.made
  /\ \E next \in {"idle", "install"} : keygen' = [keygen EXCEPT !.pc = next]
  /\ UNCHANGED <<priv, ap, rsa, srv, cli, wire>>

Installs ==
  /\ keygen.pc = "install"
  /\ ap' = pub /\ keygen' = [keygen EXCEPT !.pc = "idle"]
  /\ UNCHANGED <<priv, pub, rsa, srv, cli, wire>>

(* It ends at any point, the file it is writing torn or untouched.         *)
KeygenStops ==
  /\ keygen.pc # "idle"
  /\ keygen' = [keygen EXCEPT !.pc = "idle"]
  /\ priv' \in {priv, IF keygen.pc = "private" THEN Torn ELSE priv}
  /\ pub' \in {pub, IF keygen.pc = "public" THEN Torn ELSE pub}
  /\ ap' \in {ap, IF keygen.pc = "install" THEN Torn ELSE ap}
  /\ UNCHANGED <<rsa, srv, cli, wire>>

(* The server loads its key when it starts, from where launch.bat says or, *)
(* started by hand, from the top of the repository, where no key is put.   *)
Boots(byLauncher) ==
  /\ rsa = Down /\ keygen.pc = "idle"
  /\ rsa' = IF byLauncher /\ Pair(priv) THEN priv ELSE Absent
  /\ UNCHANGED <<keyVars, srv, cli, wire>>

(* The server ends; bound, not while a launcher at START does without it.  *)
Waiting == {"ack", "result"}
ServerStops ==
  /\ rsa # Down /\ cli.pc # "start" /\ rsa' = Down
  /\ srv' = NoThread /\ wire' = Nothing
  /\ cli' = IF cli.pc \in Waiting THEN NoLauncher ELSE cli
  /\ UNCHANGED keyVars

-----------------------------------------------------------------------------
(* The launcher opens; its DLL lets it read its key file or not.           *)
Opens(readsKey) ==
  /\ cli.pc = "off"
  /\ cli' = [NoLauncher EXCEPT !.pc = "version", !.rsa = IF readsKey THEN ap ELSE Absent]
  /\ UNCHANGED <<keyVars, rsa, srv, wire>>

Closes ==
  /\ cli.pc # "off"
  /\ cli' = NoLauncher /\ wire' = Nothing
  /\ UNCHANGED <<keyVars, rsa, srv>>

(* handle_version and handle_dir: one request read to its full length, one *)
(* answer made from it; a request cut short is not answered.               *)
OneAnswer(stage, next) ==
  /\ cli.pc = stage /\ rsa # Down
  /\ \/ cli' = [cli EXCEPT !.pc = next]
     \/ cli' = NoLauncher
  /\ UNCHANGED <<keyVars, rsa, srv, wire>>

Version == OneAnswer("version", "auth")
Dir == OneAnswer("dir", "start")

(* External: the launcher with a key opens the exchange.                   *)
Connects ==
  /\ cli.pc = "auth" /\ Pair(cli.rsa) /\ rsa # Down /\ srv.pc = "off"
  /\ \E x \in 1 .. Prime - 2 :
       /\ cli' = [cli EXCEPT !.pc = "ack", !.x = x]
       /\ wire' = [Nothing EXCEPT !.kind = "hello", !.for = cli.rsa, !.pub = Power(Gen, x)]
  /\ srv' = [NoThread EXCEPT !.pc = "handshake"]
  /\ UNCHANGED <<keyVars, rsa>>

(* The thread ends and closes the connection: a time-out, a request cut    *)
(* short, an exception.                                                    *)
HangsUp ==
  /\ srv' = NoThread /\ wire' = Nothing
  /\ cli' = IF cli.pc \in Waiting THEN NoLauncher ELSE cli
  /\ UNCHANGED <<keyVars, rsa>>

GivesUp == srv.pc # "off" /\ HangsUp

ReadsHello ==
  /\ srv.pc = "handshake" /\ wire.kind = "hello"
  /\ IF wire.for = rsa /\ wire.pub \in 2 .. Prime - 1
     THEN /\ srv' = [srv EXCEPT !.pc = "draw", !.pub = wire.pub]
          /\ wire' = Nothing
          /\ UNCHANGED <<keyVars, rsa, cli>>
     ELSE HangsUp

Answers(y, shared) ==
  /\ srv' = [srv EXCEPT !.pc = "verify", !.pub = 0, !.draws = 0, !.key = Fixed(shared)]
  /\ wire' = [Nothing EXCEPT !.kind = "ack", !.for = rsa, !.pub = Power(Gen, y),
                             !.key = Fixed(shared)]
  /\ UNCHANGED <<keyVars, rsa, cli>>

(* Mutant: the first exponent will do.                                     *)
DrawsOnce ==
  /\ srv.pc = "draw"
  /\ \E y \in 1 .. Prime - 2 : Answers(y, Power(srv.pub, y))

(* An exponent is drawn anew while the shared number begins with a zero.   *)
Draws ==
  /\ srv.pc = "draw"
  /\ \E y \in 1 .. Prime - 2 :
       LET shared == Power(srv.pub, y)
       IN IF Fixed(shared)[1] # 0 THEN Answers(y, shared)
          ELSE IF srv.draws + 1 < MaxDraws
          THEN /\ srv' = [srv EXCEPT !.draws = @ + 1]
               /\ UNCHANGED <<keyVars, rsa, cli, wire>>
          ELSE HangsUp

(* External: the launcher checks the signature and opens the number that   *)
(* proves the key; when it can it asks for its account (cmd 3).            *)
ReadsAck ==
  /\ cli.pc = "ack" /\ wire.kind = "ack"
  /\ LET secret == Minimal(Power(wire.pub, cli.x))
         known == [cli EXCEPT !.x = 0, !.secret = secret]
     IN IF wire.for = cli.rsa /\ wire.key = secret
        THEN /\ cli' = [known EXCEPT !.pc = "result"]
             /\ \E text \in Plain : wire' = Frame("verify", secret, text)
        ELSE cli' = [known EXCEPT !.pc = "failed"] /\ wire' = Nothing
  /\ UNCHANGED <<keyVars, rsa, srv>>

(* The account is not looked at: whoever can seal a text is let in (cmd 4).*)
ReadsVerify ==
  /\ srv.pc = "verify" /\ wire.kind = "verify"
  /\ IF wire.key = srv.key /\ Unpad(wire.sealed) # <<>>
     THEN /\ srv' = [srv EXCEPT !.pc = "confirm"]
          /\ \E text \in Plain : wire' = Frame("result", srv.key, text)
          /\ UNCHANGED <<keyVars, rsa, cli>>
     ELSE HangsUp

(* External: the launcher has its ticket and says so (cmd 5).              *)
ReadsResult ==
  /\ cli.pc = "result" /\ wire.kind = "result"
  /\ cli' = [cli EXCEPT !.pc = "dir"]
  /\ \E text \in Plain : wire' = Frame("confirm", cli.secret, text)
  /\ UNCHANGED <<keyVars, rsa, srv>>

ReadsConfirm == srv.pc = "confirm" /\ wire.kind = "confirm" /\ HangsUp

KeygenNext ==
  \/ \E force \in BOOLEAN : Generates(force)
  \/ WritesPrivate \/ WritesPublic \/ Installs \/ KeygenStops

AuthNext ==
  \/ KeygenNext
  \/ \E byLauncher \in BOOLEAN : Boots(byLauncher)
  \/ ServerStops \/ Closes \/ Version \/ Dir
  \/ Connects \/ ReadsHello \/ Draws \/ ReadsAck
  \/ ReadsVerify \/ ReadsResult \/ ReadsConfirm \/ GivesUp

-----------------------------------------------------------------------------
(* What one side of an AUTH exchange seals, the other can open: both have  *)
(* come to the same key, although the launcher leaves out leading zeroes   *)
(* and the server does not (build_auth_response), and what is unpadded is  *)
(* what was padded, whatever its length (ap_encrypt, ap_decrypt).          *)
SealOpens ==
  /\ cli.secret # NoKey /\ srv.key # NoKey => cli.secret = srv.key
  /\ wire.kind \in {"verify", "result", "confirm"} => Unpad(wire.sealed) = wire.text
=============================================================================
