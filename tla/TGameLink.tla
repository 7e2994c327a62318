------------------------------ MODULE TGameLink ------------------------------
(***************************************************************************)
(* The TPDU link between TGame and the server                              *)
(* (assaultfire_server_v143b.py, handle_placeholder for ROLE and ZONE): a  *)
(* connection's key is found in the memory of the client by its ticket,    *)
(* confirmed by a challenge, exchanged for the game key, and from then on  *)
(* TCP carries frames: in pieces and in groups upstream, and downstream    *)
(* from the connection's own thread and from the threads of other players  *)
(* who notify this one.                                                    *)
(*                                                                         *)
(* A frame is two halves, which is what framing can get wrong; its         *)
(* contents are its name and its key.  The keys are the numbers of the     *)
(* connections, each with the key its own AuthAP object holds, and         *)
(* GameKey.  The client opens one connection after the other, ZONE when    *)
(* ROLE has given it the zone list.                                        *)
(***************************************************************************)
EXTENDS Integers, Sequences

CONSTANTS
  MaxConn,      \* bound: connections of the client
  Zone,         \* those of them that go to the ZONE port
  Place,        \* places in the client's memory for AuthAP objects
  RolePlan, ZonePlan,   \* what the client asks on a connection, in order
  MaxTries,     \* how often a handler looks for its key (10 in the code)
  MaxNotes      \* bound: notifications by other players' threads

Conn == 1 .. MaxConn
Request == {"pinglist", "zonelist", "login", "ready", "beat", "bye"}

ASSUME LinkAssumption ==
  /\ MaxConn \in Nat /\ Zone \subseteq Conn /\ Place \subseteq Nat
  /\ RolePlan \in Seq(Request) /\ ZonePlan \in Seq(Request)
  /\ MaxTries \in Nat \ {0} /\ MaxNotes \in Nat

VARIABLES
  srv,       \* the handler thread of each connection
  used,      \* _TGAME_USED_AUTH_ANCHORS of this client's process
  lock,      \* _V150_CONN_SEND_LOCKS: who writes to the connection
  session,   \* _V150_ZONE_SESSIONS of the player
  peer,      \* a thread of another player that notifies this one
  up, down,  \* the two directions of TCP: halves sent and not yet read
  cli,       \* the client's side of each connection
  heap       \* its AuthAP object

vars == <<srv, used, lock, session, peer, up, down, cli, heap>>

GameKey == 0
NoPlace == -1
NoPeer == [n |-> 0, pc |-> "idle", conn |-> 0, key |-> GameKey]
NoObject == [at |-> NoPlace, state |-> "none"]
NoConn == [conn |-> 0, key |-> GameKey]
Plan(c) == IF c \in Zone THEN ZonePlan ELSE RolePlan

Idle == [pc |-> "off", tries |-> 0, snap |-> {}, anchor |-> NoPlace,
         key |-> GameKey, boot |-> GameKey, tail |-> <<>>, queue |-> <<>>,
         out |-> <<>>, half |-> FALSE, pending |-> FALSE, done |-> <<>>]

Init ==
  /\ srv = [c \in Conn |-> Idle] /\ used = {}
  /\ lock = [c \in Conn |-> "free"] /\ session = NoConn
  /\ peer = NoPeer
  /\ up = [c \in Conn |-> <<>>] /\ down = [c \in Conn |-> <<>>]
  /\ cli = [c \in Conn |-> [pc |-> "off", key |-> c, sent |-> 0, got |-> {}]]
  /\ heap = [c \in Conn |-> NoObject]

Halves(m, key) == << [m |-> m, key |-> key, part |-> 1],
                     [m |-> m, key |-> key, part |-> 2] >>

(* Whole frames stand at the even places of a stream that begins with one. *)
WholeAt(s, i) == s[2 * i - 1].part = 1 /\ s[2 * i] = [s[2 * i - 1] EXCEPT !.part = 2]

SrvIs(c, now) == srv' = [srv EXCEPT ![c] = now]
SrvAt(c, step) == SrvIs(c, [srv[c] EXCEPT !.pc = step])
Puts(c, halves) == down' = [down EXCEPT ![c] = @ \o halves]
Upright(c) == cli[c].pc = "open"

-----------------------------------------------------------------------------
(* The client opens the next connection: a fresh AuthAP object with the    *)
(* same ticket as ever, somewhere where no other is.                       *)
Open(c) ==
  /\ cli[c].pc = "off"
  /\ \A d \in 1 .. c - 1 : srv[d].pc \in {"deaf", "synack", "stream", "end"}
  /\ c \in Zone =>
       /\ \E d \in 1 .. c - 1 : d \notin Zone /\ "zones" \in cli[d].got
       /\ \A d \in Zone : ~Upright(d)
  /\ \E p \in Place :
       /\ \A d \in Conn : heap[d].at # p
       /\ heap' = [heap EXCEPT ![c] = [at |-> p, state |-> "bare"]]
  /\ cli' = [cli EXCEPT ![c].pc = "open"]
  /\ SrvAt(c, "burst")
  /\ UNCHANGED <<used, lock, session, peer, up, down>>

(* Its ProtocalHandler fills the object in, then links the connection.     *)
Fills(c) ==
  /\ Upright(c) /\ heap[c].state \in {"bare", "keyed"}
  /\ heap' = [heap EXCEPT ![c].state = IF @ = "bare" THEN "keyed" ELSE "linked"]
  /\ UNCHANGED <<srv, used, lock, session, peer, up, down, cli>>

(* netstat and tasklist name no TGame.exe behind the port within their     *)
(* three seconds, or what comes does not parse as AUTH: no answer then.    *)
Unanswered(c) == SrvAt(c, "deaf")

(* The first burst: none in time, one that is not answered, or AUTH.       *)
Burst(c) ==
  /\ srv[c].pc = "burst"
  /\ \/ SrvAt(c, "end")
     \/ Unanswered(c)
     \/ SrvIs(c, [srv[c] EXCEPT !.pc = "recover", !.snap = used])
  /\ UNCHANGED <<used, lock, session, peer, up, down, cli, heap>>

(* The objects that carry the ticket and validate; verified through the    *)
(* handler's connection first, then the highest address.                   *)
Candidates == {d \in Conn : heap[d].state \in {"keyed", "linked"}}
Better(d, e) ==
  \/ heap[d].state = "linked" /\ heap[e].state # "linked"
  \/ heap[d].state = heap[e].state /\ heap[d].at >= heap[e].at

(* Nothing found: there is no such object yet, or the process cannot be    *)
(* opened, with or without the debug privilege, or its memory not read.    *)
FindsNone(c) ==
  IF srv[c].tries < MaxTries - 1 THEN SrvIs(c, [srv[c] EXCEPT !.tries = @ + 1])
  ELSE SrvAt(c, "deaf")

Recover(c) ==
  LET fresh == {d \in Candidates : heap[d].at \notin srv[c].snap} IN
  /\ srv[c].pc = "recover"
  /\ \/ \E d \in fresh :
          /\ \A e \in fresh : Better(d, e)
          /\ SrvIs(c, [srv[c] EXCEPT !.pc = "mark", !.anchor = heap[d].at,
                                     !.key = d, !.boot = d])
     \/ FindsNone(c)
  /\ UNCHANGED <<used, lock, session, peer, up, down, cli, heap>>

(* Mutant: the object is not noted as used.                                *)
MarkNot(c) ==
  /\ srv[c].pc = "mark" /\ SrvAt(c, "syn")
  /\ UNCHANGED <<used, lock, session, peer, up, down, cli, heap>>

Mark(c) ==
  /\ srv[c].pc = "mark" /\ used' = used \cup {srv[c].anchor}
  /\ SrvAt(c, "syn")
  /\ UNCHANGED <<lock, session, peer, up, down, cli, heap>>

(* The challenge, and the new key, both sealed under the key found.        *)
Syn(c) == Halves("syn", srv[c].key)
Chgskey(c) == Halves("chg", srv[c].key)

SendSyn(c) ==
  /\ srv[c].pc = "syn"
  /\ \/ Upright(c) /\ Puts(c, Syn(c)) /\ SrvAt(c, "synack")
     \/ SrvAt(c, "end") /\ UNCHANGED down
  /\ UNCHANGED <<used, lock, session, peer, up, cli, heap>>

(* The SYNACK has to come in one piece: what comes is taken for a packet,  *)
(* and half of it for one that does not parse.  On CHGSKEY the stream      *)
(* begins.                                                                 *)
HearSynack(c) ==
  /\ srv[c].pc = "synack"
  /\ \E n \in 1 .. Len(up[c]) :
       /\ up' = [up EXCEPT ![c] = SubSeq(@, n + 1, Len(@))]
       /\ IF SubSeq(up[c], 1, n) = Halves("synack", srv[c].key)
          THEN \/ /\ Upright(c) /\ Puts(c, Chgskey(c))
                  /\ SrvIs(c, [srv[c] EXCEPT !.pc = "stream", !.key = GameKey,
                                             !.tail = <<>>, !.queue = <<>>])
               \/ UNCHANGED <<srv, down>>
          ELSE UNCHANGED <<srv, down>>
  /\ UNCHANGED <<used, lock, session, peer, cli, heap>>

-----------------------------------------------------------------------------
AtLoop(c) == srv[c].pc = "stream" /\ srv[c].out = <<>>

Replies(c, m) ==
  CASE m = "pinglist" -> <<"pings">>
    [] m = "zonelist" -> <<"zones">>
    [] m = "login"    -> <<"a001">>
    [] m = "beat"     -> <<"a004">>
    [] m = "ready" /\ srv[c].pending -> <<"pinfo", "hints">>
    [] OTHER -> <<>>

(* Mutant: with the key the handler found.                                 *)
RegistersBootKey(c, m) ==
  session' = IF c \in Zone /\ m # "bye" THEN [conn |-> c, key |-> srv[c].boot]
             ELSE session

(* Any request of the ZONE port but a CLOSE makes the connection the       *)
(* player's session, with the key of the moment.                           *)
Registers(c, m) ==
  session' = IF c \in Zone /\ m # "bye" THEN [conn |-> c, key |-> srv[c].key]
             ELSE session

(* Mutant: a heartbeat makes the handler forget the profile it owes.       *)
DispatchForgets(c, m, rest, tail) ==
  /\ SrvIs(c, [srv[c] EXCEPT !.queue = rest, !.tail = tail,
                 !.out = Replies(c, m), !.done = Append(@, m),
                 !.pending = @ /\ m # "beat"])
  /\ Registers(c, m)

Dispatch(c, m, rest, tail) ==
  /\ SrvIs(c, [srv[c] EXCEPT !.queue = rest, !.tail = tail,
                 !.out = Replies(c, m), !.done = Append(@, m)])
  /\ Registers(c, m)

Handle(c) ==
  /\ AtLoop(c) /\ srv[c].queue # <<>>
  /\ Dispatch(c, Head(srv[c].queue), Tail(srv[c].queue), srv[c].tail)
  /\ UNCHANGED <<used, lock, peer, up, down, cli, heap>>

Frames(s) == [i \in 1 .. Len(s) \div 2 |-> IF WholeAt(s, i) THEN s[2 * i].m ELSE "garbled"]

(* Mutant: what is left over of a chunk is forgotten.                      *)
RestForgotten(s) == <<>>
Rest(s) == SubSeq(s, 2 * (Len(s) \div 2) + 1, Len(s))

(* Mutant: of a chunk with several frames only the first is handled.       *)
QueuedNone(frames) == <<>>
Queued(frames) == Tail(frames)

Recv(c) ==
  /\ AtLoop(c) /\ srv[c].queue = <<>>
  /\ \E n \in 1 .. Len(up[c]) :
       LET combined == srv[c].tail \o SubSeq(up[c], 1, n)
           frames == Frames(combined)
       IN  /\ up' = [up EXCEPT ![c] = SubSeq(@, n + 1, Len(@))]
           /\ IF frames = <<>>
              THEN /\ SrvIs(c, [srv[c] EXCEPT !.tail = Rest(combined)])
                   /\ UNCHANGED session
              ELSE Dispatch(c, Head(frames), Queued(frames), Rest(combined))
  /\ UNCHANGED <<used, lock, peer, down, cli, heap>>

(* _v48_send_app, frame by frame under the lock of the connection; a       *)
(* sendall that fails, perhaps halfway, ends the answer but not the        *)
(* connection.                                                             *)
MayWrite(c) == lock[c] = "free"

StartSend(c) ==
  /\ srv[c].out # <<>> /\ ~srv[c].half /\ MayWrite(c) /\ Upright(c)
  /\ lock' = [lock EXCEPT ![c] = "own"]
  /\ Puts(c, << Halves(Head(srv[c].out), srv[c].key)[1] >>)
  /\ SrvIs(c, [srv[c] EXCEPT !.half = TRUE])
  /\ UNCHANGED <<used, session, peer, up, cli, heap>>

FinishSend(c) ==
  LET m == Head(srv[c].out) IN
  /\ srv[c].half /\ Upright(c)
  /\ lock' = [lock EXCEPT ![c] = "free"]
  /\ Puts(c, << Halves(m, srv[c].key)[2] >>)
  /\ SrvIs(c, [srv[c] EXCEPT !.half = FALSE, !.out = Tail(@),
                 !.pending = IF m = "a001" THEN TRUE ELSE @ /\ m # "hints"])
  /\ UNCHANGED <<used, session, peer, up, cli, heap>>

(* What is there of a frame that was cut short: its first half and the     *)
(* place where it ends.                                                    *)
Cut(m, key) == << [m |-> m, key |-> key, part |-> 3] >>

SendFails(c) ==
  /\ srv[c].out # <<>>
  /\ \/ /\ srv[c].half /\ lock' = [lock EXCEPT ![c] = "free"]
        /\ IF Upright(c) THEN Puts(c, Cut(Head(srv[c].out), srv[c].key))
           ELSE UNCHANGED down
     \/ ~srv[c].half /\ MayWrite(c) /\ UNCHANGED <<lock, down>>
  /\ SrvIs(c, [srv[c] EXCEPT !.half = FALSE, !.out = <<>>])
  /\ UNCHANGED <<used, session, peer, up, cli, heap>>

(* The end of the connection: its lifetime is over, between two frames, or *)
(* the client has gone.                                                    *)
Ends(c) ==
  /\ srv[c].pc \in {"deaf", "synack", "stream"} /\ srv[c].out = <<>>
  /\ SrvIs(c, [srv[c] EXCEPT !.pc = "end", !.tail = <<>>, !.queue = <<>>])
  /\ up' = [up EXCEPT ![c] = <<>>]
  /\ UNCHANGED <<used, lock, session, peer, down, cli, heap>>

Expire(c) == Ends(c)
HearClose(c) == cli[c].pc = "closed" /\ srv[c].queue = <<>> /\ Ends(c)

-----------------------------------------------------------------------------
(* _v150_send_online on the thread of another player: it copies the        *)
(* session, then writes to the connection it found there.                  *)
Notify ==
  /\ peer.pc = "idle" /\ peer.n < MaxNotes /\ session # NoConn
  /\ peer' = [n |-> peer.n + 1, pc |-> "wait", conn |-> session.conn, key |-> session.key]
  /\ UNCHANGED <<srv, used, lock, session, up, down, cli, heap>>

PeerStarts ==
  LET c == peer.conn IN
  /\ peer.pc = "wait" /\ MayWrite(c) /\ Upright(c) /\ srv[c].pc # "end"
  /\ lock' = [lock EXCEPT ![c] = "peer"]
  /\ Puts(c, << Halves("note", peer.key)[1] >>)
  /\ peer' = [peer EXCEPT !.pc = "half"]
  /\ UNCHANGED <<srv, used, session, up, cli, heap>>

PeerFinishes ==
  LET c == peer.conn IN
  /\ peer.pc = "half" /\ Upright(c) /\ srv[c].pc # "end"
  /\ lock' = [lock EXCEPT ![c] = "free"]
  /\ Puts(c, << Halves("note", peer.key)[2] >>)
  /\ peer' = [NoPeer EXCEPT !.n = peer.n]
  /\ UNCHANGED <<srv, used, session, up, cli, heap>>

PeerFails ==
  LET c == peer.conn IN
  /\ \/ /\ peer.pc = "half" /\ lock' = [lock EXCEPT ![c] = "free"]
        /\ IF Upright(c) THEN Puts(c, Cut("note", peer.key)) ELSE UNCHANGED down
     \/ peer.pc = "wait" /\ MayWrite(c) /\ UNCHANGED <<lock, down>>
  /\ peer' = [NoPeer EXCEPT !.n = peer.n]
  /\ UNCHANGED <<srv, used, session, up, cli, heap>>

-----------------------------------------------------------------------------
(* The client takes whole frames and understands those under its key; it   *)
(* echoes the challenge, changes its key, and asks what it has to ask, the *)
(* zone list after the ping list and all but LOGIN after A001.             *)
Reads(c) ==
  /\ Upright(c) /\ Len(down[c]) >= 2 /\ WholeAt(down[c], 1)
  /\ LET f == down[c][1]
         known == f.key = cli[c].key
     IN  /\ up' = IF known /\ f.m = "syn"
                  THEN [up EXCEPT ![c] = @ \o Halves("synack", f.key)] ELSE up
         /\ cli' = IF known
                   THEN [cli EXCEPT ![c].got = @ \cup {f.m},
                           ![c].key = IF f.m = "chg" THEN GameKey ELSE @]
                   ELSE cli
  /\ down' = [down EXCEPT ![c] = SubSeq(@, 3, Len(@))]
  /\ UNCHANGED <<srv, used, lock, session, peer, heap>>

Needs(m) == CASE m \in {"pinglist", "login"} -> "chg"
              [] m = "zonelist" -> "pings"
              [] OTHER -> "a001"

Asks(c) ==
  LET n == cli[c].sent + 1 IN
  /\ Upright(c) /\ n <= Len(Plan(c)) /\ Needs(Plan(c)[n]) \in cli[c].got
  /\ up' = [up EXCEPT ![c] = @ \o Halves(Plan(c)[n], GameKey)]
  /\ cli' = [cli EXCEPT ![c].sent = n]
  /\ UNCHANGED <<srv, used, lock, session, peer, down, heap>>

(* It closes the connection; the object goes with it, or stays behind.     *)
Closes(c) ==
  /\ Upright(c)
  /\ cli' = [cli EXCEPT ![c].pc = "closed"]
  /\ down' = [down EXCEPT ![c] = <<>>]
  /\ \/ heap' = [heap EXCEPT ![c] = NoObject]
     \/ UNCHANGED heap
  /\ UNCHANGED <<srv, used, lock, session, peer, up>>

-----------------------------------------------------------------------------
Handler(c) ==
  \/ Burst(c) \/ Recover(c) \/ Mark(c) \/ SendSyn(c) \/ HearSynack(c)
  \/ Handle(c) \/ Recv(c) \/ StartSend(c) \/ FinishSend(c) \/ SendFails(c)
  \/ Expire(c) \/ HearClose(c)
Peer == Notify \/ PeerStarts \/ PeerFinishes \/ PeerFails
Client(c) == Open(c) \/ Fills(c) \/ Reads(c) \/ Asks(c) \/ Closes(c)

Next == Peer \/ \E c \in Conn : Handler(c) \/ Client(c)

Spec == Init /\ [][Next]_vars

(* The threads of the server go on, and the client reads what has come.    *)
Progress(c) ==
  \/ Burst(c) \/ Recover(c) \/ Mark(c) \/ SendSyn(c) \/ HearSynack(c)
  \/ Handle(c) \/ Recv(c) \/ StartSend(c) \/ FinishSend(c) \/ SendFails(c)
FairSpec ==
  /\ Spec /\ WF_vars(PeerStarts \/ PeerFinishes \/ PeerFails)
  /\ \A c \in Conn : WF_vars(Progress(c)) /\ WF_vars(Reads(c))

-----------------------------------------------------------------------------
(* A handler takes the key of its own connection out of the client's       *)
(* memory, "so the second handshake cannot accidentally reuse the GEO      *)
(* connection's key" (2035), although all objects carry the same ticket,   *)
(* older ones may still be there and their places be taken again: provided *)
(* every earlier connection of the client found its own.                   *)
KeyIsOwn ==
  \A c \in Conn :
    (srv[c].anchor # NoPlace /\ \A d \in 1 .. c - 1 : srv[d].anchor # NoPlace)
      => srv[c].boot = c

(* "every write on a given TCP socket is serialized to prevent packet      *)
(* interleaving" (5654): no frame begins or ends inside another, unless a  *)
(* sendall was cut short in it.                                            *)
FramesWhole ==
  \A c \in Conn : LET s == down[c] IN
    \A i \in 1 .. Len(s) : s[i].part = 1 =>
      (i < Len(s) => /\ s[i + 1].part \in {2, 3}
                     /\ s[i + 1].m = s[i].m /\ s[i + 1].key = s[i].key)

(* Whoever writes to a connection after CHGSKEY, its handler or another    *)
(* player's thread with a copy of the session, writes whole frames, and    *)
(* under the key the client will have when it reads them.                  *)
ClientCanRead ==
  /\ FramesWhole
  /\ \A c \in Conn : \A i \in 1 .. Len(down[c]) :
       (\/ cli[c].key = GameKey
        \/ \E j \in 1 .. i - 1 : down[c][j].m = "chg" /\ down[c][j].part = 2)
         => down[c][i].key = GameKey

(* However TCP cuts and joins them, the frames of the client are handled   *)
(* as it sent them: each once, in order, none made up.                     *)
HandledInOrder ==
  \A c \in Conn : srv[c].done = SubSeq(Plan(c), 1, Len(srv[c].done))

(* While the handler lives: again and again it has handled all that was    *)
(* sent.                                                                   *)
EachHandled ==
  \A c \in Conn : []<>(Len(srv[c].done) = cli[c].sent \/ srv[c].pc = "end")

Asked(c) == {Plan(c)[i] : i \in 1 .. cli[c].sent}
Spoilt(c) == \E i \in 1 .. Len(down[c]) : down[c][i].part = 3
Over(c) == srv[c].pc = "end" \/ ~Upright(c)

(* A client that was let in and says it is ready gets its profile to the   *)
(* end, whatever it asks between the two, or the handler goes on owing it  *)
(* (a write that failed): unless a frame was cut short or the connection   *)
(* is over.                                                                *)
ProfileArrives ==
  \A c \in Zone :
    \/ <>[](srv[c].pending)
    \/ "ready" \in Asked(c) ~> "hints" \in cli[c].got \/ Over(c) \/ Spoilt(c)

(* What a client asks for is handled, and the profile it waits for comes.  *)
Served == EachHandled /\ ProfileArrives
=============================================================================
