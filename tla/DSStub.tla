------------------------------- MODULE DSStub -------------------------------
(***************************************************************************)
(* The dedicated server's stand-in on UDP (listen_on_udp_port of           *)
(* server/assaultfire_server_v143b.py): it decodes the packets of a game,  *)
(* acknowledges the reliable ones, and answers Hello with Challenge, Login *)
(* with Welcome, and, once Join was seen, keeps the connection alive.      *)
(*                                                                         *)
(* The bits of a packet are those the code writes and reads, the widths    *)
(* being constants; what travels is the packet, as CodecInverts allows.  A *)
(* datagram that cannot be decoded changes nothing.  The network loses,    *)
(* doubles and reorders.  The game is external: an Unreal Engine 3 client, *)
(* which sends a reliable bunch again, in a packet with a new id, until a  *)
(* packet of it is acknowledged, and drops a packet that comes after a     *)
(* later one; its acks, which the code only logs, are left out.            *)
(* peer_state keeps one `st' per address and addresses share nothing: one  *)
(* address is modelled.                                                    *)
(***************************************************************************)
EXTENDS Integers, Sequences, FiniteSets

CONSTANTS
  Ids,       \* packet ids (16384)
  Chans,     \* channels (1023)
  Seqs,      \* sequence numbers of a channel (1024)
  Types,     \* channel types (8)
  MaxBits,   \* bits of a bunch (4096)
  Byte,      \* bits of a byte (8)
  Block,     \* bytes of a cipher block (16)
  MaxLost, MaxEarly, MaxIdle, MaxDup
             \* bounds: packets lost, sent again before that was necessary,
             \* sent empty, delivered twice

(* The ids are enough for what the bounds allow: none is used twice.       *)
(* The messages fit: they have seven bytes below 16 at most, and a game    *)
(* uses four sequence numbers.                                             *)
ASSUME StubAssumption ==
  /\ {Ids, Chans, Seqs, Types, MaxBits, Byte, Block} \subseteq Nat \ {0}
  /\ {MaxLost, MaxEarly, MaxIdle, MaxDup} \subseteq Nat
  /\ 4 + MaxLost + MaxEarly + MaxIdle <= Ids
  /\ Byte >= 4 /\ 7 * Byte < MaxBits /\ Types > 1 /\ Seqs > 4

VARIABLES
  st,        \* the server's peer_state of the address
  handled,   \* control messages the server has handled
  cli,       \* external: the game
  net,       \* datagrams under way
  lost, dup, \* how many were lost and doubled
  missed     \* an answer of the server was lost, or came too late

stubVars == <<st, handled, cli, net, lost, dup, missed>>

None == -1
Hello == 0
Welcomed == 1
Challenged == 3
Netspeed == 4
Login == 5
Join == 9

-----------------------------------------------------------------------------
(* Bits, the least significant one first.                                  *)
TwoTo[n \in Nat] == IF n = 0 THEN 1 ELSE 2 * TwoTo[n - 1]
Bits(value, n) == [i \in 1 .. n |-> (value \div TwoTo[i - 1]) % 2]

(* SerializeInt: as many bits as there are powers of two below max.        *)
IntWidth(max) ==
  CHOOSE n \in 0 .. max : TwoTo[n] >= max /\ \A m \in 0 .. n - 1 : TwoTo[m] < max
WriteInt(value, max) == Bits(value, IntWidth(max))

Bit(bits, pos) == IF pos < Len(bits) THEN bits[pos + 1] ELSE 0
ReadBits(bits, pos, n) ==
  LET value[i \in 0 .. n] ==
        IF i = 0 THEN 0 ELSE value[i - 1] + Bit(bits, pos + i - 1) * TwoTo[i - 1]
  IN value[n]
ReadInt(bits, pos, max) == ReadBits(bits, pos, IntWidth(max))

(* Whole bytes, zeroes after the last bit; and back, whole bytes only.     *)
RoundUp(n, m) == ((n + m - 1) \div m) * m
Padded(bits, m) == [i \in 1 .. RoundUp(Len(bits), m) |-> Bit(bits, i - 1)]
ToBits(bytes) == [i \in 1 .. Byte * Len(bytes) |->
                    (bytes[(i - 1) \div Byte + 1] \div TwoTo[(i - 1) % Byte]) % 2]
ToBytes(bits) == [i \in 1 .. RoundUp(Len(bits), Byte) \div Byte |->
                    ReadBits(bits, (i - 1) * Byte, Byte)]

(* _v96_ds_udp_encrypt: the number of bytes, then whole blocks.            *)
Encrypt(bits) == [clear |-> Len(bits) \div Byte, body |-> Padded(bits, Byte * Block)]

(* _v96_ds_udp_decrypt; no bits where it raises.                           *)
Decrypt(d) ==
  IF d.body = <<>> \/ Len(d.body) % (Byte * Block) # 0 THEN <<>>
  ELSE IF d.clear < 1 \/ d.clear * Byte > Len(d.body) THEN <<>>
  ELSE SubSeq(d.body, 1, d.clear * Byte)

-----------------------------------------------------------------------------
(* A record of a packet: an ack, a bunch, or nothing that can be read.     *)
Ack(id) == [kind |-> "ack", id |-> id]
Bad == [kind |-> "bad"]
Bunch(open, close, reliable, chan, seq, type, payload) ==
  [kind |-> "bunch", open |-> open, close |-> close, reliable |-> reliable,
   chan |-> chan, seq |-> seq, type |-> type, payload |-> payload]

(* The record at pos, and where it ends.                                   *)
RecordAt(bits, pos, stop) ==
  IF Bit(bits, pos) = 1
  THEN [rec |-> Ack(ReadInt(bits, pos + 1, Ids)), end |-> pos + 1 + IntWidth(Ids)]
  ELSE LET control == Bit(bits, pos + 1)
           p1 == pos + 2 + 2 * control
           reliable == Bit(bits, p1)
           p2 == p1 + 1 + IntWidth(Chans)
           p3 == p2 + reliable * IntWidth(Seqs)
           open == IF control = 1 THEN Bit(bits, pos + 2) ELSE 0
           typed == IF reliable = 1 \/ open = 1 THEN 1 ELSE 0
           p4 == p3 + typed * IntWidth(Types)
           p5 == p4 + IntWidth(MaxBits)
           size == ReadInt(bits, p4, MaxBits)
       IN IF p5 + size > stop THEN [rec |-> Bad, end |-> stop]
          ELSE [rec |-> Bunch(open, IF control = 1 THEN Bit(bits, pos + 3) ELSE 0,
                              reliable, ReadInt(bits, p1 + 1, Chans),
                              IF reliable = 1 THEN ReadInt(bits, p2, Seqs) ELSE 0,
                              IF typed = 1 THEN ReadInt(bits, p3, Types) ELSE 0,
                              ToBytes(SubSeq(bits, p5 + 1, p5 + size))),
                end |-> p5 + size]

(* The loop of _v96_parse_ue3_packet.                                      *)
Records(bits, start, stop) ==
  LET from[pos \in Nat] ==
        IF pos = stop THEN <<>>
        ELSE IF pos > stop THEN <<Bad>>
        ELSE LET r == RecordAt(bits, pos, stop) IN <<r.rec>> \o from[r.end]
  IN from[start]

(* The last bit that is set stops a packet.  Nothing where it raises.      *)
Broken == [id |-> None, recs |-> <<>>]
Parse(bits) ==
  LET ones == {i \in 1 .. Len(bits) : bits[i] = 1}
      stop == (CHOOSE i \in ones : \A j \in ones : j <= i) - 1
      recs == Records(bits, IntWidth(Ids), stop)
  IN IF ones = {} \/ \E i \in 1 .. Len(recs) : recs[i] = Bad THEN Broken
     ELSE [id |-> ReadInt(bits, 0, Ids), recs |-> recs]

(* A bunch; the client's control bunches may carry flags.                  *)
BunchBits(b) ==
  <<0>> \o (IF b.open + b.close > 0 THEN <<1, b.open, b.close>> ELSE <<0>>)
        \o <<b.reliable>> \o WriteInt(b.chan, Chans)
        \o (IF b.reliable = 1 THEN WriteInt(b.seq, Seqs) ELSE <<>>)
        \o (IF b.reliable = 1 \/ b.open = 1 THEN WriteInt(b.type, Types) ELSE <<>>)
        \o WriteInt(Byte * Len(b.payload), MaxBits) \o ToBits(b.payload)

RecordBits(r) == IF r.kind = "ack" THEN <<1>> \o WriteInt(r.id, Ids) ELSE BunchBits(r)

Build(pkt) ==
  LET upTo[i \in 0 .. Len(pkt.recs)] ==
        IF i = 0 THEN WriteInt(pkt.id, Ids) ELSE upTo[i - 1] \o RecordBits(pkt.recs[i])
  IN Padded(upTo[Len(pkt.recs)] \o <<1>>, Byte)

Datagram(to, pkt) == [to |-> to, pkt |-> pkt]

-----------------------------------------------------------------------------
(* Strings: their length with the NUL, and nothing but a zero when empty.  *)
FString(s) == IF s = <<>> THEN <<0>> ELSE <<Len(s) + 1>> \o s \o <<0>>

(* Where an FString that begins at pos ends; None where reading it raises. *)
(* A negative length counts characters of two bytes.                       *)
AfterFString(payload, pos) ==
  LET n == payload[pos]
      size == IF n < TwoTo[Byte - 1] THEN n ELSE 2 * (TwoTo[Byte] - n)
  IN IF pos > Len(payload) \/ pos + size > Len(payload) THEN None ELSE pos + size + 1

(* _v97_parse_control_stream: the messages of a payload without an error   *)
(* in them.  What follows belongs to the message, except after a Netspeed. *)
Controls(payload) ==
  LET from[pos \in Nat] ==
        IF pos > Len(payload) THEN {}
        ELSE CASE payload[pos] = Netspeed ->
                    IF pos = Len(payload) THEN {} ELSE {Netspeed} \cup from[pos + 2]
               [] payload[pos] = Login ->
                    LET url == AfterFString(payload, pos + 1)
                    IN IF url = None THEN {}
                       ELSE IF AfterFString(payload, url) = None THEN {} ELSE {Login}
               [] OTHER -> {payload[pos]}
  IN from[1]

Version == 2          \* AF_DS_CHALLENGE_U32, and the texts, scaled
Zeroes == <<8>>
Level == <<7>>
ChallengePayload == <<Challenged, Version>> \o FString(Zeroes)

WelcomePayload == <<Welcomed>> \o FString(Level) \o FString(<<>>)

-----------------------------------------------------------------------------
(* External: what the game says.                                           *)
PayloadOf(msg) ==
  CASE msg = Hello -> <<Hello, 1>>
    [] msg = Login -> <<Netspeed, 1, Login>> \o FString(<<>>) \o FString(<<6>>)
    [] OTHER -> <<msg>>

(* Every packet of either side.                                            *)
Packet ==
  LET bunches == {Bunch(open, 0, 1, 0, seq, 1, payload) :
                    open \in {0, 1}, seq \in 0 .. Seqs - 1,
                    payload \in {ChallengePayload, WelcomePayload} \cup
                               {PayloadOf(m) : m \in {Hello, Login, Join}}}
                 \cup {Bunch(0, 1, 1, 0, seq, 1, <<>>) : seq \in 0 .. Seqs - 1}
      one(S) == {<<>>} \cup {<<r>> : r \in S}
  IN {[id |-> id, recs |-> a \o b] :
        id \in 0 .. Ids - 1, a \in one({Ack(i) : i \in 0 .. Ids - 1}), b \in one(bunches)}

(* The packets that come out of the codec as they went in.                 *)
Intact == {p \in Packet : Parse(Decrypt(Encrypt(Build(p)))) = p}

-----------------------------------------------------------------------------
(* The state of an address; `due' stands for last_keepalive being a second *)
(* ago, `welcome_packet_id' is only written to the log.                    *)
Fresh == [id |-> 0, seq |-> 1, challenge |-> FALSE, welcome |-> FALSE,
          acked |-> {}, join |-> FALSE, due |-> TRUE]

(* External: the game, the message it has not yet had acknowledged and the *)
(* ids of the packets it went out in, and what is next on either channel.  *)
Game == [pc |-> "hello", out |-> Hello, ids |-> {}, next |-> 0, seq |-> 1,
         expect |-> 1, acked |-> {}, early |-> 0, idle |-> 0]

StubInit ==
  /\ st = Fresh /\ handled = {} /\ cli = Game /\ net = {}
  /\ lost = 0 /\ dup = 0 /\ missed = FALSE

Bunches(pkt) == {pkt.recs[i] : i \in {j \in 1 .. Len(pkt.recs) : pkt.recs[j].kind = "bunch"}}
Acks(pkt) == {pkt.recs[i].id : i \in {j \in 1 .. Len(pkt.recs) : pkt.recs[j].kind = "ack"}}

(* Mutant: version 96 looked at the first message of a bunch only.         *)
MessagesFirst(pkt) ==
  {b.payload[1] : b \in {c \in Bunches(pkt) : c.chan = 0 /\ c.payload # <<>>}}

(* What the bunches of a packet ask of the server.                         *)
Messages(pkt) ==
  UNION {Controls(b.payload) : b \in {c \in Bunches(pkt) : c.chan = 0}}
SaysHello(pkt) ==
  \E b \in Bunches(pkt) : b.chan = 0 /\ b.payload # <<>> /\ b.payload[1] = Hello

(* Challenge and Welcome are sent once.                                    *)
AnswerTo(pkt) ==
  IF SaysHello(pkt) /\ ~st.challenge THEN ChallengePayload
  ELSE IF Login \in Messages(pkt) /\ ~st.welcome THEN WelcomePayload
  ELSE <<>>

(* Mutant: version 95 answered, but acknowledged nothing else.             *)
AcksAnswered(pkt) ==
  AnswerTo(pkt) # <<>> /\ pkt.id \notin st.acked

NeedsAck(pkt) ==
  (\E b \in Bunches(pkt) : b.reliable = 1) /\ pkt.id \notin st.acked

AckOf(pkt) == IF NeedsAck(pkt) THEN <<Ack(pkt.id)>> ELSE <<>>

Reply(pkt) ==
  [id |-> st.id,
   recs |-> AckOf(pkt) \o
     (IF AnswerTo(pkt) = <<>> THEN <<>>
      ELSE <<Bunch(0, 0, 1, 0, st.seq, 1, AnswerTo(pkt))>>)]

(* recvfrom and all that follows it; a keepalive may follow the reply.     *)
Answers(pkt, rest) ==
  LET replies == NeedsAck(pkt) \/ AnswerTo(pkt) # <<>>
      joined == st.join \/ Join \in Messages(pkt)
      alive == joined /\ st.due
      after == IF replies THEN (st.id + 1) % Ids ELSE st.id
  IN /\ st' = [id |-> IF alive THEN (after + 1) % Ids ELSE after,
               seq |-> IF AnswerTo(pkt) = <<>> THEN st.seq ELSE (st.seq + 1) % Seqs,
               challenge |-> st.challenge \/ SaysHello(pkt),
               welcome |-> st.welcome \/ AnswerTo(pkt) = WelcomePayload,
               acked |-> IF NeedsAck(pkt) THEN st.acked \cup {pkt.id} ELSE st.acked,
               join |-> joined,
               due |-> st.due /\ ~alive]
     /\ handled' = handled \cup Messages(pkt)
     /\ net' = (rest \cup (IF replies THEN {Datagram("client", Reply(pkt))} ELSE {}))
                    \cup (IF alive THEN {Datagram("client", [id |-> after, recs |-> <<>>])}
                          ELSE {})

(* A datagram arrives, and may arrive once more.                           *)
Receives ==
  \E d \in {e \in net : e.to = "server"}, again \in BOOLEAN :
    /\ again => dup < MaxDup
    /\ dup' = IF again THEN dup + 1 ELSE dup
    /\ Answers(d.pkt, IF again THEN net ELSE net \ {d})
    /\ UNCHANGED <<cli, lost, missed>>

(* A second goes by.                                                       *)
Second ==
  /\ ~st.due /\ st' = [st EXCEPT !.due = TRUE]
  /\ UNCHANGED <<handled, cli, net, lost, dup, missed>>
-----------------------------------------------------------------------------
(* External: the game.                                                     *)
Put(bunches) == Datagram("server", [id |-> cli.next, recs |-> bunches])

UnderWay ==
  \E d \in net : \/ d.to = "server" /\ d.pkt.id \in cli.ids
                 \/ d.to = "client" /\ Acks(d.pkt) \cap cli.ids # {}

ClientSends(early) ==
  /\ cli.out # None /\ early = UnderWay /\ cli.next < Ids - 1
  /\ early => cli.early < MaxEarly
  /\ net' = net \cup {Put(<<Bunch(IF cli.out = Hello THEN 1 ELSE 0, 0, 1, 0, cli.seq, 1,
                                  PayloadOf(cli.out))>>)}
  /\ cli' = [cli EXCEPT !.ids = @ \cup {cli.next}, !.next = @ + 1,
                        !.early = IF early THEN @ + 1 ELSE @]
  /\ UNCHANGED <<st, handled, lost, dup, missed>>

(* In the match it sends packets without a bunch.                          *)
ClientIdles ==
  /\ cli.pc = "in" /\ cli.idle < MaxIdle /\ cli.next < Ids - 1
  /\ net' = net \cup {Put(<<>>)}
  /\ cli' = [cli EXCEPT !.next = @ + 1, !.idle = @ + 1]
  /\ UNCHANGED <<st, handled, lost, dup, missed>>

SeqOfClose == IF cli.out # None /\ cli.ids = {} THEN cli.seq ELSE cli.seq + 1

(* It gives up: a bunch of no bits closes the channel, and what else is    *)
(* under way does not matter any more.                                     *)
ClientCloses ==
  /\ cli.pc \in {"hello", "login", "in"}
  /\ net' = {Put(<<Bunch(0, 1, 1, 0, SeqOfClose, 1, <<>>)>>)}
  /\ cli' = [cli EXCEPT !.pc = "closed", !.out = None, !.ids = {}, !.next = @ + 1]
  /\ UNCHANGED <<st, handled, lost, dup, missed>>

(* What it makes of a control bunch: the next in sequence, of the kind and *)
(* the length that it reads at this point.                                 *)
Ends(payload, pos) == AfterFString(payload, pos) = Len(payload) + 1
Takes(c, b) ==
  LET p == b.payload
      expected == b.seq = c.expect /\ b.chan = 0
      says(msg) == [c EXCEPT !.expect = @ + 1, !.seq = @ + 1, !.ids = {}, !.out = msg]
  IN IF expected /\ c.pc = "hello" /\ p[1] = Challenged /\ Ends(p, 3)
     THEN [says(Login) EXCEPT !.pc = "login"]
     ELSE IF /\ expected /\ c.pc = "login" /\ p[1] = Welcomed
             /\ AfterFString(p, 2) # None /\ Ends(p, AfterFString(p, 2))
     THEN [says(Join) EXCEPT !.pc = "in"]
     ELSE [c EXCEPT !.pc = "rejected", !.out = None]

Told(c, acks) ==
  IF c.out # None /\ acks \cap c.ids # {}
  THEN [c EXCEPT !.acked = @ \cup {c.out}, !.out = None, !.ids = {}] ELSE c

(* A packet that was overtaken is as good as lost.                         *)
Late(d) == {e \in net : e.to = "client" /\ e.pkt.id < d.pkt.id}
Bears(ds) == \E d \in ds : d.to = "client" /\ Bunches(d.pkt) # {}

ClientReceives ==
  \E d \in {e \in net : e.to = "client"} :
    LET pkt == d.pkt
        c == Told(cli, Acks(pkt))
    IN /\ lost + Cardinality(Late(d)) <= MaxLost
       /\ lost' = lost + Cardinality(Late(d))
       /\ missed' = (missed \/ Bears(Late(d)))
       /\ net' = net \ (Late(d) \cup {d})
       /\ cli' = IF cli.pc \in {"closed", "rejected"} THEN cli
                 ELSE IF Bunches(pkt) = {} THEN c
                 ELSE Takes(c, CHOOSE b \in Bunches(pkt) : TRUE)
       /\ UNCHANGED <<st, handled, dup>>

Loses ==
  /\ lost < MaxLost /\ lost' = lost + 1
  /\ \E d \in net : net' = net \ {d} /\ missed' = (missed \/ Bears({d}))
  /\ UNCHANGED <<st, handled, cli, dup>>

StubNext ==
  \/ Receives \/ Second \/ Loses
  \/ \E early \in BOOLEAN : ClientSends(early)
  \/ ClientIdles \/ ClientCloses \/ ClientReceives

StubSpec == StubInit /\ [][StubNext]_stubVars

(* The server's loop and the network go on, and the game sends again what  *)
(* is not acknowledged.                                                    *)
StubFairSpec ==
  /\ StubSpec
  /\ WF_stubVars(Receives) /\ WF_stubVars(ClientReceives) /\ WF_stubVars(ClientSends(FALSE))

-----------------------------------------------------------------------------
(* A message the game sees acknowledged, and will not send again, is one   *)
(* the server has handled (need_ack).                                      *)
AckedIsHandled == cli.acked \subseteq handled

(* Unless the game gives up or an answer is lost, which is never sent      *)
(* again, the game gets into the match whatever else is lost.              *)
LoginCompletes ==
  <>(cli.pc = "closed" \/ missed \/ (cli.pc = "in" /\ cli.out = None))
=============================================================================
