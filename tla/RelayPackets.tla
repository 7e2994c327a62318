---------------------------- MODULE RelayPackets ----------------------------
(***************************************************************************)
(* How the relay (tools/bridge/af_ds_udp_bridge_v9_multi_peer_latch.py)    *)
(* reads the datagrams of a game.  It relays them unchanged, but the first *)
(* of a client decides whether there is a client at all: only a datagram   *)
(* that decrypts and parses is latched and starts a dedicated server.      *)
(* The relay has a decoder of its own, which is not the server's.          *)
(***************************************************************************)
EXTENDS DSStub

(* Mutant: a packet that fills its blocks to the last byte is refused.     *)
RelayDecryptShort(d) ==
  IF d.body = <<>> \/ Len(d.body) % (Byte * Block) # 0 THEN <<>>
  ELSE IF d.clear * Byte >= Len(d.body) THEN <<>>
  ELSE SubSeq(d.body, 1, d.clear * Byte)

(* decrypt_wire: a datagram that claims to be empty passes here.           *)
RelayDecrypt(d) ==
  IF d.body = <<>> \/ Len(d.body) % (Byte * Block) # 0 THEN <<>>
  ELSE IF d.clear * Byte > Len(d.body) THEN <<>>
  ELSE SubSeq(d.body, 1, d.clear * Byte)

(* The loop of parse_packet.  A read behind the last bit of the datagram   *)
(* and a bunch that overruns the stop bit raise; that the records end at   *)
(* the stop bit is not asked, so an ack may reach over it.                 *)
RelayRecords(bits, start, stop) ==
  LET from[pos \in Nat] ==
        IF pos > Len(bits) THEN <<Bad>>
        ELSE IF pos >= stop THEN <<>>
        ELSE LET r == RecordAt(bits, pos, stop) IN <<r.rec>> \o from[r.end]
  IN from[start]

RelayParse(bits) ==
  LET ones == {i \in 1 .. Len(bits) : bits[i] = 1}
      stop == (CHOOSE i \in ones : \A j \in ones : j <= i) - 1
      recs == RelayRecords(bits, IntWidth(Ids), stop)
  IN IF ones = {} \/ \E i \in 1 .. Len(recs) : recs[i] = Bad THEN Broken
     ELSE [id |-> ReadInt(bits, 0, Ids), recs |-> recs]

(* valid_ds_client_packet: the packet, Broken where anything raises.       *)
RelayReads(d) == RelayParse(RelayDecrypt(d))

(* The length field of a datagram may say anything.                        *)
Claims(p) ==
  LET whole == Encrypt(Build(p))
  IN {[whole EXCEPT !.clear = n] : n \in 0 .. Len(whole.body) \div Byte + 1}

(* The packets that both decoders read alike.                              *)
SameReading ==
  {p \in Packet :
     /\ RelayReads(Encrypt(Build(p))) = p
     /\ \A d \in Claims(p) :
          Parse(Decrypt(d)) # Broken => RelayReads(d) = Parse(Decrypt(d))}

-----------------------------------------------------------------------------
(* What is built and encrypted is what comes out of decrypting and parsing *)
(* it: flags, numbers, payload and stop bit.  And a game is never taken    *)
(* for noise: the relay latches whatever the server would be able to read, *)
(* and reads it alike, whatever the datagram says of its length            *)
(* (_v96_build_ue3_server_packet, _v96_parse_ue3_packet and                *)
(* valid_ds_client_packet).  The relay is more generous than the server,   *)
(* not the other way round.                                                *)
CodecsAgree ==
  \A d \in net : d.pkt \in Intact /\ (d.to = "server" => d.pkt \in SameReading)
=============================================================================
