--------------------------- MODULE TGameLinkProofs ---------------------------
(***************************************************************************)
(* That a handler finds the key of its own connection in the client's      *)
(* memory, for any number of connections, places, attempts and requests.   *)
(*                                                                         *)
(* All objects of a client carry the same ticket, so what tells them apart *)
(* is that an earlier handler noted the place of its own: an object that   *)
(* is still there is where its handler found it, and that place is in the  *)
(* copy of the used places this handler works with.  A later connection's  *)
(* object is not there yet, because the client opens it only when the      *)
(* handshake is over.                                                      *)
(*                                                                         *)
(* Then, that the streams of a connection are in order both ways.  Up: the *)
(* requests handled, those queued, what was left over of a chunk and what  *)
(* is still under way are together what the client has asked.  Down: who   *)
(* holds the lock is within a frame of his, and behind the new key there   *)
(* are only frames under it, because whoever knows the connection learnt   *)
(* of it when its handler had sent that key.                               *)
(***************************************************************************)
EXTENDS TGameLink, TLAPS, SequenceTheorems

(* The stages before a handler's key is found, and those in which the      *)
(* client may have opened another connection.                              *)
Seeking == {"burst", "recover"}
Settled == {"deaf", "synack", "stream", "end"}

Shape ==
  /\ DOMAIN srv = Conn /\ DOMAIN heap = Conn /\ DOMAIN cli = Conn
  /\ \A c \in Conn :
       /\ DOMAIN srv[c] = {"pc", "tries", "snap", "anchor", "key", "boot", "tail",
                           "queue", "out", "half", "pending", "done"}
       /\ DOMAIN heap[c] = {"at", "state"}
       /\ DOMAIN cli[c] = {"pc", "key", "sent", "got"}

(* Connections are opened in order, each when the handshakes before it are *)
(* over.                                                                   *)
InOrder ==
  \A c \in Conn :
    /\ srv[c].pc = "off" => heap[c] = NoObject
    /\ srv[c].pc # "off" => \A d \in Conn : d < c => srv[d].pc \in Settled
    /\ srv[c].pc \in Seeking \cup {"off"} => srv[c].anchor = NoPlace
    /\ cli[c].pc = "off" <=> srv[c].pc = "off"

(* A place that was found is noted one step later, and the copy a handler  *)
(* works with has the places of all earlier ones.                          *)
Noted ==
  \A c \in Conn :
    /\ srv[c].anchor # NoPlace /\ srv[c].pc # "mark" => srv[c].anchor \in used
    /\ srv[c].pc = "recover" =>
         \A d \in Conn :
           d < c /\ srv[d].anchor # NoPlace => srv[d].anchor \in srv[c].snap

(* An object stays where it was found until it goes.                       *)
Stays ==
  \A c \in Conn :
    srv[c].anchor # NoPlace /\ srv[c].boot = c =>
      heap[c].at = srv[c].anchor \/ heap[c].state = "none"

KeyInv == Shape /\ InOrder /\ Noted /\ Stays /\ KeyIsOwn

LEMMA ConnFacts ==
  /\ Conn \subseteq Nat /\ NoPlace \notin Nat
  /\ \A c \in Conn : 1 .. c - 1 = {d \in Conn : d < c}
BY LinkAssumption DEF Conn, NoPlace

(* KeyIsOwn with the earlier connections spelt out.                        *)
LEMMA KeyIsOwnByOrder ==
  KeyIsOwn <=>
    \A c \in Conn :
      (srv[c].anchor # NoPlace /\ \A d \in Conn : d < c => srv[d].anchor # NoPlace)
        => srv[c].boot = c
BY ConnFacts DEF KeyIsOwn

LEMMA InitKey == Init => KeyInv
<1> SUFFICES ASSUME Init PROVE KeyInv
  OBVIOUS
<1>1. \A c \in Conn : srv[c] = Idle /\ heap[c] = NoObject
                        /\ cli[c] = [pc |-> "off", key |-> c, sent |-> 0, got |-> {}]
  BY DEF Init
<1>2. Shape
  BY <1>1 DEF Init, Shape, Idle, NoObject
<1>3. \A c \in Conn : /\ srv[c].pc = "off" /\ srv[c].anchor = NoPlace
                       /\ heap[c] = NoObject /\ cli[c].pc = "off"
  <2>1. Idle.pc = "off" /\ Idle.anchor = NoPlace
    BY DEF Idle
  <2> SUFFICES ASSUME NEW c \in Conn
               PROVE  /\ srv[c].pc = "off" /\ srv[c].anchor = NoPlace
                      /\ heap[c] = NoObject /\ cli[c].pc = "off"
    OBVIOUS
  <2>2. srv[c] = Idle /\ heap[c] = NoObject
    BY <1>1
  <2>3. cli[c] = [pc |-> "off", key |-> c, sent |-> 0, got |-> {}]
    BY <1>1
  <2>4. cli[c].pc = "off"
    BY <2>3
  <2> QED BY <2>1, <2>2, <2>4
<1>4. InOrder
  BY <1>3 DEF InOrder
<1>5. Noted /\ Stays /\ KeyIsOwn
  BY <1>3 DEF Noted, Stays, KeyIsOwn
<1> QED BY <1>2, <1>4, <1>5 DEF KeyInv

-----------------------------------------------------------------------------
(* Most steps leave what the invariant speaks of alone, but for a handler  *)
(* that gets past its handshake.                                           *)
Quiet ==
  /\ used' = used /\ heap' = heap
  /\ \A c \in Conn :
       /\ srv'[c].anchor = srv[c].anchor /\ srv'[c].boot = srv[c].boot
       /\ srv'[c].snap = srv[c].snap
       /\ cli'[c].pc = cli[c].pc
       /\ \/ srv'[c].pc = srv[c].pc
          \/ srv[c].pc \notin {"off", "mark"} /\ srv'[c].pc \in Settled

LEMMA QuietKeeps ==
  ASSUME KeyInv, Shape', Quiet
  PROVE  KeyInv'
<1>1. InOrder'
  BY DEF KeyInv, InOrder, Quiet, Seeking, Settled
<1>2. Noted'
  BY DEF KeyInv, Noted, Quiet, Settled
<1>3. Stays'
  BY DEF KeyInv, Stays, Quiet
<1>4. KeyIsOwn'
  BY ConnFacts DEF KeyInv, KeyIsOwn, Quiet
<1> QED BY <1>1, <1>2, <1>3, <1>4 DEF KeyInv

(* A step of a handler that only changes its own entry of srv.             *)
LEMMA OwnEntry ==
  ASSUME Shape, NEW c \in Conn, NEW now, SrvIs(c, now), DOMAIN now = DOMAIN srv[c],
         UNCHANGED <<heap, cli>>
  PROVE  Shape' /\ srv'[c] = now /\ \A d \in Conn : d # c => srv'[d] = srv[d]
BY DEF Shape, SrvIs

LEMMA OwnQuiet ==
  ASSUME Shape, NEW c \in Conn, NEW now, SrvIs(c, now), DOMAIN now = DOMAIN srv[c],
         UNCHANGED <<used, heap, cli>>,
         now.anchor = srv[c].anchor, now.boot = srv[c].boot, now.snap = srv[c].snap,
         \/ now.pc = srv[c].pc
         \/ srv[c].pc \notin {"off", "mark"} /\ now.pc \in Settled
  PROVE  Shape' /\ Quiet
BY OwnEntry DEF Quiet

(* The rest of the handlers' steps, the peer's and the client's traffic.   *)
LEMMA TrafficQuiet ==
  ASSUME KeyInv, NEW c \in Conn,
         \/ SendSyn(c) \/ HearSynack(c) \/ Handle(c) \/ Recv(c) \/ StartSend(c)
         \/ FinishSend(c) \/ SendFails(c) \/ Expire(c) \/ HearClose(c)
         \/ Peer \/ Reads(c) \/ Asks(c)
  PROVE  Shape' /\ Quiet
<1> USE DEF KeyInv
<1>0. /\ DOMAIN srv[c] = {"pc", "tries", "snap", "anchor", "key", "boot", "tail",
                           "queue", "out", "half", "pending", "done"}
      /\ DOMAIN cli[c] = {"pc", "key", "sent", "got"}
  BY DEF Shape
<1>1. CASE SendSyn(c)
  <2>1. PICK now \in {[srv[c] EXCEPT !.pc = "synack"], [srv[c] EXCEPT !.pc = "end"]} :
          SrvIs(c, now)
    BY <1>1 DEF SendSyn, SrvAt
  <2>2. srv[c].pc = "syn" /\ UNCHANGED <<used, heap, cli>>
    BY <1>1 DEF SendSyn
  <2> QED BY <1>0, <2>1, <2>2, OwnQuiet DEF Settled
<1>2. CASE HearSynack(c)
  <2>1. srv[c].pc = "synack" /\ UNCHANGED <<used, heap, cli>>
    BY <1>2 DEF HearSynack
  <2>2. \/ UNCHANGED srv
        \/ SrvIs(c, [srv[c] EXCEPT !.pc = "stream", !.key = GameKey,
                                   !.tail = <<>>, !.queue = <<>>])
    BY <1>2 DEF HearSynack
  <2>3. CASE UNCHANGED srv
    BY <2>1, <2>3 DEF Shape, Quiet
  <2>4. CASE SrvIs(c, [srv[c] EXCEPT !.pc = "stream", !.key = GameKey,
                                     !.tail = <<>>, !.queue = <<>>])
    BY <1>0, <2>1, <2>4, OwnQuiet DEF Settled
  <2> QED BY <2>2, <2>3, <2>4
<1>3. ASSUME NEW m, NEW rest, NEW tail, Dispatch(c, m, rest, tail),
             UNCHANGED <<used, heap, cli>>
      PROVE  Shape' /\ Quiet
  <2>1. SrvIs(c, [srv[c] EXCEPT !.queue = rest, !.tail = tail,
                    !.out = Replies(c, m), !.done = Append(@, m)])
    BY <1>3 DEF Dispatch
  <2> QED BY <1>0, <1>3, <2>1, OwnQuiet
<1>4. CASE Handle(c)
  BY <1>3, <1>4 DEF Handle
<1>5. CASE Recv(c)
  <2>1. UNCHANGED <<used, heap, cli>>
    BY <1>5 DEF Recv
  <2>2. PICK combined :
          \/ SrvIs(c, [srv[c] EXCEPT !.tail = Rest(combined)])
          \/ Dispatch(c, Head(Frames(combined)), Queued(Frames(combined)), Rest(combined))
    BY <1>5 DEF Recv
  <2>3. CASE SrvIs(c, [srv[c] EXCEPT !.tail = Rest(combined)])
    BY <1>0, <2>1, <2>3, OwnQuiet
  <2>4. CASE Dispatch(c, Head(Frames(combined)), Queued(Frames(combined)), Rest(combined))
    BY <1>3, <2>1, <2>4
  <2> QED BY <2>2, <2>3, <2>4
<1>6. CASE StartSend(c)
  <2>1. SrvIs(c, [srv[c] EXCEPT !.half = TRUE]) /\ UNCHANGED <<used, heap, cli>>
    BY <1>6 DEF StartSend
  <2> QED BY <1>0, <2>1, OwnQuiet
<1>7. CASE FinishSend(c)
  <2> DEFINE m == Head(srv[c].out)
             owes == IF m = "a001" THEN TRUE ELSE srv[c].pending /\ m # "hints"
  <2>1. /\ SrvIs(c, [srv[c] EXCEPT !.half = FALSE, !.out = Tail(@), !.pending = owes])
        /\ UNCHANGED <<used, heap, cli>>
    BY <1>7 DEF FinishSend
  <2> HIDE DEF owes
  <2> QED BY <1>0, <2>1, OwnQuiet
<1>8. CASE SendFails(c)
  <2>1. /\ SrvIs(c, [srv[c] EXCEPT !.half = FALSE, !.out = <<>>])
        /\ UNCHANGED <<used, heap, cli>>
    BY <1>8 DEF SendFails
  <2> QED BY <1>0, <2>1, OwnQuiet
<1>9. CASE Expire(c) \/ HearClose(c)
  <2>1. /\ srv[c].pc \in {"deaf", "synack", "stream"}
        /\ SrvIs(c, [srv[c] EXCEPT !.pc = "end", !.tail = <<>>, !.queue = <<>>])
        /\ UNCHANGED <<used, heap, cli>>
    BY <1>9 DEF Expire, HearClose, Ends
  <2> QED BY <1>0, <2>1, OwnQuiet DEF Settled
<1>10. CASE Peer
  <2>1. UNCHANGED <<srv, used, heap, cli>>
    BY <1>10 DEF Peer, Notify, PeerStarts, PeerFinishes, PeerFails
  <2> QED BY <2>1 DEF Shape, Quiet
<1>11. ASSUME NEW now, DOMAIN now = DOMAIN cli[c], now.pc = cli[c].pc,
              cli' = [cli EXCEPT ![c] = now], UNCHANGED <<srv, used, heap>>
       PROVE  Shape' /\ Quiet
  BY <1>11 DEF Shape, Quiet
<1>12. CASE Reads(c)
  <2> DEFINE f == down[c][1]
             key == IF f.m = "chg" THEN GameKey ELSE cli[c].key
  <2>1. /\ UNCHANGED <<srv, used, heap>>
        /\ \/ cli' = [cli EXCEPT ![c].got = @ \cup {f.m}, ![c].key = key]
           \/ cli' = cli
    BY <1>12, <1>0 DEF Reads, Shape
  <2> HIDE DEF key, f
  <2>2. CASE cli' = [cli EXCEPT ![c].got = @ \cup {f.m}, ![c].key = key]
    BY <1>0, <2>1, <2>2 DEF Shape, Quiet
  <2>3. CASE cli' = cli
    BY <2>1, <2>3 DEF Shape, Quiet
  <2> QED BY <2>1, <2>2, <2>3
<1>13. CASE Asks(c)
  <2>1. cli' = [cli EXCEPT ![c].sent = cli[c].sent + 1] /\ UNCHANGED <<srv, used, heap>>
    BY <1>13 DEF Asks
  <2> QED BY <1>0, <2>1 DEF Shape, Quiet
<1> QED BY <1>1, <1>2, <1>4, <1>5, <1>6, <1>7, <1>8, <1>9, <1>10, <1>12, <1>13

-----------------------------------------------------------------------------
LEMMA OpenKeeps ==
  ASSUME KeyInv, NEW c \in Conn, Open(c) PROVE KeyInv'
<1>1. PICK p \in Place : heap' = [heap EXCEPT ![c] = [at |-> p, state |-> "bare"]]
  BY DEF Open
<1>2. /\ srv' = [srv EXCEPT ![c] = [srv[c] EXCEPT !.pc = "burst"]]
      /\ cli' = [cli EXCEPT ![c].pc = "open"] /\ used' = used
      /\ cli[c].pc = "off" /\ \A d \in Conn : d < c => srv[d].pc \in Settled
  BY ConnFacts DEF Open, SrvAt, SrvIs, Settled
<1>3. Shape'
  BY <1>1, <1>2 DEF KeyInv, Shape
<1>4. /\ srv'[c].pc = "burst" /\ srv'[c].anchor = srv[c].anchor /\ srv[c].pc = "off"
      /\ srv[c].anchor = NoPlace /\ cli'[c].pc = "open"
      /\ \A d \in Conn : d # c => srv'[d] = srv[d] /\ heap'[d] = heap[d] /\ cli'[d] = cli[d]
  BY <1>1, <1>2 DEF KeyInv, Shape, InOrder
<1>5. \A d \in Conn : srv'[d].pc = "recover" => d # c /\ srv'[d].snap = srv[d].snap
  BY <1>4
<1>6. \A d \in Conn : d # c /\ srv[d].pc # "off" => d < c
  BY <1>4, ConnFacts DEF KeyInv, InOrder, Settled
<1>7. InOrder'
  BY <1>2, <1>4, <1>6 DEF KeyInv, InOrder, Seeking, Settled
<1>8. Noted'
  BY <1>2, <1>4, <1>5 DEF KeyInv, Noted
<1>9. Stays'
  BY <1>4 DEF KeyInv, Stays
<1>10. KeyIsOwn'
  BY <1>4, ConnFacts DEF KeyInv, KeyIsOwn
<1> QED BY <1>3, <1>7, <1>8, <1>9, <1>10 DEF KeyInv

(* The client fills its object in, or closes the connection.               *)
LEMMA ClientKeeps ==
  ASSUME KeyInv, NEW c \in Conn, Fills(c) \/ Closes(c) PROVE KeyInv'
<1>1. /\ srv' = srv /\ used' = used
      /\ \A d \in Conn : d # c => heap'[d] = heap[d] /\ cli'[d] = cli[d]
      /\ cli[c].pc = "open" /\ cli'[c].pc \in {"open", "closed"}
  BY DEF KeyInv, Shape, Fills, Closes, Upright
<1>2. (heap[c].state # "none" /\ heap'[c].at = heap[c].at) \/ heap'[c].state = "none"
        \/ heap'[c] = heap[c]
  BY DEF KeyInv, Shape, Fills, Closes, NoObject
<1>3. Shape'
  BY DEF KeyInv, Shape, Fills, Closes, NoObject
<1>4. srv[c].pc # "off"
  BY <1>1 DEF KeyInv, InOrder
<1>5. InOrder'
  BY <1>1, <1>4 DEF KeyInv, InOrder
<1>6. Noted' /\ KeyIsOwn'
  BY <1>1 DEF KeyInv, Noted, KeyIsOwn
<1>7. Stays'
  BY <1>1, <1>2 DEF KeyInv, Stays
<1> QED BY <1>3, <1>5, <1>6, <1>7 DEF KeyInv

LEMMA BurstKeeps ==
  ASSUME KeyInv, NEW c \in Conn, Burst(c) PROVE KeyInv'
<1>1. srv[c].pc = "burst" /\ UNCHANGED <<used, heap, cli>>
  BY DEF Burst
<1>2. CASE SrvAt(c, "end") \/ SrvAt(c, "deaf")
  <2>1. PICK now \in {[srv[c] EXCEPT !.pc = "end"], [srv[c] EXCEPT !.pc = "deaf"]} :
          SrvIs(c, now)
    BY <1>2 DEF SrvAt
  <2>2. /\ DOMAIN now = DOMAIN srv[c] /\ now.pc \in Settled
        /\ now.anchor = srv[c].anchor /\ now.boot = srv[c].boot /\ now.snap = srv[c].snap
    BY <2>1 DEF KeyInv, Shape, Settled
  <2> QED BY <1>1, <2>1, <2>2, OwnQuiet, QuietKeeps DEF KeyInv
<1>3. CASE SrvIs(c, [srv[c] EXCEPT !.pc = "recover", !.snap = used])
  <2> DEFINE now == [srv[c] EXCEPT !.pc = "recover", !.snap = used]
  <2>1. /\ DOMAIN now = DOMAIN srv[c] /\ now.pc = "recover" /\ now.snap = used
        /\ now.anchor = srv[c].anchor /\ now.boot = srv[c].boot
    BY DEF KeyInv, Shape
  <2>2. SrvIs(c, now)
    BY <1>3
  <2> HIDE DEF now
  <2>3. Shape' /\ srv'[c] = now /\ \A d \in Conn : d # c => srv'[d] = srv[d]
    BY <1>1, <2>1, <2>2, OwnEntry DEF KeyInv
  <2>4. \A d \in Conn : d < c => srv[d].pc \in Settled
    BY <1>1 DEF KeyInv, InOrder
  <2>5. InOrder'
    BY <1>1, <2>1, <2>3, <2>4 DEF KeyInv, InOrder, Seeking, Settled
  <2>6. Noted'
    <3>1. \A d \in Conn : d < c /\ srv[d].anchor # NoPlace => srv[d].anchor \in used
      BY <2>4 DEF KeyInv, Noted, Settled
    <3>2. \A d \in Conn : srv'[d].anchor = srv[d].anchor
      BY <2>1, <2>3
    <3> QED BY <1>1, <2>1, <2>3, <3>1, <3>2 DEF KeyInv, Noted
  <2>7. Stays'
    BY <1>1, <2>1, <2>3 DEF KeyInv, Stays
  <2>8. KeyIsOwn'
    BY <2>1, <2>3, ConnFacts DEF KeyInv, KeyIsOwn
  <2> QED BY <2>3, <2>5, <2>6, <2>7, <2>8 DEF KeyInv
<1> QED BY <1>2, <1>3 DEF Burst, Unanswered

(* The object a handler finds is its own, if all earlier ones found theirs.*)
LEMMA RecoverKeeps ==
  ASSUME KeyInv, NEW c \in Conn, Recover(c) PROVE KeyInv'
<1> DEFINE fresh == {d \in Candidates : heap[d].at \notin srv[c].snap}
<1>1. srv[c].pc = "recover" /\ UNCHANGED <<used, heap, cli>>
  BY DEF Recover
<1>2. \/ \E d \in fresh : SrvIs(c, [srv[c] EXCEPT !.pc = "mark", !.anchor = heap[d].at,
                                                   !.key = d, !.boot = d])
      \/ SrvIs(c, [srv[c] EXCEPT !.tries = @ + 1])
      \/ SrvIs(c, [srv[c] EXCEPT !.pc = "deaf"])
  BY DEF Recover, FindsNone, SrvAt
<1>3. CASE SrvIs(c, [srv[c] EXCEPT !.tries = @ + 1]) \/ SrvIs(c, [srv[c] EXCEPT !.pc = "deaf"])
  <2>1. PICK now \in {[srv[c] EXCEPT !.tries = @ + 1], [srv[c] EXCEPT !.pc = "deaf"]} :
          SrvIs(c, now)
    BY <1>3
  <2>2. /\ DOMAIN now = DOMAIN srv[c]
        /\ now.pc = srv[c].pc \/ now.pc \in Settled
        /\ now.anchor = srv[c].anchor /\ now.boot = srv[c].boot /\ now.snap = srv[c].snap
    BY <2>1 DEF KeyInv, Shape, Settled
  <2> QED BY <1>1, <2>1, <2>2, OwnQuiet, QuietKeeps DEF KeyInv
<1>4. CASE \E d \in fresh : SrvIs(c, [srv[c] EXCEPT !.pc = "mark", !.anchor = heap[d].at,
                                                    !.key = d, !.boot = d])
  <2>1. PICK d \in fresh : SrvIs(c, [srv[c] EXCEPT !.pc = "mark", !.anchor = heap[d].at,
                                                   !.key = d, !.boot = d])
    BY <1>4
  <2> DEFINE now == [srv[c] EXCEPT !.pc = "mark", !.anchor = heap[d].at,
                                   !.key = d, !.boot = d]
  <2>2. /\ DOMAIN now = DOMAIN srv[c] /\ now.pc = "mark"
        /\ now.anchor = heap[d].at /\ now.boot = d
    BY DEF KeyInv, Shape
  <2>3. SrvIs(c, now)
    BY <2>1
  <2> HIDE DEF now
  <2>4. Shape' /\ srv'[c] = now /\ \A e \in Conn : e # c => srv'[e] = srv[e]
    BY <1>1, <2>2, <2>3, OwnEntry DEF KeyInv
  <2>5. d \in Conn /\ heap[d].state # "none" /\ heap[d].at \notin srv[c].snap
    BY DEF Candidates
  <2>6. \A e \in Conn : e < c => srv[e].pc \in Settled
    BY <1>1 DEF KeyInv, InOrder
  <2>7. \A e \in Conn : c < e => srv[e].pc = "off"
    BY <1>1 DEF KeyInv, InOrder, Settled
  <2>8. ~(c < d)
    BY <2>5, <2>7 DEF KeyInv, InOrder, NoObject
  <2>9. ASSUME \A e \in Conn : e < c => srv[e].anchor # NoPlace
        PROVE  d = c
    <3>1. ASSUME d < c PROVE FALSE
      <4>1. srv[d].anchor # NoPlace /\ srv[d].anchor \in srv[c].snap
        BY <1>1, <2>5, <2>9, <3>1 DEF KeyInv, Noted
      <4>2. \A e \in Conn : e < d => srv[e].anchor # NoPlace
        BY <2>5, <2>9, <3>1, ConnFacts
      <4>3. srv[d].boot = d
        BY <2>5, <4>1, <4>2, KeyIsOwnByOrder DEF KeyInv
      <4>4. heap[d].at = srv[d].anchor
        BY <2>5, <4>1, <4>3 DEF KeyInv, Stays
      <4> QED BY <2>5, <4>1, <4>4
    <3> QED BY <2>5, <2>8, <3>1, ConnFacts
  <2>10. InOrder'
    BY <1>1, <2>2, <2>4, <2>6, <2>7 DEF KeyInv, InOrder, Seeking, Settled
  <2>11. Noted'
    <3>1. \A e \in Conn : srv'[e].pc = "recover" => e # c /\ ~(c < e)
      BY <2>2, <2>4, <2>7
    <3> QED BY <1>1, <2>2, <2>4, <3>1, ConnFacts DEF KeyInv, Noted
  <2>12. Stays'
    BY <1>1, <2>2, <2>4, <2>5 DEF KeyInv, Stays
  <2>13. KeyIsOwn'
    <3>1. \A e \in Conn : e < c => srv'[e] = srv[e]
      BY <2>4, ConnFacts
    <3>2. ASSUME NEW e \in Conn, srv'[e].anchor # NoPlace,
                 \A x \in Conn : x < e => srv'[x].anchor # NoPlace
          PROVE  srv'[e].boot = e
      <4>1. CASE e = c
        BY <2>2, <2>4, <2>9, <3>1, <3>2, <4>1
      <4>2. CASE e # c
        <5>1. srv'[e] = srv[e] /\ ~(c < e)
          BY <2>4, <2>7, <3>2, <4>2 DEF KeyInv, InOrder
        <5>2. \A x \in Conn : x < e => srv[x].anchor # NoPlace
          BY <3>1, <3>2, <4>2, <5>1, ConnFacts
        <5> QED BY <3>2, <5>1, <5>2, KeyIsOwnByOrder DEF KeyInv
      <4> QED BY <4>1, <4>2
    <3> QED BY <3>2, ConnFacts DEF KeyIsOwn
  <2> QED BY <2>4, <2>10, <2>11, <2>12, <2>13 DEF KeyInv
<1> QED BY <1>2, <1>3, <1>4

LEMMA MarkKeeps ==
  ASSUME KeyInv, NEW c \in Conn, Mark(c) PROVE KeyInv'
<1> DEFINE now == [srv[c] EXCEPT !.pc = "syn"]
<1>1. /\ srv[c].pc = "mark" /\ used' = used \cup {srv[c].anchor}
      /\ SrvIs(c, now) /\ UNCHANGED <<heap, cli>>
  BY DEF Mark, SrvAt
<1>2. /\ DOMAIN now = DOMAIN srv[c] /\ now.pc = "syn" /\ now.snap = srv[c].snap
      /\ now.anchor = srv[c].anchor /\ now.boot = srv[c].boot
  BY DEF KeyInv, Shape
<1> HIDE DEF now
<1>3. Shape' /\ srv'[c] = now /\ \A d \in Conn : d # c => srv'[d] = srv[d]
  BY <1>1, <1>2, OwnEntry DEF KeyInv
<1>4. \A d \in Conn : srv'[d].anchor = srv[d].anchor /\ srv'[d].boot = srv[d].boot
  BY <1>2, <1>3
<1>5. InOrder'
  BY <1>1, <1>2, <1>3 DEF KeyInv, InOrder, Seeking, Settled
<1>6. Noted'
  BY <1>1, <1>2, <1>3, <1>4 DEF KeyInv, Noted
<1>7. Stays'
  BY <1>1, <1>4 DEF KeyInv, Stays
<1>8. KeyIsOwn'
  BY <1>4, ConnFacts DEF KeyInv, KeyIsOwn
<1> QED BY <1>3, <1>5, <1>6, <1>7, <1>8 DEF KeyInv

LEMMA NextKeepsKey == KeyInv /\ [Next]_vars => KeyInv'
<1> SUFFICES ASSUME KeyInv, [Next]_vars PROVE KeyInv'
  OBVIOUS
<1>1. ASSUME NEW c \in Conn, Handler(c) \/ Client(c) PROVE KeyInv'
  BY <1>1, TrafficQuiet, QuietKeeps, OpenKeeps, ClientKeeps, BurstKeeps, RecoverKeeps,
     MarkKeeps DEF Handler, Client
<1>2. CASE Peer
  <2>1. UNCHANGED <<srv, used, heap, cli>>
    BY <1>2 DEF Peer, Notify, PeerStarts, PeerFinishes, PeerFails
  <2>2. Shape' /\ Quiet
    BY <2>1 DEF KeyInv, Shape, Quiet
  <2> QED BY <2>2, QuietKeeps
<1>3. CASE UNCHANGED vars
  <2>1. Shape' /\ Quiet
    BY <1>3 DEF vars, KeyInv, Shape, Quiet
  <2> QED BY <2>1, QuietKeeps
<1> QED BY <1>1, <1>2, <1>3 DEF Next

(* Every handler finds its own connection's key, provided every earlier    *)
(* one of the client found its own: for any number of connections and      *)
(* places, however objects stay behind and places are taken again.         *)
THEOREM KeyAlwaysOwn == Spec => []KeyIsOwn
<1>1. KeyInv => KeyIsOwn
  BY DEF KeyInv
<1> QED BY <1>1, InitKey, NextKeepsKey, PTL DEF Spec

-----------------------------------------------------------------------------
(* What a half of a frame may be.                                          *)
Reply == {"pings", "zones", "a001", "a004", "pinfo", "hints"}
Name == Request \cup Reply \cup {"syn", "chg", "synack", "note"}
Key == {GameKey} \cup Conn
Half == [m : Name, key : Key, part : 1 .. 3]
HalfOf(m, key, part) == [m |-> m, key |-> key, part |-> part]

(* A stream of frames that is whole as far as it goes, one that ends       *)
(* between two frames, and one that ends within one.                       *)
Whole(s) ==
  \A i \in 1 .. Len(s) : s[i].part = 1 =>
    (i < Len(s) => /\ s[i + 1].part \in {2, 3}
                   /\ s[i + 1].m = s[i].m /\ s[i + 1].key = s[i].key)
Between(s) == s = <<>> \/ s[Len(s)].part # 1
Within(s, m, key) == s # <<>> /\ s[Len(s)] = HalfOf(m, key, 1)

(* A stream and one more half.                                             *)
LEMMA OneMore ==
  ASSUME NEW s \in Seq(Half), NEW h \in Half
  PROVE  /\ s \o <<h>> \in Seq(Half) /\ Len(s \o <<h>>) = Len(s) + 1
         /\ (s \o <<h>>)[Len(s) + 1] = h
         /\ \A i \in 1 .. Len(s) : (s \o <<h>>)[i] = s[i]
OBVIOUS

(* The first half of a frame comes where no frame is under way.            *)
LEMMA FirstHalf ==
  ASSUME NEW s \in Seq(Half), NEW m \in Name, NEW key \in Key, Whole(s), Between(s)
  PROVE  LET t == s \o <<HalfOf(m, key, 1)>> IN
         t \in Seq(Half) /\ Whole(t) /\ Within(t, m, key)
<1> DEFINE h == HalfOf(m, key, 1)
           t == s \o <<h>>
<1>1. h \in Half
  BY DEF HalfOf, Half
<1> HIDE DEF h
<1>2. /\ t \in Seq(Half) /\ Len(t) = Len(s) + 1 /\ t[Len(s) + 1] = h
      /\ \A i \in 1 .. Len(s) : t[i] = s[i]
  BY <1>1, OneMore
<1>3. Len(s) \in Nat
  OBVIOUS
<1> HIDE DEF t
<1>4. Whole(t)
  BY <1>2, <1>3 DEF Whole, Between
<1>5. Within(t, m, key)
  BY <1>2, <1>3 DEF Within, h
<1> QED
  BY <1>2, <1>4, <1>5 DEF t, h

(* The rest of a frame, or its cut, comes where its first half is the      *)
(* last.                                                                   *)
LEMMA LastHalf ==
  ASSUME NEW s \in Seq(Half), NEW m \in Name, NEW key \in Key, NEW part \in {2, 3},
         Whole(s), Within(s, m, key)
  PROVE  LET t == s \o <<HalfOf(m, key, part)>> IN
         t \in Seq(Half) /\ Whole(t) /\ Between(t)
<1> DEFINE h == HalfOf(m, key, part)
           t == s \o <<h>>
<1>1. h \in Half /\ h.m = m /\ h.key = key /\ h.part = part
  BY DEF HalfOf, Half
<1>0. s[Len(s)].m = m /\ s[Len(s)].key = key /\ s # <<>>
  BY DEF Within, HalfOf
<1> HIDE DEF h
<1>2. /\ t \in Seq(Half) /\ Len(t) = Len(s) + 1 /\ t[Len(s) + 1] = h
      /\ \A i \in 1 .. Len(s) : t[i] = s[i]
  BY <1>1, OneMore
<1>3. Len(s) \in Nat
  OBVIOUS
<1> HIDE DEF t
<1>4. Whole(t)
  BY <1>0, <1>1, <1>2, <1>3 DEF Whole
<1>5. Between(t)
  BY <1>1, <1>2, <1>3 DEF Between
<1> QED
  BY <1>2, <1>4, <1>5 DEF t, h

(* A stream without its first two halves.                                  *)
LEMMA WithoutTwo ==
  ASSUME NEW s \in Seq(Half), Len(s) >= 2
  PROVE  LET t == SubSeq(s, 3, Len(s)) IN
         t \in Seq(Half) /\ Len(t) = Len(s) - 2 /\ \A i \in 1 .. Len(s) - 2 : t[i] = s[i + 2]
<1>1. 3 \in Int /\ Len(s) \in Int /\ \A i \in 3 .. Len(s) : s[i] \in Half
  OBVIOUS
<1>2. LET t == SubSeq(s, 3, Len(s)) IN
      /\ t \in Seq(Half) /\ Len(t) = IF 3 <= Len(s) THEN Len(s) - 3 + 1 ELSE 0
      /\ \A i \in 1 .. Len(s) - 3 + 1 : t[i] = s[3 + i - 1]
  BY <1>1, SubSeqProperties
<1> QED
  BY <1>1, <1>2

(* A whole frame is read from the front; the end of the stream stays as it *)
(* is.                                                                     *)
LEMMA FirstRead ==
  ASSUME NEW s \in Seq(Half), Len(s) >= 2, WholeAt(s, 1), Whole(s)
  PROVE  LET t == SubSeq(s, 3, Len(s)) IN
         /\ t \in Seq(Half) /\ Whole(t)
         /\ Between(s) => Between(t)
         /\ \A m, key : Within(s, m, key) => Within(t, m, key)
<1> DEFINE t == SubSeq(s, 3, Len(s))
<1>1. t \in Seq(Half) /\ Len(t) = Len(s) - 2 /\ \A i \in 1 .. Len(s) - 2 : t[i] = s[i + 2]
  BY WithoutTwo
<1>2. Len(s) \in Nat /\ s[2].part = 2
  <2>1. s[1] \in Half /\ s[2] = [s[1] EXCEPT !.part = 2]
    BY DEF WholeAt
  <2> QED
    BY <2>1 DEF Half
<1> HIDE DEF t
<1>3. Whole(t)
  <2> SUFFICES ASSUME NEW i \in 1 .. Len(t), t[i].part = 1, i < Len(t)
               PROVE  /\ t[i + 1].part \in {2, 3}
                      /\ t[i + 1].m = t[i].m /\ t[i + 1].key = t[i].key
    BY DEF Whole
  <2>1. i + 2 \in 1 .. Len(s) /\ i + 2 < Len(s) /\ t[i] = s[i + 2]
    BY <1>1, <1>2
  <2>2. t[i + 1] = s[(i + 2) + 1]
    BY <1>1, <1>2
  <2> QED
    BY <2>1, <2>2 DEF Whole
<1>4. ASSUME Between(s) PROVE Between(t)
  BY <1>1, <1>2, <1>4 DEF Between
<1>5. ASSUME NEW m, NEW key, Within(s, m, key) PROVE Within(t, m, key)
  <2>1. Len(s) # 2
    BY <1>2, <1>5 DEF Within, HalfOf
  <2> QED
    BY <1>1, <1>2, <1>5, <2>1 DEF Within
<1> QED
  BY <1>1, <1>3, <1>4, <1>5 DEF t

-----------------------------------------------------------------------------
Begun == {"stream", "end"}
Known(c) == session.conn = c \/ peer.conn = c
InGame(h) == h.key = GameKey /\ h.m \notin {"syn", "chg"}
AllGame(s) == \A i \in 1 .. Len(s) : InGame(s[i])
Leads(s, m) ==
  /\ Len(s) >= 2 /\ s[1].m = m /\ s[1].part = 1 /\ s[2].m = m /\ s[2].part = 2
  /\ \A i \in 3 .. Len(s) : InGame(s[i])

LinkType(c) ==
  /\ srv[c].out \in Seq(Reply) /\ srv[c].tail \in Seq(Half)
  /\ srv[c].queue \in Seq(Request) /\ srv[c].done \in Seq(Request)
  /\ srv[c].key \in Key /\ srv[c].half \in BOOLEAN
  /\ up[c] \in Seq(Half) /\ down[c] \in Seq(Half)
  /\ cli[c].sent \in Nat

(* Who holds the lock of a connection is within a frame of his.            *)
Framed(c) ==
  /\ Whole(down[c]) /\ (~Upright(c) => down[c] = <<>>)
  /\ lock[c] \in {"free", "own", "peer"}
  /\ lock[c] = "own" <=> srv[c].half = TRUE
  /\ lock[c] = "own" => srv[c].out # <<>>
  /\ srv[c].out # <<>> => srv[c].pc = "stream"
  /\ lock[c] = "peer" <=> peer.pc = "half" /\ peer.conn = c
  /\ lock[c] = "free" => Between(down[c])
  /\ Upright(c) /\ lock[c] = "own" => Within(down[c], Head(srv[c].out), srv[c].key)
  /\ Upright(c) /\ lock[c] = "peer" => Within(down[c], "note", GameKey)

(* What is between the client's pen and the handler's hand is the next it  *)
(* has to ask.                                                             *)
Ahead(done, queue, s, sent, plan) ==
  /\ Len(done) + Len(queue) <= sent /\ sent <= Len(plan)
  /\ Len(s) = 2 * (sent - (Len(done) + Len(queue)))
  /\ \A i \in 1 .. sent - (Len(done) + Len(queue)) :
       LET m == plan[Len(done) + Len(queue) + i] IN
       s[2 * i - 1] = HalfOf(m, GameKey, 1) /\ s[2 * i] = HalfOf(m, GameKey, 2)
  /\ \A i \in 1 .. Len(queue) : queue[i] = plan[Len(done) + i]

Handled(c) ==
  /\ Len(srv[c].done) <= Len(Plan(c))
  /\ \A i \in 1 .. Len(srv[c].done) : srv[c].done[i] = Plan(c)[i]

(* Before CHGSKEY there is the challenge, or its echo, or neither; after   *)
(* it everything is under the game key.                                    *)
Answered(c) ==
  \/ AllGame(down[c])
  \/ Leads(down[c], "chg") /\ cli[c].key # GameKey
  \/ /\ Leads(down[c], "syn") /\ Len(down[c]) = 2 /\ cli[c].key # GameKey
     /\ srv[c].pc = "end" /\ ~Known(c)

Staged(c) ==
  /\ srv[c].pc \notin Begun =>
       /\ cli[c].got \subseteq {"syn"} /\ cli[c].sent = 0 /\ cli[c].key # GameKey
       /\ srv[c].done = <<>> /\ ~Known(c)
  /\ srv[c].pc \notin Begun \cup {"synack"} => up[c] = <<>> /\ down[c] = <<>>
  /\ srv[c].pc = "synack" =>
       /\ down[c] = <<>> \/ (up[c] = <<>> /\ Leads(down[c], "syn") /\ Len(down[c]) = 2)
       /\ Len(up[c]) <= 2
  /\ srv[c].pc \in Begun => Answered(c)
  /\ srv[c].pc = "stream" =>
       /\ srv[c].key = GameKey
       /\ Ahead(srv[c].done, srv[c].queue, srv[c].tail \o up[c], cli[c].sent, Plan(c))
  /\ Handled(c)

PeerInv ==
  /\ session \in [conn : {0} \cup Conn, key : {GameKey}]
  /\ peer \in [n : Nat, pc : {"idle", "wait", "half"}, conn : {0} \cup Conn, key : {GameKey}]
  /\ peer.pc # "idle" => peer.conn \in Conn

ConnInv(c) == LinkType(c) /\ Framed(c) /\ Staged(c)
Domains == DOMAIN up = Conn /\ DOMAIN down = Conn /\ DOMAIN lock = Conn
LinkInv == KeyInv /\ Domains /\ PeerInv /\ \A c \in Conn : ConnInv(c)

(* What a connection asks is a sequence; no connection is the game key or  *)
(* none.                                                                   *)
LEMMA PlanFacts ==
  ASSUME NEW c \in Conn
  PROVE  Plan(c) \in Seq(Request) /\ c # GameKey /\ c # 0
BY LinkAssumption DEF Plan, Conn, GameKey

(* The invariant holds at the start.                                       *)
LEMMA LinkStarts == Init => LinkInv
<1> SUFFICES ASSUME Init PROVE LinkInv
  OBVIOUS
<1>1. KeyInv
  BY InitKey
<1>2. Domains /\ PeerInv
  BY DEF Init, Domains, PeerInv, NoConn, NoPeer
<1>3. ASSUME NEW c \in Conn PROVE ConnInv(c)
  <2>1. srv[c] = Idle /\ up[c] = <<>> /\ down[c] = <<>> /\ lock[c] = "free"
        /\ cli[c] = [pc |-> "off", key |-> c, sent |-> 0, got |-> {}]
    BY DEF Init
  <2>2. session.conn = 0 /\ peer.conn = 0 /\ peer.pc = "idle"
    BY DEF Init, NoConn, NoPeer
  <2>3. /\ srv[c].out = <<>> /\ srv[c].tail = <<>> /\ srv[c].queue = <<>>
        /\ srv[c].done = <<>> /\ srv[c].key = GameKey /\ srv[c].pc = "off"
        /\ srv[c].half = FALSE
    BY <2>1 DEF Idle
  <2>4. LinkType(c)
    <3>1. srv[c].half \in BOOLEAN
      BY <2>3, Zenon
    <3> QED
      BY <2>1, <2>3, <3>1 DEF LinkType, Key
  <2>5. Framed(c)
    BY <2>1, <2>2, <2>3 DEF Framed, Whole, Between
  <2>6. Staged(c)
    BY <2>1, <2>2, <2>3, PlanFacts DEF Staged, Begun, Known, Handled
  <2> QED
    BY <2>4, <2>5, <2>6 DEF ConnInv
<1> QED
  BY <1>1, <1>2, <1>3 DEF LinkInv

(* A step of one connection, which may make it the player's session.       *)
Local(c) ==
  /\ DOMAIN up' = Conn /\ DOMAIN down' = Conn /\ DOMAIN lock' = Conn
  /\ \A d \in Conn \ {c} :
       /\ srv'[d] = srv[d] /\ cli'[d] = cli[d] /\ lock'[d] = lock[d]
       /\ up'[d] = up[d] /\ down'[d] = down[d]

(* A connection that nothing happens to keeps its part of the invariant.   *)
LEMMA OthersKeep ==
  ASSUME LinkInv, NEW d \in Conn,
         srv'[d] = srv[d], cli'[d] = cli[d], lock'[d] = lock[d],
         up'[d] = up[d], down'[d] = down[d],
         Known(d)' => Known(d),
         peer'.pc = "half" /\ peer'.conn = d <=> peer.pc = "half" /\ peer.conn = d
  PROVE  ConnInv(d)'
<1>1. LinkType(d)'
  BY DEF LinkInv, ConnInv, LinkType
<1>2. Framed(d)'
  BY DEF LinkInv, ConnInv, Framed, Upright
<1>3. Staged(d)'
  BY DEF LinkInv, ConnInv, Staged, Handled, Answered
<1> QED
  BY <1>1, <1>2, <1>3 DEF ConnInv

(* A step of one connection that keeps its part keeps the whole.           *)
LEMMA LocalKeeps ==
  ASSUME LinkInv, NEW c \in Conn, KeyInv', Local(c), ConnInv(c)', peer' = peer,
         session' = session \/ session' = [conn |-> c, key |-> GameKey]
  PROVE  LinkInv'
<1>1. PeerInv'
  BY DEF LinkInv, PeerInv
<1>2. ASSUME NEW d \in Conn, d # c PROVE ConnInv(d)'
  BY <1>2, OthersKeep DEF Local, Known, LinkInv, PeerInv
<1> QED
  BY <1>1, <1>2 DEF LinkInv, Domains, Local

-----------------------------------------------------------------------------
(* What the helpers for a step of one connection do.                       *)
LEMMA SrvStep ==
  ASSUME LinkInv, NEW c \in Conn, NEW now, SrvIs(c, now)
  PROVE  srv'[c] = now /\ \A d \in Conn \ {c} : srv'[d] = srv[d]
BY DEF LinkInv, KeyInv, Shape, SrvIs

(* The same for what is written.                                           *)
LEMMA PutsStep ==
  ASSUME LinkInv, NEW c \in Conn, NEW hs, Puts(c, hs)
  PROVE  /\ DOMAIN down' = Conn /\ down'[c] = down[c] \o hs
         /\ \A d \in Conn \ {c} : down'[d] = down[d]
BY DEF LinkInv, Domains, Puts

(* What a lemma about one connection starts from.                          *)
LEMMA Fields ==
  ASSUME LinkInv, NEW c \in Conn
  PROVE  /\ DOMAIN srv[c] = {"pc", "tries", "snap", "anchor", "key", "boot", "tail",
                             "queue", "out", "half", "pending", "done"}
         /\ DOMAIN cli[c] = {"pc", "key", "sent", "got"}
         /\ ConnInv(c)
BY DEF LinkInv, KeyInv, Shape

(* A half of a frame of the game at the end of a stream of them.           *)
LEMMA GameGoesOn ==
  ASSUME NEW s \in Seq(Half), NEW h \in Half, InGame(h)
  PROVE  /\ AllGame(s) => AllGame(s \o <<h>>)
         /\ \A m : Leads(s, m) => Leads(s \o <<h>>, m)
<1> DEFINE t == s \o <<h>>
<1>1. /\ t \in Seq(Half) /\ Len(t) = Len(s) + 1 /\ t[Len(s) + 1] = h
      /\ \A i \in 1 .. Len(s) : t[i] = s[i]
  BY OneMore
<1>2. Len(s) \in Nat
  OBVIOUS
<1> HIDE DEF t
<1>3. ASSUME AllGame(s) PROVE AllGame(t)
  BY <1>1, <1>2, <1>3 DEF AllGame
<1>4. ASSUME NEW m, Leads(s, m) PROVE Leads(t, m)
  BY <1>1, <1>2, <1>4 DEF Leads
<1> QED
  BY <1>3, <1>4 DEF t

(* Steps before the challenge.                                             *)
LEMMA EarlyKeeps ==
  ASSUME LinkInv, NEW c \in Conn,
         srv[c].pc \notin Begun \cup {"synack"},
         srv'[c].pc \notin Begun \cup {"synack"} \/ srv'[c].pc = "end",
         srv'[c].out = srv[c].out, srv'[c].half = srv[c].half,
         srv'[c].tail = srv[c].tail, srv'[c].queue = srv[c].queue,
         srv'[c].done = srv[c].done, srv'[c].key \in Key,
         cli'[c].key = cli[c].key, cli'[c].sent = cli[c].sent, cli'[c].got = cli[c].got,
         up'[c] = up[c], down'[c] = down[c], lock'[c] = lock[c],
         session' = session, peer' = peer
  PROVE  ConnInv(c)'
<1>1. ConnInv(c)
  BY DEF LinkInv
<1>2. /\ down[c] = <<>> /\ up[c] = <<>> /\ ~Known(c) /\ srv[c].done = <<>>
      /\ srv[c].out = <<>> /\ lock[c] = "free" /\ srv[c].half # TRUE
      /\ cli[c].got \subseteq {"syn"} /\ cli[c].sent = 0 /\ cli[c].key # GameKey
  BY <1>1 DEF ConnInv, Staged, Framed, Begun, Known
<1>3. LinkType(c)'
  BY <1>1 DEF ConnInv, LinkType
<1>4. Framed(c)'
  <2>1. srv'[c].half = srv[c].half /\ lock'[c] = "free" /\ srv'[c].out = <<>>
        /\ down'[c] = <<>> /\ (peer'.conn = c => FALSE)
    BY <1>2 DEF Known
  <2>2. Whole(<<>>) /\ Between(<<>>)
    BY DEF Whole, Between
  <2> QED
    BY <1>2, <2>1, <2>2 DEF Framed
<1>5. Answered(c)'
  BY <1>2 DEF Answered, AllGame
<1>6. Handled(c)'
  BY <1>1 DEF ConnInv, Staged, Handled
<1>7. Staged(c)'
  BY <1>2, <1>5, <1>6 DEF Staged, Begun, Known
<1> QED
  BY <1>3, <1>4, <1>7 DEF ConnInv

(* The steps up to the challenge, one of them to the end of the handler.   *)
LEMMA EarlySteps ==
  ASSUME LinkInv, NEW c \in Conn,
         Open(c) \/ Burst(c) \/ Recover(c) \/ Mark(c) \/ (SendSyn(c) /\ SrvAt(c, "end"))
  PROVE  Local(c) /\ ConnInv(c)' /\ session' = session /\ peer' = peer
<1>0. /\ session' = session /\ peer' = peer /\ up' = up /\ lock' = lock
      /\ srv[c].pc \notin Begun \cup {"synack"} /\ c \in Key /\ srv[c].key \in Key
      /\ DOMAIN srv = Conn /\ DOMAIN cli = Conn
  <2>1. cli[c].pc = "off" => srv[c].pc = "off"
    BY DEF LinkInv, KeyInv, InOrder
  <2> QED
    BY <2>1, Fields DEF Open, Burst, Recover, Mark, SendSyn, Begun, Key, ConnInv, LinkType,
       LinkInv, KeyInv, Shape
<1>1. /\ \A d \in Conn \ {c} : cli'[d] = cli[d]
      /\ cli'[c].key = cli[c].key /\ cli'[c].sent = cli[c].sent /\ cli'[c].got = cli[c].got
  BY <1>0, Fields, ZenonT(60) DEF Open, Burst, Recover, Mark, SendSyn
<1>2. ASSUME NEW now, SrvIs(c, now), down' = down,
             now.pc \notin Begun \cup {"synack"} \/ now.pc = "end",
             now.out = srv[c].out, now.half = srv[c].half, now.tail = srv[c].tail,
             now.queue = srv[c].queue, now.done = srv[c].done, now.key \in Key
      PROVE  Local(c) /\ ConnInv(c)'
  <2>1. srv'[c] = now /\ \A d \in Conn \ {c} : srv'[d] = srv[d]
    BY <1>2, SrvStep
  <2>2. ConnInv(c)'
    BY <1>0, <1>1, <1>2, <2>1, EarlyKeeps
  <2>3. Local(c)
    BY <1>0, <1>1, <1>2, <2>1 DEF Local, LinkInv, Domains
  <2> QED
    BY <2>2, <2>3
<1>3. ASSUME NEW step \in {"burst", "deaf", "end", "syn"}, SrvAt(c, step), down' = down
      PROVE  Local(c) /\ ConnInv(c)'
  BY <1>0, <1>2, <1>3, Fields DEF SrvAt, Begun
<1>4. CASE Open(c)
  BY <1>3, <1>4 DEF Open
<1>5. CASE Burst(c)
  <2>1. CASE SrvIs(c, [srv[c] EXCEPT !.pc = "recover", !.snap = used])
    BY <1>0, <1>2, <1>5, <2>1, Fields DEF Burst, Begun
  <2> QED
    BY <1>3, <1>5, <2>1 DEF Burst, Unanswered
<1>6. CASE Recover(c)
  <2>1. CASE SrvIs(c, [srv[c] EXCEPT !.tries = @ + 1])
    BY <1>0, <1>2, <1>6, <2>1, Fields DEF Recover, Begun
  <2>2. ASSUME NEW d \in Conn,
               SrvIs(c, [srv[c] EXCEPT !.pc = "mark", !.anchor = heap[d].at,
                                       !.key = d, !.boot = d])
        PROVE  Local(c) /\ ConnInv(c)'
    BY <1>0, <1>2, <1>6, <2>2, Fields DEF Recover, Begun, Key
  <2> QED
    BY <1>3, <1>6, <2>1, <2>2 DEF Recover, FindsNone, Candidates
<1>7. CASE Mark(c)
  BY <1>3, <1>7 DEF Mark
<1>8. CASE SendSyn(c) /\ SrvAt(c, "end")
  <2>1. down' = down
    <3>1. ASSUME SrvAt(c, "synack") PROVE FALSE
      <4>1. srv'[c].pc = "synack"
        BY <3>1, SrvStep, Fields DEF SrvAt
      <4>2. srv'[c].pc = "end"
        BY <1>8, SrvStep, Fields DEF SrvAt
      <4> QED
        BY <4>1, <4>2
    <3> QED
      BY <1>8, <3>1 DEF SendSyn
  <2> QED
    BY <1>0, <1>3, <1>8, <2>1
<1> QED
  BY <1>0, <1>4, <1>5, <1>6, <1>7, <1>8
(* A frame as two halves.                                                  *)
LEMMA TwoHalves ==
  ASSUME NEW m \in Name, NEW key \in Key
  PROVE  /\ Halves(m, key) = <<HalfOf(m, key, 1), HalfOf(m, key, 2)>>
         /\ HalfOf(m, key, 1) \in Half /\ HalfOf(m, key, 2) \in Half
         /\ Halves(m, key) \in Seq(Half) /\ Len(Halves(m, key)) = 2
         /\ Halves(m, key)[1] = HalfOf(m, key, 1) /\ Halves(m, key)[2] = HalfOf(m, key, 2)
         /\ Whole(Halves(m, key)) /\ Between(Halves(m, key)) /\ Leads(Halves(m, key), m)
<1>1. HalfOf(m, key, 1) \in Half /\ HalfOf(m, key, 2) \in Half
  BY DEF HalfOf, Half
<1>2. /\ HalfOf(m, key, 1).part = 1 /\ HalfOf(m, key, 2).part = 2
      /\ HalfOf(m, key, 1).m = m /\ HalfOf(m, key, 2).m = m
      /\ HalfOf(m, key, 1).key = key /\ HalfOf(m, key, 2).key = key
  BY DEF HalfOf
<1>3. Halves(m, key) = <<HalfOf(m, key, 1), HalfOf(m, key, 2)>>
  BY DEF Halves, HalfOf
<1> DEFINE hs == Halves(m, key)
<1>4. /\ hs \in Seq(Half) /\ Len(hs) = 2
      /\ hs[1] = HalfOf(m, key, 1) /\ hs[2] = HalfOf(m, key, 2) /\ hs # <<>>
  BY <1>1, <1>3
<1> HIDE DEF hs
<1>5. Whole(hs) /\ Between(hs) /\ Leads(hs, m)
  BY <1>2, <1>4 DEF Whole, Between, Leads
<1> QED
  BY <1>1, <1>3, <1>4, <1>5 DEF hs

(* The challenge is sent.                                                  *)
LEMMA SynStep ==
  ASSUME LinkInv, NEW c \in Conn, SendSyn(c), SrvAt(c, "synack"), Upright(c),
         Puts(c, Syn(c))
  PROVE  Local(c) /\ ConnInv(c)' /\ session' = session /\ peer' = peer
<1> DEFINE hs == Halves("syn", srv[c].key)
<1>1. /\ srv[c].pc = "syn" /\ srv[c].key \in Key
      /\ UNCHANGED <<lock, session, peer, up, cli>>
  BY Fields DEF SendSyn, ConnInv, LinkType
<1>2. /\ down[c] = <<>> /\ up[c] = <<>> /\ ~Known(c) /\ srv[c].done = <<>>
      /\ srv[c].out = <<>> /\ lock[c] = "free" /\ srv[c].half # TRUE
      /\ cli[c].got \subseteq {"syn"} /\ cli[c].sent = 0 /\ cli[c].key # GameKey
  BY <1>1, Fields DEF ConnInv, Staged, Framed, Begun, Known
<1>3. /\ hs \in Seq(Half) /\ Len(hs) = 2 /\ Whole(hs) /\ Between(hs) /\ Leads(hs, "syn")
  BY <1>1, TwoHalves DEF Name
<1>4. /\ DOMAIN down' = Conn /\ down'[c] = <<>> \o hs
      /\ \A d \in Conn \ {c} : down'[d] = down[d]
  BY <1>2, PutsStep DEF Syn
<1> HIDE DEF hs
<1>5. down'[c] = hs
  BY <1>3, <1>4
<1>6. /\ srv'[c] = [srv[c] EXCEPT !.pc = "synack"]
      /\ \A d \in Conn \ {c} : srv'[d] = srv[d]
  BY SrvStep DEF SrvAt
<1>7. /\ srv'[c].pc = "synack" /\ srv'[c].out = srv[c].out /\ srv'[c].half = srv[c].half
      /\ srv'[c].tail = srv[c].tail /\ srv'[c].queue = srv[c].queue
      /\ srv'[c].done = srv[c].done /\ srv'[c].key = srv[c].key
  BY <1>6, Fields
<1>8. LinkType(c)'
  BY <1>1, <1>3, <1>5, <1>7, Fields DEF ConnInv, LinkType
<1>9. Framed(c)'
  BY <1>1, <1>2, <1>3, <1>5, <1>7 DEF Framed, Known, Upright
<1>10. Handled(c)'
  BY <1>7, Fields DEF ConnInv, Staged, Handled
<1>11. Staged(c)'
  BY <1>1, <1>2, <1>3, <1>5, <1>7, <1>10 DEF Staged, Begun, Known
<1>12. Local(c)
  BY <1>1, <1>4, <1>6 DEF Local, LinkInv, Domains
<1> QED
  BY <1>1, <1>8, <1>9, <1>11, <1>12 DEF ConnInv

(* The echo of the challenge is heard, or what is not it.                  *)
LEMMA HearStep ==
  ASSUME LinkInv, NEW c \in Conn, HearSynack(c)
  PROVE  Local(c) /\ ConnInv(c)' /\ session' = session /\ peer' = peer
<1>1. /\ srv[c].pc = "synack" /\ srv[c].key \in Key /\ up[c] \in Seq(Half)
      /\ UNCHANGED <<lock, session, peer, cli>>
  BY Fields DEF HearSynack, ConnInv, LinkType
<1>2. PICK n \in 1 .. Len(up[c]) :
        /\ up' = [up EXCEPT ![c] = SubSeq(@, n + 1, Len(@))]
        /\ \/ UNCHANGED <<srv, down>>
           \/ /\ SubSeq(up[c], 1, n) = Halves("synack", srv[c].key)
              /\ Upright(c) /\ Puts(c, Chgskey(c))
              /\ SrvIs(c, [srv[c] EXCEPT !.pc = "stream", !.key = GameKey,
                                         !.tail = <<>>, !.queue = <<>>])
  BY DEF HearSynack
<1>3. /\ down[c] = <<>> /\ Len(up[c]) <= 2 /\ ~Known(c) /\ srv[c].done = <<>>
      /\ srv[c].out = <<>> /\ lock[c] = "free" /\ srv[c].half # TRUE
      /\ cli[c].got \subseteq {"syn"} /\ cli[c].sent = 0 /\ cli[c].key # GameKey
  <2>1. up[c] # <<>>
    BY <1>1
  <2> QED
    BY <1>1, <2>1, Fields DEF ConnInv, Staged, Framed, Begun, Known
<1>4. /\ DOMAIN up' = Conn /\ \A d \in Conn \ {c} : up'[d] = up[d]
      /\ up'[c] = SubSeq(up[c], n + 1, Len(up[c]))
  BY <1>2 DEF LinkInv, Domains
<1>5. up'[c] \in Seq(Half) /\ Len(up'[c]) = Len(up[c]) - n
  BY <1>1, <1>4
<1>6. Handled(c) /\ LinkType(c) /\ Framed(c)
  BY Fields DEF ConnInv, Staged
<1>7. CASE UNCHANGED <<srv, down>>
  <2>1. LinkType(c)' /\ Framed(c)' /\ Handled(c)'
    BY <1>1, <1>5, <1>6, <1>7 DEF LinkType, Framed, Handled, Upright
  <2>2. Staged(c)'
    BY <1>1, <1>3, <1>5, <1>7, <2>1 DEF Staged, Begun, Known
  <2>3. Local(c)
    BY <1>1, <1>4, <1>7 DEF Local, LinkInv, Domains
  <2> QED
    BY <1>1, <2>1, <2>2, <2>3 DEF ConnInv
<1>8. CASE /\ SubSeq(up[c], 1, n) = Halves("synack", srv[c].key)
           /\ Upright(c) /\ Puts(c, Chgskey(c))
           /\ SrvIs(c, [srv[c] EXCEPT !.pc = "stream", !.key = GameKey,
                                      !.tail = <<>>, !.queue = <<>>])
  <2> DEFINE hs == Halves("chg", srv[c].key)
  <2>1. n = 2
    <3>1. Len(SubSeq(up[c], 1, n)) = n
      <4>1. 1 <= n /\ n <= Len(up[c]) /\ Len(up[c]) \in Nat
        BY <1>1
      <4> QED
        BY <1>1, <4>1, SubSeqProperties
    <3>2. Len(Halves("synack", srv[c].key)) = 2
      BY <1>1, TwoHalves DEF Name
    <3> QED
      BY <1>8, <3>1, <3>2
  <2>2. up'[c] = <<>>
    BY <1>3, <1>5, <2>1
  <2>3. /\ hs \in Seq(Half) /\ Len(hs) = 2 /\ Whole(hs) /\ Between(hs) /\ Leads(hs, "chg")
    BY <1>1, TwoHalves DEF Name
  <2>4. /\ DOMAIN down' = Conn /\ down'[c] = <<>> \o hs
        /\ \A d \in Conn \ {c} : down'[d] = down[d]
    BY <1>3, <1>8, PutsStep DEF Chgskey
  <2> HIDE DEF hs
  <2>5. down'[c] = hs
    BY <2>3, <2>4
  <2>6. /\ srv'[c] = [srv[c] EXCEPT !.pc = "stream", !.key = GameKey,
                                    !.tail = <<>>, !.queue = <<>>]
        /\ \A d \in Conn \ {c} : srv'[d] = srv[d]
    BY <1>8, SrvStep
  <2>7. /\ srv'[c].pc = "stream" /\ srv'[c].out = srv[c].out /\ srv'[c].half = srv[c].half
        /\ srv'[c].tail = <<>> /\ srv'[c].queue = <<>>
        /\ srv'[c].done = srv[c].done /\ srv'[c].key = GameKey
    BY <2>6, Fields
  <2>8. LinkType(c)'
    BY <1>1, <1>5, <1>6, <2>3, <2>5, <2>7 DEF LinkType, Key
  <2>9. Framed(c)'
    BY <1>1, <1>3, <1>8, <2>3, <2>5, <2>7 DEF Framed, Known, Upright
  <2>10. Handled(c)'
    BY <1>6, <2>7 DEF Handled
  <2>11. Answered(c)'
    BY <1>1, <1>3, <2>3, <2>5 DEF Answered
  <2>12. Ahead(<<>>, <<>>, <<>> \o <<>>, 0, Plan(c))
    BY PlanFacts DEF Ahead
  <2>13. Staged(c)'
    BY <1>1, <1>3, <2>2, <2>7, <2>10, <2>11, <2>12 DEF Staged, Begun
  <2>14. Local(c)
    BY <1>1, <1>4, <2>4, <2>6 DEF Local, LinkInv, Domains
  <2> QED
    BY <1>1, <2>8, <2>9, <2>13, <2>14 DEF ConnInv
<1> QED
  BY <1>2, <1>7, <1>8
-----------------------------------------------------------------------------
(* What a request is answered with.                                        *)
LEMMA AnswersTyped ==
  ASSUME NEW c \in Conn, NEW m \in Request
  PROVE  Replies(c, m) \in Seq(Reply)
<1>1. \/ Replies(c, m) = <<"pings">> \/ Replies(c, m) = <<"zones">>
      \/ Replies(c, m) = <<"a001">> \/ Replies(c, m) = <<"a004">>
      \/ Replies(c, m) = <<"pinfo", "hints">> \/ Replies(c, m) = <<>>
  BY Zenon DEF Replies
<1>2. /\ "pings" \in Reply /\ "zones" \in Reply /\ "a001" \in Reply
      /\ "a004" \in Reply /\ "pinfo" \in Reply /\ "hints" \in Reply
  BY DEF Reply
<1>3. \A x, y \in Reply : <<x>> \in Seq(Reply) /\ <<x, y>> \in Seq(Reply)
  OBVIOUS
<1>4. <<>> \in Seq(Reply)
  OBVIOUS
<1> QED
  BY <1>1, <1>2, <1>3, <1>4, Zenon

(* A request is answered: what has been done is longer by it.              *)
LEMMA DispatchStep ==
  ASSUME LinkInv, NEW c \in Conn, NEW m \in Request, NEW rest \in Seq(Request),
         NEW tail \in Seq(Half), AtLoop(c), Dispatch(c, m, rest, tail),
         UNCHANGED <<lock, peer, down, cli>>,
         DOMAIN up' = Conn, up'[c] \in Seq(Half),
         \A d \in Conn \ {c} : up'[d] = up[d],
         m = Plan(c)[Len(srv[c].done) + 1],
         Ahead(Append(srv[c].done, m), rest, tail \o up'[c], cli[c].sent, Plan(c))
  PROVE  /\ Local(c) /\ ConnInv(c)' /\ peer' = peer
         /\ session' = session \/ session' = [conn |-> c, key |-> GameKey]
<1>1. srv[c].pc = "stream" /\ srv[c].out = <<>> /\ srv[c].key = GameKey
  BY Fields DEF AtLoop, ConnInv, Staged, Begun
<1>2. /\ srv'[c] = [srv[c] EXCEPT !.queue = rest, !.tail = tail,
                      !.out = Replies(c, m), !.done = Append(@, m)]
      /\ \A d \in Conn \ {c} : srv'[d] = srv[d]
  BY SrvStep DEF Dispatch
<1>3. /\ srv'[c].pc = "stream" /\ srv'[c].queue = rest /\ srv'[c].tail = tail
      /\ srv'[c].out = Replies(c, m) /\ srv'[c].done = Append(srv[c].done, m)
      /\ srv'[c].half = srv[c].half /\ srv'[c].key = srv[c].key
  BY <1>1, <1>2, Fields
<1>4. session' = session \/ session' = [conn |-> c, key |-> GameKey]
  BY <1>1 DEF Dispatch, Registers
<1>5. /\ srv[c].done \in Seq(Request) /\ Append(srv[c].done, m) \in Seq(Request)
      /\ Len(Append(srv[c].done, m)) = Len(srv[c].done) + 1
      /\ Append(srv[c].done, m)[Len(srv[c].done) + 1] = m
      /\ \A i \in 1 .. Len(srv[c].done) : Append(srv[c].done, m)[i] = srv[c].done[i]
  BY Fields DEF ConnInv, LinkType
<1>6. LinkType(c)'
  BY <1>3, <1>5, AnswersTyped, Fields DEF ConnInv, LinkType
<1>7. Framed(c)'
  <2>1. Framed(c) /\ lock[c] # "own"
    BY <1>1, Fields DEF ConnInv, Framed
  <2> QED
    BY <1>3, <2>1 DEF Framed, Upright
<1>8. Handled(c)'
  <2>1. Len(srv[c].done) \in Nat /\ Len(rest) \in Nat /\ Len(Plan(c)) \in Nat
    BY <1>5, PlanFacts
  <2>2. Len(srv[c].done) + 1 <= Len(Plan(c))
    BY <1>5, <2>1, Fields DEF Ahead, ConnInv, LinkType
  <2>3. Handled(c)
    BY Fields DEF ConnInv, Staged
  <2>4. \A i \in 1 .. Len(srv[c].done) + 1 : Append(srv[c].done, m)[i] = Plan(c)[i]
    <3>1. \A k \in Nat : \A i \in 1 .. k + 1 : i \in 1 .. k \/ i = k + 1
      OBVIOUS
    <3>2. \A i \in 1 .. Len(srv[c].done) : srv[c].done[i] = Plan(c)[i]
      BY <2>3 DEF Handled
    <3> QED
      BY <1>5, <2>1, <3>1, <3>2, Zenon
  <2> QED
    BY <1>3, <1>5, <2>2, <2>4 DEF Handled
<1>9. Answered(c)'
  <2>1. AllGame(down[c]) \/ (Leads(down[c], "chg") /\ cli[c].key # GameKey)
    BY <1>1, Fields DEF ConnInv, Staged, Begun, Answered
  <2> QED
    BY <2>1 DEF Answered
<1>10. Staged(c)'
  BY <1>1, <1>3, <1>8, <1>9 DEF Staged, Begun
<1>11. Local(c)
  BY <1>2 DEF Local, LinkInv, Domains
<1> QED
  BY <1>4, <1>6, <1>7, <1>10, <1>11 DEF ConnInv

(* The next frame of a chunk is handled.                                   *)
LEMMA HandleStep ==
  ASSUME LinkInv, NEW c \in Conn, Handle(c)
  PROVE  /\ Local(c) /\ ConnInv(c)' /\ peer' = peer
         /\ session' = session \/ session' = [conn |-> c, key |-> GameKey]
<1> DEFINE done == srv[c].done
           queue == srv[c].queue
           m == Head(queue)
           rest == Tail(queue)
           s == srv[c].tail \o up[c]
<1>1. /\ AtLoop(c) /\ queue # <<>> /\ Dispatch(c, m, rest, srv[c].tail)
      /\ UNCHANGED <<lock, peer, up, down, cli>>
  BY DEF Handle
<1>2. done \in Seq(Request) /\ queue \in Seq(Request) /\ srv[c].tail \in Seq(Half)
      /\ up[c] \in Seq(Half)
  BY Fields DEF ConnInv, LinkType
<1>3. /\ m = queue[1] /\ m \in Request /\ rest \in Seq(Request)
      /\ Len(rest) = Len(queue) - 1 /\ Len(queue) \in Nat \ {0}
      /\ \A i \in 1 .. Len(rest) : rest[i] = queue[i + 1]
  BY <1>1, <1>2
<1>4. Len(Append(done, m)) = Len(done) + 1 /\ Len(done) \in Nat
  BY <1>2, <1>3, AppendProperties
<1>5. Ahead(done, queue, s, cli[c].sent, Plan(c))
  BY <1>1, Fields DEF AtLoop, ConnInv, Staged, Begun
<1> HIDE DEF done, queue, m, rest, s
<1>6. m = Plan(c)[Len(done) + 1]
  BY <1>3, <1>4, <1>5 DEF Ahead
<1>7. Len(Append(done, m)) + Len(rest) = Len(done) + Len(queue)
  BY <1>3, <1>4
<1>8. Ahead(Append(done, m), rest, s, cli[c].sent, Plan(c))
  <2>1. \A i \in 1 .. Len(rest) : rest[i] = Plan(c)[Len(Append(done, m)) + i]
    <3> TAKE i \in 1 .. Len(rest)
    <3>1. rest[i] = queue[i + 1] /\ i + 1 \in 1 .. Len(queue)
      BY <1>3
    <3>2. queue[i + 1] = Plan(c)[Len(done) + (i + 1)]
      BY <1>5, <3>1 DEF Ahead
    <3>3. Len(done) + (i + 1) = Len(Append(done, m)) + i
      BY <1>4
    <3> QED
      BY <3>1, <3>2, <3>3
  <2> QED
    BY <1>5, <1>7, <2>1 DEF Ahead
<1>9. DOMAIN up' = Conn /\ up'[c] \in Seq(Half) /\ \A d \in Conn \ {c} : up'[d] = up[d]
  BY <1>1, <1>2 DEF LinkInv, Domains
<1> QED
  BY <1>1, <1>2, <1>3, <1>6, <1>8, <1>9, DispatchStep DEF done, queue, m, rest, s

(* A chunk of n halves taken from the socket.                              *)
LEMMA Chunk ==
  ASSUME NEW t \in Seq(Half), NEW u \in Seq(Half), NEW n \in 1 .. Len(u)
  PROVE  LET s == t \o u
             b == t \o SubSeq(u, 1, n)
             v == SubSeq(u, n + 1, Len(u))
         IN  /\ s \in Seq(Half) /\ b \in Seq(Half) /\ v \in Seq(Half)
             /\ Len(b) = Len(t) + n /\ Len(v) = Len(u) - n /\ Len(s) = Len(b) + Len(v)
             /\ \A i \in 1 .. Len(b) : b[i] = s[i]
             /\ \A i \in 1 .. Len(v) : v[i] = s[Len(b) + i]
<1> DEFINE w == SubSeq(u, 1, n)
           v == SubSeq(u, n + 1, Len(u))
           s == t \o u
           b == t \o w
<1>1. /\ Len(u) \in Nat /\ Len(t) \in Nat /\ n \in Nat /\ 1 <= n /\ n <= Len(u)
      /\ \A i \in 1 .. Len(u) : u[i] \in Half
  OBVIOUS
<1>2. w \in Seq(Half) /\ Len(w) = n /\ \A i \in 1 .. n : w[i] = u[i]
  <2>1. /\ w \in Seq(Half) /\ Len(w) = IF 1 <= n THEN n - 1 + 1 ELSE 0
        /\ \A i \in 1 .. n - 1 + 1 : w[i] = u[1 + i - 1]
    BY <1>1, SubSeqProperties
  <2> QED
    BY <1>1, <2>1
<1>3. v \in Seq(Half) /\ Len(v) = Len(u) - n /\ \A i \in 1 .. Len(v) : v[i] = u[n + i]
  <2>0. n + 1 \in Int /\ Len(u) \in Int /\ \A i \in n + 1 .. Len(u) : u[i] \in Half
    BY <1>1
  <2>1. /\ v \in Seq(Half)
        /\ Len(v) = IF n + 1 <= Len(u) THEN Len(u) - (n + 1) + 1 ELSE 0
        /\ \A i \in 1 .. Len(u) - (n + 1) + 1 : v[i] = u[(n + 1) + i - 1]
    BY <2>0, SubSeqProperties
  <2> QED
    BY <1>1, <2>1
<1>4. /\ s \in Seq(Half) /\ Len(s) = Len(t) + Len(u)
      /\ \A i \in 1 .. Len(t) + Len(u) : s[i] = IF i <= Len(t) THEN t[i] ELSE u[i - Len(t)]
  BY ConcatProperties
<1>5. /\ b \in Seq(Half) /\ Len(b) = Len(t) + Len(w)
      /\ \A i \in 1 .. Len(t) + Len(w) : b[i] = IF i <= Len(t) THEN t[i] ELSE w[i - Len(t)]
  BY <1>2, ConcatProperties
<1> HIDE DEF w, v, s, b
<1>6. Len(b) = Len(t) + n /\ Len(s) = Len(b) + Len(v)
  BY <1>1, <1>2, <1>3, <1>4, <1>5
<1>7. \A i \in 1 .. Len(b) : b[i] = s[i]
  <2> TAKE i \in 1 .. Len(b)
  <2>1. i \in 1 .. Len(t) + Len(w) /\ i \in 1 .. Len(t) + Len(u)
    BY <1>1, <1>2, <1>6
  <2>2. CASE i <= Len(t)
    BY <1>4, <1>5, <2>1, <2>2
  <2>3. CASE ~(i <= Len(t))
    <3>1. b[i] = w[i - Len(t)] /\ s[i] = u[i - Len(t)]
      BY <1>4, <1>5, <2>1, <2>3
    <3>2. i - Len(t) \in 1 .. n
      BY <1>1, <1>6, <2>3
    <3> QED
      BY <1>2, <3>1, <3>2
  <2> QED
    BY <2>2, <2>3
<1>8. \A i \in 1 .. Len(v) : v[i] = s[Len(b) + i]
  <2> TAKE i \in 1 .. Len(v)
  <2>1. /\ Len(b) + i \in 1 .. Len(t) + Len(u) /\ ~(Len(b) + i <= Len(t))
        /\ Len(b) + i - Len(t) = n + i
    BY <1>1, <1>3, <1>6
  <2>2. v[i] = u[n + i]
    BY <1>3
  <2>3. s[Len(b) + i] = u[Len(b) + i - Len(t)]
    BY <1>4, <2>1
  <2> QED
    BY <2>1, <2>2, <2>3
<1> QED
  BY <1>3, <1>4, <1>5, <1>6, <1>7, <1>8 DEF w, v, s, b

(* What is left of a stream when k halves of a chunk are done with.        *)
LEMMA LeftOver ==
  ASSUME NEW s \in Seq(Half), NEW b \in Seq(Half), NEW v \in Seq(Half),
         Len(s) = Len(b) + Len(v),
         \A i \in 1 .. Len(b) : b[i] = s[i],
         \A i \in 1 .. Len(v) : v[i] = s[Len(b) + i],
         NEW k \in Nat, k <= Len(b)
  PROVE  LET r == SubSeq(b, k + 1, Len(b)) IN
         /\ r \in Seq(Half) /\ Len(r \o v) = Len(s) - k
         /\ \A i \in 1 .. Len(s) - k : (r \o v)[i] = s[k + i]
<1> DEFINE r == SubSeq(b, k + 1, Len(b))
           w == r \o v
<1>1. /\ Len(b) \in Nat /\ Len(v) \in Nat /\ Len(s) \in Nat
      /\ \A i \in 1 .. Len(b) : b[i] \in Half
  OBVIOUS
<1>2. r \in Seq(Half) /\ Len(r) = Len(b) - k /\ \A i \in 1 .. Len(r) : r[i] = b[k + i]
  <2>0. k + 1 \in Int /\ Len(b) \in Int /\ \A i \in k + 1 .. Len(b) : b[i] \in Half
    BY <1>1
  <2>1. /\ r \in Seq(Half)
        /\ Len(r) = IF k + 1 <= Len(b) THEN Len(b) - (k + 1) + 1 ELSE 0
        /\ \A i \in 1 .. Len(b) - (k + 1) + 1 : r[i] = b[(k + 1) + i - 1]
    BY <2>0, SubSeqProperties
  <2> QED
    BY <1>1, <2>1
<1>3. /\ Len(w) = Len(r) + Len(v)
      /\ \A i \in 1 .. Len(r) + Len(v) : w[i] = IF i <= Len(r) THEN r[i] ELSE v[i - Len(r)]
  BY <1>2, ConcatProperties
<1> HIDE DEF r, w
<1>4. Len(w) = Len(s) - k
  BY <1>1, <1>2, <1>3
<1>5. \A i \in 1 .. Len(s) - k : w[i] = s[k + i]
  <2> TAKE i \in 1 .. Len(s) - k
  <2>1. CASE i <= Len(r)
    <3>1. i \in 1 .. Len(r) /\ i \in 1 .. Len(r) + Len(v) /\ k + i \in 1 .. Len(b)
      BY <1>1, <1>2, <2>1
    <3>2. w[i] = r[i] /\ r[i] = b[k + i] /\ b[k + i] = s[k + i]
      BY <1>2, <1>3, <2>1, <3>1
    <3> QED
      BY <3>2
  <2>2. CASE ~(i <= Len(r))
    <3>1. w[i] = v[i - Len(r)] /\ i - Len(r) \in 1 .. Len(v)
      BY <1>1, <1>2, <1>3, <2>2
    <3>2. Len(b) + (i - Len(r)) = k + i
      BY <1>1, <1>2
    <3> QED
      BY <3>1, <3>2
  <2> QED
    BY <2>1, <2>2
<1> QED
  BY <1>2, <1>4, <1>5 DEF r, w
(* A chunk comes: with what was left over it is cut into whole frames, and *)
(* the rest is kept.                                                       *)
LEMMA RecvStep ==
  ASSUME LinkInv, NEW c \in Conn, Recv(c)
  PROVE  /\ Local(c) /\ ConnInv(c)' /\ peer' = peer
         /\ session' = session \/ session' = [conn |-> c, key |-> GameKey]
<1>1. /\ AtLoop(c) /\ srv[c].queue = <<>> /\ UNCHANGED <<lock, peer, down, cli>>
      /\ srv[c].pc = "stream" /\ srv[c].out = <<>>
  BY DEF Recv, AtLoop
<1>2. PICK n \in 1 .. Len(up[c]) :
        LET combined == srv[c].tail \o SubSeq(up[c], 1, n)
            frames == Frames(combined)
        IN  /\ up' = [up EXCEPT ![c] = SubSeq(@, n + 1, Len(@))]
            /\ IF frames = <<>>
               THEN /\ SrvIs(c, [srv[c] EXCEPT !.tail = Rest(combined)])
                    /\ UNCHANGED session
               ELSE Dispatch(c, Head(frames), Queued(frames), Rest(combined))
  BY DEF Recv
<1> DEFINE done == srv[c].done
           sent == cli[c].sent
           s == srv[c].tail \o up[c]
           b == srv[c].tail \o SubSeq(up[c], 1, n)
           v == SubSeq(up[c], n + 1, Len(up[c]))
           k == Len(b) \div 2
           fs == Frames(b)
           r == Rest(b)
<1>3. /\ done \in Seq(Request) /\ srv[c].tail \in Seq(Half) /\ up[c] \in Seq(Half)
      /\ sent \in Nat /\ Len(done) \in Nat
  BY Fields DEF ConnInv, LinkType
<1>4. /\ s \in Seq(Half) /\ b \in Seq(Half) /\ v \in Seq(Half)
      /\ Len(s) = Len(b) + Len(v)
      /\ \A i \in 1 .. Len(b) : b[i] = s[i]
      /\ \A i \in 1 .. Len(v) : v[i] = s[Len(b) + i]
  BY <1>3, Chunk, ZenonT(60)
<1>5. Len(b) \in Nat /\ k \in Nat /\ 2 * k <= Len(b) /\ Len(b) < 2 * k + 2
  <2>1. Len(b) \in Nat
    BY <1>4
  <2> HIDE DEF b
  <2> QED
    BY <2>1
<1>6. r \in Seq(Half) /\ Len(r \o v) = Len(s) - 2 * k
      /\ \A i \in 1 .. Len(s) - 2 * k : (r \o v)[i] = s[2 * k + i]
  <2>2. r = SubSeq(b, 2 * k + 1, Len(b))
    BY DEF Rest
  <2> HIDE DEF s, b, v, r, k
  <2>1. PICK j \in Nat : j = 2 * k
    BY <1>5
  <2>3. j <= Len(b)
    BY <1>5, <2>1
  <2>4. /\ SubSeq(b, j + 1, Len(b)) \in Seq(Half)
        /\ Len(SubSeq(b, j + 1, Len(b)) \o v) = Len(s) - j
        /\ \A i \in 1 .. Len(s) - j : (SubSeq(b, j + 1, Len(b)) \o v)[i] = s[j + i]
    BY <1>4, <2>3, LeftOver, ZenonT(60)
  <2> QED
    BY <2>1, <2>2, <2>4
<1>7. /\ DOMAIN up' = Conn /\ up'[c] = v /\ \A d \in Conn \ {c} : up'[d] = up[d]
  BY <1>2 DEF LinkInv, Domains
<1>8. Ahead(done, <<>>, s, sent, Plan(c))
  BY <1>1, Fields DEF ConnInv, Staged, Begun
<1>9. /\ Len(done) <= sent /\ sent <= Len(Plan(c)) /\ Len(s) = 2 * (sent - Len(done))
      /\ \A i \in 1 .. sent - Len(done) :
           /\ s[2 * i - 1] = HalfOf(Plan(c)[Len(done) + i], GameKey, 1)
           /\ s[2 * i] = HalfOf(Plan(c)[Len(done) + i], GameKey, 2)
  <2>1. Len(done) + Len(<<>>) = Len(done)
    BY <1>3
  <2> HIDE DEF done, sent, s
  <2> QED
    BY <1>8, <2>1 DEF Ahead
<1>10. IF fs = <<>>
       THEN /\ SrvIs(c, [srv[c] EXCEPT !.tail = r]) /\ UNCHANGED session
       ELSE Dispatch(c, Head(fs), Queued(fs), r)
  BY <1>2
<1>11. fs = [i \in 1 .. k |-> IF WholeAt(b, i) THEN b[2 * i].m ELSE "garbled"]
  BY DEF Frames
<1>12. Plan(c) \in Seq(Request) /\ Len(Plan(c)) \in Nat
       /\ \A i \in 1 .. Len(Plan(c)) : Plan(c)[i] \in Request
  BY PlanFacts
<1>13. k <= sent - Len(done) /\ Len(v) \in Nat
  <2>1. Len(v) \in Nat
    BY <1>4
  <2> HIDE DEF done, sent, s, b, v, k
  <2> QED
    BY <1>3, <1>4, <1>5, <1>9, <2>1
<1>14. \A i \in 1 .. k : fs[i] = Plan(c)[Len(done) + i] /\ fs[i] \in Request
  <2> HIDE DEF done, sent, s, b, k, fs
  <2> TAKE i \in 1 .. k
  <2>1. /\ i \in 1 .. sent - Len(done) /\ Len(done) + i \in 1 .. Len(Plan(c))
        /\ 2 * i - 1 \in 1 .. Len(b) /\ 2 * i \in 1 .. Len(b)
    BY <1>3, <1>5, <1>9, <1>12, <1>13
  <2>2. /\ b[2 * i - 1] = HalfOf(Plan(c)[Len(done) + i], GameKey, 1)
        /\ b[2 * i] = HalfOf(Plan(c)[Len(done) + i], GameKey, 2)
    BY <1>4, <1>9, <2>1
  <2>3. WholeAt(b, i) /\ b[2 * i].m = Plan(c)[Len(done) + i]
    BY <2>2 DEF WholeAt, HalfOf
  <2> QED
    BY <1>11, <1>12, <2>1, <2>3
<1>15. fs \in Seq(Request) /\ Len(fs) = k
  <2> HIDE DEF b, k, fs
  <2>1. fs \in [1 .. k -> Request]
    BY <1>11, <1>14
  <2> QED
    BY <1>5, <2>1
<1>16. CASE fs = <<>>
  <2>1. k = 0
    BY <1>15, <1>16
  <2>2. /\ SrvIs(c, [srv[c] EXCEPT !.tail = r]) /\ session' = session
    BY <1>10, <1>16
  <2> HIDE DEF done, sent, s, b, v, k, fs, r
  <2>3. /\ srv'[c] = [srv[c] EXCEPT !.tail = r]
        /\ \A d \in Conn \ {c} : srv'[d] = srv[d]
    BY <2>2, SrvStep
  <2>4. /\ srv'[c].pc = srv[c].pc /\ srv'[c].queue = srv[c].queue /\ srv'[c].tail = r
        /\ srv'[c].out = srv[c].out /\ srv'[c].done = srv[c].done
        /\ srv'[c].half = srv[c].half /\ srv'[c].key = srv[c].key
    BY <2>3, Fields
  <2>5. Ahead(done, <<>>, r \o v, sent, Plan(c))
    <3>1. Len(s) \in Nat /\ 2 * k = 0
      BY <1>4, <2>1
    <3>2. Len(r \o v) = Len(s) /\ \A i \in 1 .. Len(s) : (r \o v)[i] = s[i]
      BY <1>6, <2>1, <3>1
    <3>3. \A i \in 1 .. sent - Len(done) : 2 * i - 1 \in 1 .. Len(s) /\ 2 * i \in 1 .. Len(s)
      BY <1>3, <1>9
    <3>4. Len(<<>>) = 0 /\ Len(done) + Len(<<>>) = Len(done)
      BY <1>3
    <3>5. ASSUME NEW i \in 1 .. sent - Len(done)
          PROVE  /\ (r \o v)[2 * i - 1] = HalfOf(Plan(c)[Len(done) + i], GameKey, 1)
                 /\ (r \o v)[2 * i] = HalfOf(Plan(c)[Len(done) + i], GameKey, 2)
      BY <1>9, <3>2, <3>3
    <3>6. Len(r \o v) = 2 * (sent - Len(done))
      BY <1>9, <3>2
    <3>7. \A i \in 1 .. Len(<<>>) : FALSE
      BY <3>4
    <3> QED
      BY <1>9, <3>4, <3>5, <3>6, <3>7 DEF Ahead
  <2>6. LinkType(c)'
    BY <1>1, <1>4, <1>6, <1>7, <2>4, Fields DEF ConnInv, LinkType
  <2>7. Framed(c)' /\ Handled(c)' /\ Answered(c)'
    <3>1. Framed(c) /\ Handled(c) /\ Answered(c)
      BY <1>1, Fields DEF ConnInv, Staged, Begun
    <3>2. Framed(c)'
      BY <1>1, <2>4, <3>1 DEF Framed, Upright
    <3>3. Handled(c)'
      BY <2>4, <3>1 DEF Handled
    <3>4. Answered(c)'
      BY <1>1, <3>1 DEF Answered
    <3> QED
      BY <3>2, <3>3, <3>4
  <2>8. Staged(c)'
    <3>1. srv[c].key = GameKey
      BY <1>1, Fields DEF ConnInv, Staged, Begun
    <3>2. Ahead(srv'[c].done, srv'[c].queue, srv'[c].tail \o up'[c], cli'[c].sent, Plan(c))
      BY <1>1, <1>7, <2>4, <2>5 DEF done, sent
    <3> QED
      BY <1>1, <2>4, <2>7, <3>1, <3>2 DEF Staged, Begun
  <2>9. Local(c)
    BY <1>1, <1>7, <2>3 DEF Local, LinkInv, Domains
  <2> QED
    BY <1>1, <2>2, <2>6, <2>7, <2>8, <2>9 DEF ConnInv
<1>17. CASE fs # <<>>
  <2>1. Dispatch(c, Head(fs), Tail(fs), r)
    BY <1>10, <1>17 DEF Queued
  <2> HIDE DEF done, sent, s, b, v, k, fs, r
  <2>2. /\ Head(fs) = fs[1] /\ Head(fs) \in Request /\ Tail(fs) \in Seq(Request)
        /\ Len(Tail(fs)) = k - 1 /\ k >= 1
        /\ \A i \in 1 .. k - 1 : Tail(fs)[i] = fs[i + 1]
    BY <1>15, <1>17, HeadTailProperties
  <2>3. Len(Append(done, Head(fs))) = Len(done) + 1
    BY <1>3, <2>2, AppendProperties
  <2>4. Head(fs) = Plan(c)[Len(done) + 1]
    BY <1>5, <1>14, <2>2
  <2>5. Ahead(Append(done, Head(fs)), Tail(fs), r \o v, sent, Plan(c))
    <3>1. Len(Append(done, Head(fs))) + Len(Tail(fs)) = Len(done) + k
      <4>1. \A x, y : x = Len(done) + 1 /\ y = k - 1 => x + y = Len(done) + k
        BY <1>3, <1>5
      <4> QED
        BY <2>2, <2>3, <4>1
    <3>2. Len(r \o v) = 2 * (sent - (Len(done) + k))
      BY <1>3, <1>5, <1>6, <1>9
    <3>3. ASSUME NEW i \in 1 .. sent - (Len(done) + k)
          PROVE  /\ (r \o v)[2 * i - 1] = HalfOf(Plan(c)[Len(done) + k + i], GameKey, 1)
                 /\ (r \o v)[2 * i] = HalfOf(Plan(c)[Len(done) + k + i], GameKey, 2)
      <4>1. /\ 2 * i - 1 \in 1 .. Len(s) - 2 * k /\ 2 * i \in 1 .. Len(s) - 2 * k
            /\ k + i \in 1 .. sent - Len(done)
        BY <1>3, <1>5, <1>9
      <4>2. /\ (r \o v)[2 * i - 1] = s[2 * k + (2 * i - 1)]
            /\ (r \o v)[2 * i] = s[2 * k + 2 * i]
        BY <1>6, <4>1
      <4>3. /\ 2 * k + (2 * i - 1) = 2 * (k + i) - 1 /\ 2 * k + 2 * i = 2 * (k + i)
            /\ Len(done) + (k + i) = Len(done) + k + i
        BY <1>3, <1>5
      <4> QED
        BY <1>9, <4>1, <4>2, <4>3
    <3>4. ASSUME NEW i \in 1 .. Len(Tail(fs))
          PROVE  Tail(fs)[i] = Plan(c)[Len(Append(done, Head(fs))) + i]
      <4>1. /\ i \in 1 .. k - 1 /\ i + 1 \in 1 .. k
            /\ Len(done) + (i + 1) = Len(Append(done, Head(fs))) + i
        BY <1>3, <1>5, <2>2, <2>3
      <4>2. Tail(fs)[i] = fs[i + 1] /\ fs[i + 1] = Plan(c)[Len(done) + (i + 1)]
        BY <1>14, <2>2, <4>1
      <4> QED
        BY <4>1, <4>2
    <3>5. Len(done) + k <= sent
      BY <1>3, <1>5, <1>13
    <3> QED
      BY <1>9, <3>1, <3>2, <3>3, <3>4, <3>5 DEF Ahead
  <2> QED
    BY <1>1, <1>4, <1>6, <1>7, <2>1, <2>2, <2>4, <2>5, DispatchStep DEF done, sent
<1> QED
  BY <1>16, <1>17
-----------------------------------------------------------------------------
(* A half of a frame of the game does not disturb what Answered says of a  *)
(* connection on which the stream has begun.                               *)
LEMMA AnsweredGrows ==
  ASSUME LinkInv, NEW c \in Conn, srv[c].pc = "stream" \/ Known(c),
         NEW h \in Half, InGame(h), down'[c] = down[c] \o <<h>>, cli'[c].key = cli[c].key
  PROVE  Answered(c)'
<1>1. srv[c].pc \in Begun /\ Answered(c) /\ down[c] \in Seq(Half)
  BY Fields DEF ConnInv, Staged, Begun, LinkType
<1>2. AllGame(down[c]) \/ (Leads(down[c], "chg") /\ cli[c].key # GameKey)
  BY <1>1 DEF Answered
<1>3. PICK t : t = down[c] \o <<h>>
  OBVIOUS
<1>4. AllGame(t) \/ (Leads(t, "chg") /\ cli[c].key # GameKey)
  BY <1>1, <1>2, <1>3, GameGoesOn
<1> QED
  BY <1>3, <1>4 DEF Answered

(* A handler that writes has the game key and a frame of the game.         *)
LEMMA WriterFacts ==
  ASSUME LinkInv, NEW c \in Conn, srv[c].out # <<>>
  PROVE  /\ srv[c].pc = "stream" /\ srv[c].key = GameKey
         /\ Head(srv[c].out) \in Reply /\ Tail(srv[c].out) \in Seq(Reply)
         /\ \A part \in 1 .. 3 :
              LET h == HalfOf(Head(srv[c].out), GameKey, part) IN h \in Half /\ InGame(h)
<1>1. srv[c].pc = "stream" /\ srv[c].out \in Seq(Reply)
  BY Fields DEF ConnInv, LinkType, Framed
<1>2. srv[c].key = GameKey
  BY <1>1, Fields DEF ConnInv, Staged, Begun
<1>3. Head(srv[c].out) \in Reply /\ Tail(srv[c].out) \in Seq(Reply)
  BY <1>1
<1>4. ASSUME NEW m \in Reply, NEW part \in 1 .. 3
      PROVE  HalfOf(m, GameKey, part) \in Half /\ InGame(HalfOf(m, GameKey, part))
  BY <1>4 DEF HalfOf, Half, Name, Key, Reply, InGame
<1> QED
  BY <1>1, <1>2, <1>3, <1>4

(* It begins a frame.                                                      *)
LEMMA StartStep ==
  ASSUME LinkInv, NEW c \in Conn, StartSend(c)
  PROVE  Local(c) /\ ConnInv(c)' /\ session' = session /\ peer' = peer
<1>1. /\ srv[c].out # <<>> /\ lock[c] = "free" /\ Upright(c)
      /\ UNCHANGED <<session, peer, up, cli>> /\ lock' = [lock EXCEPT ![c] = "own"]
  BY DEF StartSend, MayWrite
<1>2. PICK m : m = Head(srv[c].out)
  OBVIOUS
<1>3. /\ srv[c].pc = "stream" /\ srv[c].key = GameKey /\ m \in Reply
      /\ HalfOf(m, GameKey, 1) \in Half /\ InGame(HalfOf(m, GameKey, 1))
  BY <1>1, <1>2, WriterFacts
<1>4. Puts(c, << HalfOf(m, GameKey, 1) >>)
  <2>1. Halves(m, GameKey)[1] = HalfOf(m, GameKey, 1)
    BY <1>3, TwoHalves DEF Name, Key
  <2> QED
    BY <1>2, <1>3, <2>1 DEF StartSend
<1>5. /\ DOMAIN down' = Conn /\ down'[c] = down[c] \o << HalfOf(m, GameKey, 1) >>
      /\ \A d \in Conn \ {c} : down'[d] = down[d]
  BY <1>4, PutsStep
<1>6. /\ srv'[c] = [srv[c] EXCEPT !.half = TRUE]
      /\ \A d \in Conn \ {c} : srv'[d] = srv[d]
  BY SrvStep DEF StartSend
<1>7. /\ srv'[c].pc = srv[c].pc /\ srv'[c].queue = srv[c].queue
      /\ srv'[c].tail = srv[c].tail /\ srv'[c].out = srv[c].out
      /\ srv'[c].done = srv[c].done /\ srv'[c].half = TRUE /\ srv'[c].key = srv[c].key
  BY <1>6, Fields
<1>8. /\ DOMAIN lock' = Conn /\ lock'[c] = "own"
      /\ \A d \in Conn \ {c} : lock'[d] = lock[d]
  BY <1>1 DEF LinkInv, Domains
<1>9. LinkType(c) /\ Framed(c) /\ Staged(c) /\ Answered(c)
  BY <1>3, Fields DEF ConnInv, Staged, Begun
<1>10. /\ down'[c] \in Seq(Half) /\ Whole(down'[c]) /\ Within(down'[c], m, GameKey)
  <2>1. Whole(down[c]) /\ Between(down[c]) /\ down[c] \in Seq(Half)
    BY <1>1, <1>9 DEF Framed, LinkType
  <2> QED
    BY <1>3, <1>5, <2>1, FirstHalf DEF Name, Key
<1>11. LinkType(c)'
  BY <1>1, <1>7, <1>9, <1>10 DEF LinkType
<1>12. Framed(c)'
  BY <1>1, <1>2, <1>3, <1>7, <1>8, <1>9, <1>10 DEF Framed, Upright
<1>13. Answered(c)' /\ Handled(c)'
  <2>1. Answered(c)'
    BY <1>1, <1>3, <1>5, AnsweredGrows
  <2>2. Handled(c)'
    BY <1>7, <1>9 DEF Staged, Handled
  <2> QED
    BY <2>1, <2>2
<1>14. Staged(c)'
  BY <1>1, <1>3, <1>7, <1>9, <1>13 DEF Staged, Begun
<1>15. Local(c)
  BY <1>1, <1>5, <1>6, <1>8 DEF Local, LinkInv, Domains
<1> QED
  BY <1>1, <1>11, <1>12, <1>14, <1>15 DEF ConnInv

(* The end of a frame, or of what there is of it, and the lock is free.    *)
LEMMA EndOfFrame ==
  ASSUME LinkInv, NEW c \in Conn, srv[c].half = TRUE,
         NEW part \in {2, 3}, NEW out \in Seq(Reply), NEW now,
         SrvIs(c, now), now.pc = srv[c].pc, now.out = out, now.half = FALSE,
         now.tail = srv[c].tail, now.queue = srv[c].queue, now.done = srv[c].done,
         now.key = srv[c].key,
         \/ Upright(c) /\ Puts(c, << HalfOf(Head(srv[c].out), GameKey, part) >>)
         \/ ~Upright(c) /\ down' = down,
         lock' = [lock EXCEPT ![c] = "free"], UNCHANGED <<session, peer, up, cli>>
  PROVE  Local(c) /\ ConnInv(c)'
<1>1. LinkType(c) /\ Framed(c) /\ Staged(c) /\ lock[c] = "own" /\ srv[c].out # <<>>
  BY Fields DEF ConnInv, Framed
<1>2. PICK m : m = Head(srv[c].out)
  OBVIOUS
<1>3. /\ srv[c].pc = "stream" /\ srv[c].key = GameKey /\ m \in Reply
      /\ HalfOf(m, GameKey, part) \in Half /\ InGame(HalfOf(m, GameKey, part))
  BY <1>1, <1>2, WriterFacts
<1>4. srv'[c] = now /\ \A d \in Conn \ {c} : srv'[d] = srv[d]
  BY SrvStep
<1>5. /\ DOMAIN lock' = Conn /\ lock'[c] = "free"
      /\ \A d \in Conn \ {c} : lock'[d] = lock[d]
  BY DEF LinkInv, Domains
<1>6. /\ DOMAIN down' = Conn /\ \A d \in Conn \ {c} : down'[d] = down[d]
      /\ down'[c] \in Seq(Half) /\ Whole(down'[c]) /\ Between(down'[c])
      /\ ~Upright(c) => down'[c] = <<>>
      /\ Answered(c)'
  <2>1. CASE Upright(c) /\ Puts(c, << HalfOf(Head(srv[c].out), GameKey, part) >>)
    <3>1. /\ DOMAIN down' = Conn /\ down'[c] = down[c] \o << HalfOf(m, GameKey, part) >>
          /\ \A d \in Conn \ {c} : down'[d] = down[d]
      BY <1>2, <2>1, PutsStep
    <3>2. Whole(down[c]) /\ Within(down[c], m, GameKey) /\ down[c] \in Seq(Half)
      BY <1>1, <1>2, <1>3, <2>1 DEF Framed, LinkType
    <3>3. Answered(c)'
      BY <1>3, <3>1, AnsweredGrows
    <3>4. /\ down'[c] \in Seq(Half) /\ Whole(down'[c]) /\ Between(down'[c])
      <4>1. m \in Name /\ GameKey \in Key
        BY <1>3 DEF Name, Key
      <4>2. LET t == down[c] \o << HalfOf(m, GameKey, part) >> IN
            t \in Seq(Half) /\ Whole(t) /\ Between(t)
        BY <3>2, <4>1, LastHalf
      <4> QED
        BY <3>1, <4>2
    <3> QED
      BY <2>1, <3>1, <3>3, <3>4, Zenon
  <2>2. CASE ~Upright(c) /\ down' = down
    <3>1. down[c] = <<>>
      BY <1>1, <2>2 DEF Framed
    <3>2. Whole(<<>>) /\ Between(<<>>)
      BY DEF Whole, Between
    <3>3. Answered(c)'
      BY <2>2, <3>1 DEF Answered, AllGame
    <3> QED
      BY <2>2, <3>1, <3>2, <3>3 DEF LinkInv, Domains
  <2> QED
    BY <2>1, <2>2
<1>7. LinkType(c)'
  BY <1>1, <1>4, <1>6 DEF LinkType
<1>8. Framed(c)'
  BY <1>1, <1>3, <1>4, <1>5, <1>6 DEF Framed, Upright
<1>9. Handled(c)'
  BY <1>1, <1>4 DEF Staged, Handled
<1>10. Staged(c)'
  BY <1>1, <1>3, <1>4, <1>6, <1>9 DEF Staged, Begun
<1>11. Local(c)
  BY <1>4, <1>5, <1>6 DEF Local, LinkInv, Domains
<1> QED
  BY <1>7, <1>8, <1>10, <1>11 DEF ConnInv

(* It ends the frame.                                                      *)
LEMMA FinishStep ==
  ASSUME LinkInv, NEW c \in Conn, FinishSend(c)
  PROVE  Local(c) /\ ConnInv(c)' /\ session' = session /\ peer' = peer
<1> DEFINE m == Head(srv[c].out)
           owes == IF m = "a001" THEN TRUE ELSE srv[c].pending /\ m # "hints"
           now == [srv[c] EXCEPT !.half = FALSE, !.out = Tail(@), !.pending = owes]
<1>1. /\ srv[c].half /\ Upright(c) /\ lock' = [lock EXCEPT ![c] = "free"]
      /\ Puts(c, << Halves(m, srv[c].key)[2] >>)
      /\ SrvIs(c, now) /\ UNCHANGED <<session, peer, up, cli>>
  BY DEF FinishSend
<1> HIDE DEF owes
<1>2. srv[c].half = TRUE /\ srv[c].out # <<>>
  <2>1. srv[c].half \in BOOLEAN
    BY Fields DEF ConnInv, LinkType
  <2>2. srv[c].half = TRUE
    BY <1>1, <2>1, Zenon
  <2> QED
    BY <2>2, Fields DEF ConnInv, Framed
<1>3. m \in Reply /\ Tail(srv[c].out) \in Seq(Reply) /\ srv[c].key = GameKey
  BY <1>2, WriterFacts
<1>4. Puts(c, << HalfOf(m, GameKey, 2) >>)
  <2>1. Halves(m, GameKey)[2] = HalfOf(m, GameKey, 2)
    BY <1>3, TwoHalves DEF Name, Key
  <2> QED
    BY <1>1, <1>3, <2>1
<1>5. /\ now.half = FALSE /\ now.out = Tail(srv[c].out) /\ now.pc = srv[c].pc
      /\ now.tail = srv[c].tail /\ now.queue = srv[c].queue
      /\ now.done = srv[c].done /\ now.key = srv[c].key
  BY Fields
<1> HIDE DEF now
<1> QED
  BY <1>1, <1>2, <1>3, <1>4, <1>5, EndOfFrame

(* Its write fails, within a frame or before one.                          *)
LEMMA FailStep ==
  ASSUME LinkInv, NEW c \in Conn, SendFails(c)
  PROVE  Local(c) /\ ConnInv(c)' /\ session' = session /\ peer' = peer
<1> DEFINE m == Head(srv[c].out)
           now == [srv[c] EXCEPT !.half = FALSE, !.out = <<>>]
<1>1. /\ srv[c].out # <<>> /\ SrvIs(c, now) /\ UNCHANGED <<session, peer, up, cli>>
  BY DEF SendFails
<1>2. srv[c].key = GameKey /\ srv[c].pc = "stream" /\ <<>> \in Seq(Reply)
  BY <1>1, WriterFacts
<1>3. /\ now.half = FALSE /\ now.out = <<>> /\ now.pc = srv[c].pc
      /\ now.tail = srv[c].tail /\ now.queue = srv[c].queue
      /\ now.done = srv[c].done /\ now.key = srv[c].key
  BY Fields
<1>4. LinkType(c) /\ Framed(c) /\ Staged(c)
  BY Fields DEF ConnInv
<1>5. CASE /\ srv[c].half /\ lock' = [lock EXCEPT ![c] = "free"]
           /\ IF Upright(c) THEN Puts(c, Cut(Head(srv[c].out), srv[c].key))
              ELSE UNCHANGED down
  <2>1. srv[c].half = TRUE
    <3>1. srv[c].half \in BOOLEAN
      BY <1>4 DEF LinkType
    <3> QED
      BY <1>5, <3>1, Zenon
  <2>2. \/ Upright(c) /\ Puts(c, << HalfOf(m, GameKey, 3) >>)
        \/ ~Upright(c) /\ down' = down
    BY <1>2, <1>5 DEF Cut, HalfOf
  <2> HIDE DEF now
  <2> QED
    BY <1>1, <1>2, <1>3, <1>5, <2>1, <2>2, EndOfFrame
<1>6. CASE ~srv[c].half /\ MayWrite(c) /\ UNCHANGED <<lock, down>>
  <2>1. lock[c] = "free"
    BY <1>6 DEF MayWrite
  <2> HIDE DEF now
  <2>2. srv'[c] = now /\ \A d \in Conn \ {c} : srv'[d] = srv[d]
    BY <1>1, SrvStep
  <2>3. LinkType(c)'
    BY <1>1, <1>2, <1>3, <1>4, <1>6, <2>2 DEF LinkType
  <2>4. Framed(c)'
    BY <1>1, <1>2, <1>3, <1>4, <1>6, <2>1, <2>2 DEF Framed, Upright
  <2>5. Handled(c)' /\ Answered(c)'
    <3>1. Handled(c)'
      BY <1>3, <1>4, <2>2 DEF Staged, Handled
    <3>2. Answered(c)'
      BY <1>1, <1>2, <1>4, <1>6 DEF Staged, Begun, Answered
    <3> QED
      BY <3>1, <3>2
  <2>6. Staged(c)'
    BY <1>1, <1>2, <1>3, <1>4, <1>6, <2>2, <2>5 DEF Staged, Begun
  <2>7. Local(c)
    BY <1>1, <1>6, <2>2 DEF Local, LinkInv, Domains
  <2> QED
    BY <1>1, <2>3, <2>4, <2>6, <2>7 DEF ConnInv
<1> QED
  BY <1>5, <1>6 DEF SendFails
(* The handler's end.                                                      *)
LEMMA EndStep ==
  ASSUME LinkInv, NEW c \in Conn, Ends(c)
  PROVE  Local(c) /\ ConnInv(c)' /\ session' = session /\ peer' = peer
<1>1. /\ srv[c].pc \in {"deaf", "synack", "stream"} /\ srv[c].out = <<>>
      /\ up' = [up EXCEPT ![c] = <<>>] /\ UNCHANGED <<lock, session, peer, down, cli>>
  BY DEF Ends
<1>2. /\ srv'[c] = [srv[c] EXCEPT !.pc = "end", !.tail = <<>>, !.queue = <<>>]
      /\ \A d \in Conn \ {c} : srv'[d] = srv[d]
  BY SrvStep DEF Ends
<1>3. /\ srv'[c].pc = "end" /\ srv'[c].queue = <<>> /\ srv'[c].tail = <<>>
      /\ srv'[c].out = <<>> /\ srv'[c].done = srv[c].done
      /\ srv'[c].half = srv[c].half /\ srv'[c].key = srv[c].key
  BY <1>1, <1>2, Fields
<1>4. /\ DOMAIN up' = Conn /\ up'[c] = <<>> /\ \A d \in Conn \ {c} : up'[d] = up[d]
  BY <1>1 DEF LinkInv, Domains
<1>5. LinkType(c) /\ Framed(c) /\ Staged(c)
  BY Fields DEF ConnInv
<1>6. LinkType(c)'
  BY <1>1, <1>3, <1>4, <1>5 DEF LinkType
<1>7. Framed(c)'
  BY <1>1, <1>3, <1>5 DEF Framed, Upright
<1>8. Handled(c)'
  BY <1>3, <1>5 DEF Staged, Handled
<1>9. Answered(c)'
  <2>1. CASE down[c] = <<>>
    BY <1>1, <2>1 DEF Answered, AllGame
  <2>2. CASE down[c] # <<>> /\ srv[c].pc = "synack"
    BY <1>1, <1>3, <1>5, <2>2 DEF Staged, Begun, Answered, Known
  <2>3. CASE down[c] # <<>> /\ srv[c].pc = "stream"
    BY <1>1, <1>5, <2>3 DEF Staged, Begun, Answered
  <2> QED
    BY <1>1, <1>5, <2>1, <2>2, <2>3 DEF Staged, Begun
<1>10. Staged(c)'
  BY <1>3, <1>8, <1>9 DEF Staged, Begun
<1>11. Local(c)
  BY <1>1, <1>2, <1>4 DEF Local, LinkInv, Domains
<1> QED
  BY <1>1, <1>6, <1>7, <1>10, <1>11 DEF ConnInv

-----------------------------------------------------------------------------
(* The client's steps.                                                     *)
LEMMA ReadStep ==
  ASSUME LinkInv, NEW c \in Conn, Reads(c)
  PROVE  Local(c) /\ ConnInv(c)' /\ session' = session /\ peer' = peer
<1>0. PICK s, t, hs :
        /\ s = down[c] /\ t = SubSeq(s, 3, Len(s)) /\ hs = Halves("synack", s[1].key)
  OBVIOUS
<1>1. /\ Upright(c) /\ Len(s) >= 2 /\ WholeAt(s, 1) /\ down' = [down EXCEPT ![c] = t]
      /\ UNCHANGED <<srv, lock, session, peer>>
  BY <1>0 DEF Reads
<1>2. LinkType(c) /\ Framed(c) /\ Staged(c)
  BY Fields DEF ConnInv
<1>3. /\ s \in Seq(Half) /\ up[c] \in Seq(Half) /\ s[1] \in Half /\ s[1].key \in Key
      /\ Len(s) \in Nat /\ s # <<>>
  <2>1. s \in Seq(Half) /\ up[c] \in Seq(Half)
    BY <1>0, <1>2 DEF LinkType
  <2>2. s[1] \in Half /\ Len(s) \in Nat /\ s # <<>>
    BY <1>1, <2>1
  <2>3. s[1].key \in Key
    BY <2>2 DEF Half
  <2> QED
    BY <2>1, <2>2, <2>3
<1>4. /\ t \in Seq(Half) /\ Whole(t)
      /\ Between(s) => Between(t)
      /\ \A m, key : Within(s, m, key) => Within(t, m, key)
  BY <1>0, <1>1, <1>2, <1>3, FirstRead DEF Framed
<1>5. Len(t) = Len(s) - 2 /\ \A i \in 1 .. Len(s) - 2 : t[i] = s[i + 2]
  BY <1>0, <1>1, <1>3, WithoutTwo
<1>6. hs \in Seq(Half) /\ Len(hs) = 2 /\ up[c] \o hs \in Seq(Half)
  <2>1. \A key \in Key : Halves("synack", key) \in Seq(Half) /\ Len(Halves("synack", key)) = 2
    BY TwoHalves DEF Name
  <2>2. hs \in Seq(Half) /\ Len(hs) = 2
    BY <1>0, <1>3, <2>1
  <2> QED
    BY <1>3, <2>2
<1>7. /\ DOMAIN down' = Conn /\ down'[c] = t /\ \A d \in Conn \ {c} : down'[d] = down[d]
  BY <1>1 DEF LinkInv, Domains
<1>8. /\ DOMAIN up' = Conn /\ \A d \in Conn \ {c} : up'[d] = up[d]
      /\ \/ up'[c] = up[c]
         \/ s[1].m = "syn" /\ up'[c] = up[c] \o hs
  BY <1>0 DEF Reads, LinkInv, Domains
<1>9. /\ \A d \in Conn \ {c} : cli'[d] = cli[d]
      /\ cli'[c].sent = cli[c].sent /\ cli'[c].pc = cli[c].pc
      /\ cli'[c].got \subseteq cli[c].got \cup {s[1].m}
      /\ cli'[c].key = cli[c].key \/ s[1].m = "chg"
  <2> DEFINE key == IF s[1].m = "chg" THEN GameKey ELSE cli[c].key
  <2>1. \/ cli' = [cli EXCEPT ![c].got = @ \cup {s[1].m}, ![c].key = key]
        \/ cli' = cli
    BY <1>0, Fields DEF Reads, LinkInv, KeyInv, Shape
  <2>2. key = cli[c].key \/ s[1].m = "chg"
    OBVIOUS
  <2> HIDE DEF key
  <2>3. CASE cli' = [cli EXCEPT ![c].got = @ \cup {s[1].m}, ![c].key = key]
    BY <2>2, <2>3, Fields DEF LinkInv, KeyInv, Shape
  <2> QED
    BY <2>1, <2>3
<1>10. LinkType(c)'
  <2>1. up'[c] \in Seq(Half)
    BY <1>3, <1>6, <1>8
  <2>2. down'[c] \in Seq(Half)
    BY <1>4, <1>7
  <2> QED
    BY <1>1, <1>2, <1>9, <2>1, <2>2 DEF LinkType
<1>11. Framed(c)'
  <2>1. /\ Whole(down'[c]) /\ Upright(c)'
        /\ lock[c] = "free" => Between(down'[c])
        /\ lock[c] = "own" => Within(down'[c], Head(srv[c].out), srv[c].key)
        /\ lock[c] = "peer" => Within(down'[c], "note", GameKey)
    BY <1>0, <1>1, <1>2, <1>4, <1>7, <1>9 DEF Framed, Upright
  <2> QED
    BY <1>1, <1>2, <2>1 DEF Framed
<1>12. Handled(c)'
  BY <1>1, <1>2 DEF Staged, Handled
<1>13. ASSUME srv[c].pc \notin Begun PROVE Staged(c)'
  <2>1. /\ srv[c].pc = "synack" /\ up[c] = <<>> /\ Leads(s, "syn") /\ Len(s) = 2
        /\ cli[c].got \subseteq {"syn"}
    BY <1>0, <1>2, <1>3, <1>13 DEF Staged
  <2>2. s[1].m = "syn" /\ t = <<>>
    BY <1>4, <1>5, <2>1 DEF Leads
  <2>3. Len(up'[c]) <= 2
    <3>1. <<>> \o hs = hs /\ Len(<<>>) = 0
      BY <1>6
    <3>2. up'[c] = <<>> \/ up'[c] = hs
      BY <1>8, <2>1, <3>1
    <3>3. Len(hs) <= 2 /\ Len(<<>>) <= 2
      BY <1>6, <3>1
    <3> QED
      BY <3>2, <3>3
  <2>4. Staged(c)'
    BY <1>1, <1>2, <1>7, <1>9, <1>12, <1>13, <2>1, <2>2, <2>3 DEF Staged, Begun, Known
  <2> QED
    BY <2>4
<1>14. ASSUME srv[c].pc \in Begun PROVE Staged(c)'
  <2>1. Answered(c)
    BY <1>2, <1>14 DEF Staged
  <2>2. Answered(c)' /\ (srv[c].pc = "stream" => s[1].m # "syn")
    <3>1. CASE AllGame(s)
      <4>1. InGame(s[1])
        BY <1>1, <1>3, <3>1 DEF AllGame
      <4>2. AllGame(t)
        BY <1>1, <1>3, <1>5, <3>1 DEF AllGame
      <4> QED
        BY <1>7, <4>1, <4>2 DEF InGame, Answered
    <3>2. CASE Leads(s, "chg")
      <4>1. AllGame(t) /\ s[1].m = "chg"
        BY <1>1, <1>3, <1>5, <3>2 DEF AllGame, Leads
      <4> QED
        BY <1>7, <4>1 DEF Answered
    <3>3. CASE Leads(s, "syn") /\ Len(s) = 2 /\ srv[c].pc = "end"
      <4>1. AllGame(t)
        BY <1>1, <1>3, <1>5, <3>3 DEF AllGame
      <4> QED
        BY <1>7, <3>3, <4>1 DEF Answered
    <3> QED
      BY <1>0, <2>1, <3>1, <3>2, <3>3 DEF Answered
  <2>3. Staged(c)'
    BY <1>1, <1>2, <1>8, <1>9, <1>12, <1>14, <2>2 DEF Staged, Begun
  <2> QED
    BY <2>3
<1>15. Local(c)
  BY <1>1, <1>7, <1>8, <1>9 DEF Local, LinkInv, Domains
<1> QED
  BY <1>1, <1>10, <1>11, <1>13, <1>14, <1>15 DEF ConnInv

(* A stream in two parts and two more halves.                              *)
LEMMA TwoMore ==
  ASSUME NEW t \in Seq(Half), NEW u \in Seq(Half), NEW a \in Half, NEW b \in Half
  PROVE  LET s == t \o u
             w == t \o (u \o <<a, b>>)
         IN  /\ u \o <<a, b>> \in Seq(Half)
             /\ Len(w) = Len(s) + 2 /\ w[Len(s) + 1] = a /\ w[Len(s) + 2] = b
             /\ \A i \in 1 .. Len(s) : w[i] = s[i]
<1> DEFINE s == t \o u
           w == t \o (u \o <<a, b>>)
           x == s \o <<a, b>>
<1>1. <<a, b>> \in Seq(Half) /\ Len(<<a, b>>) = 2 /\ <<a, b>>[1] = a /\ <<a, b>>[2] = b
  OBVIOUS
<1>2. s \in Seq(Half) /\ u \o <<a, b>> \in Seq(Half) /\ Len(s) \in Nat
  BY <1>1
<1>3. w = x
  BY <1>1, ConcatAssociative
<1>4. /\ Len(x) = Len(s) + 2
      /\ \A i \in 1 .. Len(s) + 2 : x[i] = IF i <= Len(s) THEN s[i] ELSE <<a, b>>[i - Len(s)]
  <2> HIDE DEF s
  <2> QED
    BY <1>1, <1>2, ConcatProperties
<1> HIDE DEF s, w, x
<1>5. x[Len(s) + 1] = a /\ x[Len(s) + 2] = b /\ \A i \in 1 .. Len(s) : x[i] = s[i]
  BY <1>1, <1>2, <1>4
<1> QED
  BY <1>2, <1>3, <1>4, <1>5 DEF s, w

(* The client writes the next request behind all it has written.           *)
LEMMA AheadGrows ==
  ASSUME NEW done \in Seq(Request), NEW queue \in Seq(Request),
         NEW t \in Seq(Half), NEW u \in Seq(Half), NEW sent \in Nat,
         NEW plan, Ahead(done, queue, t \o u, sent, plan), sent + 1 <= Len(plan),
         NEW a \in Half, NEW b \in Half,
         a = HalfOf(plan[sent + 1], GameKey, 1), b = HalfOf(plan[sent + 1], GameKey, 2)
  PROVE  Ahead(done, queue, t \o (u \o <<a, b>>), sent + 1, plan)
<1>1. PICK s : s = t \o u
  OBVIOUS
<1>2. PICK w : w = t \o (u \o <<a, b>>)
  OBVIOUS
<1>3. PICK k : k = Len(done) + Len(queue)
  OBVIOUS
<1>4. /\ Len(w) = Len(s) + 2 /\ w[Len(s) + 1] = a /\ w[Len(s) + 2] = b
      /\ \A i \in 1 .. Len(s) : w[i] = s[i]
  BY <1>1, <1>2, TwoMore, SMTT(30)
<1>5. k \in Nat
  BY <1>3
<1>6. /\ k <= sent /\ Len(s) = 2 * (sent - k)
      /\ \A i \in 1 .. sent - k :
           /\ s[2 * i - 1] = HalfOf(plan[k + i], GameKey, 1)
           /\ s[2 * i] = HalfOf(plan[k + i], GameKey, 2)
      /\ \A i \in 1 .. Len(queue) : queue[i] = plan[Len(done) + i]
  BY <1>1, <1>3 DEF Ahead
<1>7. Len(w) = 2 * (sent + 1 - k) /\ k <= sent + 1
  BY <1>4, <1>5, <1>6
<1>8. ASSUME NEW i \in 1 .. sent + 1 - k
      PROVE  /\ w[2 * i - 1] = HalfOf(plan[k + i], GameKey, 1)
             /\ w[2 * i] = HalfOf(plan[k + i], GameKey, 2)
  <2>1. CASE i \in 1 .. sent - k
    <3>1. 2 * i - 1 \in 1 .. Len(s) /\ 2 * i \in 1 .. Len(s)
      <4>1. \A x : x = 2 * (sent - k) => 2 * i - 1 \in 1 .. x /\ 2 * i \in 1 .. x
        BY <1>5, <2>1
      <4> QED
        BY <1>6, <4>1
    <3> QED
      BY <1>4, <1>6, <2>1, <3>1
  <2>2. CASE i \notin 1 .. sent - k
    <3>1. k + i = sent + 1 /\ 2 * i - 1 = Len(s) + 1 /\ 2 * i = Len(s) + 2
      BY <1>5, <1>6, <2>2
    <3> QED
      BY <1>4, <3>1
  <2> QED
    BY <2>1, <2>2
<1>9. Ahead(done, queue, w, sent + 1, plan)
  <2>1. /\ Len(done) + Len(queue) <= sent + 1 /\ sent + 1 <= Len(plan)
        /\ Len(w) = 2 * (sent + 1 - (Len(done) + Len(queue)))
    BY <1>3, <1>7
  <2> QED
    BY <1>3, <1>6, <1>8, <2>1 DEF Ahead
<1> QED
  BY <1>2, <1>9

(* It asks.                                                                *)
LEMMA AskStep ==
  ASSUME LinkInv, NEW c \in Conn, Asks(c)
  PROVE  Local(c) /\ ConnInv(c)' /\ session' = session /\ peer' = peer
<1>1. PICK n : n = cli[c].sent + 1
  OBVIOUS
<1>2. PICK m : m = Plan(c)[n]
  OBVIOUS
<1>3. /\ Upright(c) /\ n <= Len(Plan(c)) /\ Needs(m) \in cli[c].got
      /\ up' = [up EXCEPT ![c] = @ \o Halves(m, GameKey)]
      /\ cli' = [cli EXCEPT ![c].sent = n]
      /\ UNCHANGED <<srv, lock, session, peer, down>>
  BY <1>1, <1>2 DEF Asks
<1>4. LinkType(c) /\ Framed(c) /\ Staged(c)
  BY Fields DEF ConnInv
<1>5. /\ cli[c].sent \in Nat /\ n \in Nat /\ n >= 1 /\ m \in Request
      /\ srv[c].tail \in Seq(Half) /\ up[c] \in Seq(Half)
      /\ srv[c].done \in Seq(Request) /\ srv[c].queue \in Seq(Request)
  BY <1>1, <1>2, <1>3, <1>4, PlanFacts DEF LinkType
<1>6. srv[c].pc \in Begun
  <2>1. Needs(m) \in {"chg", "pings", "a001"}
    BY DEF Needs
  <2> QED
    BY <1>3, <1>4, <2>1 DEF Staged
<1>7. PICK a \in Half, b \in Half :
        /\ a = HalfOf(m, GameKey, 1) /\ b = HalfOf(m, GameKey, 2)
        /\ Halves(m, GameKey) = <<a, b>>
  BY <1>5, TwoHalves DEF Name, Key
<1>8. /\ DOMAIN up' = Conn /\ up'[c] = up[c] \o <<a, b>>
      /\ \A d \in Conn \ {c} : up'[d] = up[d]
  BY <1>3, <1>7 DEF LinkInv, Domains
<1>9. /\ cli'[c].sent = n /\ cli'[c].pc = cli[c].pc /\ cli'[c].got = cli[c].got
      /\ cli'[c].key = cli[c].key /\ \A d \in Conn \ {c} : cli'[d] = cli[d]
  BY <1>3, Fields DEF LinkInv, KeyInv, Shape
<1>10. LinkType(c)'
  <2>1. up[c] \o <<a, b>> \in Seq(Half)
    BY <1>5, TwoMore
  <2> QED
    BY <1>3, <1>4, <1>5, <1>8, <1>9, <2>1 DEF LinkType
<1>11. Framed(c)' /\ Handled(c)' /\ Answered(c)'
  <2>1. Framed(c)'
    BY <1>3, <1>4, <1>9 DEF Framed, Upright
  <2>2. Handled(c)'
    BY <1>3, <1>4 DEF Staged, Handled
  <2>3. Answered(c)'
    BY <1>3, <1>4, <1>6, <1>9 DEF Staged, Answered, Known
  <2> QED
    BY <2>1, <2>2, <2>3
<1>12. ASSUME srv[c].pc = "stream"
       PROVE  /\ srv[c].key = GameKey
              /\ Ahead(srv[c].done, srv[c].queue, srv[c].tail \o (up[c] \o <<a, b>>), n, Plan(c))
  <2>1. /\ srv[c].key = GameKey
        /\ Ahead(srv[c].done, srv[c].queue, srv[c].tail \o up[c], cli[c].sent, Plan(c))
    BY <1>4, <1>12 DEF Staged, Begun
  <2> QED
    BY <1>1, <1>2, <1>3, <1>5, <1>7, <2>1, AheadGrows
<1>13. Staged(c)'
  BY <1>3, <1>6, <1>8, <1>9, <1>11, <1>12 DEF Staged, Begun
<1>14. Local(c)
  BY <1>3, <1>8, <1>9 DEF Local, LinkInv, Domains
<1> QED
  BY <1>3, <1>10, <1>11, <1>13, <1>14 DEF ConnInv

(* It closes the connection.                                               *)
LEMMA CloseStep ==
  ASSUME LinkInv, NEW c \in Conn, Closes(c)
  PROVE  Local(c) /\ ConnInv(c)' /\ session' = session /\ peer' = peer
<1>1. /\ cli' = [cli EXCEPT ![c].pc = "closed"] /\ down' = [down EXCEPT ![c] = <<>>]
      /\ UNCHANGED <<srv, lock, session, peer, up>>
  BY DEF Closes
<1>2. LinkType(c) /\ Framed(c) /\ Staged(c)
  BY Fields DEF ConnInv
<1>3. /\ cli'[c].pc = "closed" /\ cli'[c].sent = cli[c].sent /\ cli'[c].got = cli[c].got
      /\ cli'[c].key = cli[c].key /\ \A d \in Conn \ {c} : cli'[d] = cli[d]
  BY <1>1, Fields DEF LinkInv, KeyInv, Shape
<1>4. /\ DOMAIN down' = Conn /\ down'[c] = <<>> /\ \A d \in Conn \ {c} : down'[d] = down[d]
  BY <1>1 DEF LinkInv, Domains
<1>5. Whole(<<>>) /\ Between(<<>>) /\ AllGame(<<>>)
  BY DEF Whole, Between, AllGame
<1>6. LinkType(c)'
  BY <1>1, <1>2, <1>3, <1>4 DEF LinkType
<1>7. Framed(c)'
  BY <1>1, <1>2, <1>3, <1>4, <1>5 DEF Framed, Upright
<1>8. Handled(c)' /\ Answered(c)'
  BY <1>1, <1>2, <1>4, <1>5 DEF Staged, Handled, Answered
<1>9. up[c] = <<>> => Len(up[c]) <= 2
  OBVIOUS
<1>10. Staged(c)'
  BY <1>1, <1>2, <1>3, <1>4, <1>8, <1>9 DEF Staged, Known
<1>11. Local(c)
  BY <1>1, <1>3, <1>4 DEF Local, LinkInv, Domains
<1> QED
  BY <1>1, <1>6, <1>7, <1>10, <1>11 DEF ConnInv
-----------------------------------------------------------------------------
(* The steps of the thread of another player.                              *)
LEMMA PeerElsewhere ==
  ASSUME LinkInv, NEW c \in Conn, NEW d \in Conn, d # c,
         srv' = srv, cli' = cli, up' = up, session' = session,
         down'[d] = down[d], lock'[d] = lock[d],
         peer.conn = c, peer'.conn \in {0, c}
  PROVE  ConnInv(d)'
<1>1. Known(d)' => Known(d)
  BY PlanFacts DEF Known
<1>2. peer'.pc = "half" /\ peer'.conn = d <=> peer.pc = "half" /\ peer.conn = d
  BY PlanFacts
<1> QED
  BY <1>1, <1>2, OthersKeep

(* The connection another player's thread has in hand has begun its        *)
(* stream.                                                                 *)
LEMMA PeerFacts ==
  ASSUME LinkInv, peer.pc # "idle"
  PROVE  /\ peer.conn \in Conn /\ peer.key = GameKey /\ peer.n \in Nat
         /\ Known(peer.conn) /\ srv[peer.conn].pc \in Begun
         /\ \A part \in 1 .. 3 :
              LET h == HalfOf("note", GameKey, part) IN h \in Half /\ InGame(h)
<1>1. /\ peer.conn \in Conn /\ peer.key = GameKey /\ peer.n \in Nat /\ Known(peer.conn)
  BY DEF LinkInv, PeerInv, Known
<1>2. srv[peer.conn].pc \in Begun
  BY <1>1, Fields DEF ConnInv, Staged
<1>3. \A part \in 1 .. 3 :
        LET h == HalfOf("note", GameKey, part) IN h \in Half /\ InGame(h)
  BY DEF HalfOf, Half, Name, Key, InGame
<1> QED
  BY <1>1, <1>2, <1>3

(* It copies the session.                                                  *)
LEMMA NotifyStep ==
  ASSUME LinkInv, KeyInv', Notify PROVE LinkInv'
<1>1. /\ peer.pc = "idle" /\ session # NoConn
      /\ peer' = [n |-> peer.n + 1, pc |-> "wait", conn |-> session.conn, key |-> session.key]
      /\ UNCHANGED <<srv, used, lock, session, up, down, cli, heap>>
  BY DEF Notify
<1>2. session.conn \in Conn /\ session.key = GameKey /\ peer.n \in Nat
  BY <1>1 DEF LinkInv, PeerInv, NoConn
<1>3. PeerInv'
  BY <1>1, <1>2 DEF LinkInv, PeerInv
<1>4. ASSUME NEW d \in Conn PROVE ConnInv(d)'
  <2>1. peer'.pc = "wait" /\ peer'.conn = session.conn
    BY <1>1
  <2>2. Known(d)' => Known(d)
    BY <1>1, <2>1 DEF Known
  <2> QED
    BY <1>1, <2>1, <2>2, OthersKeep
<1> QED
  BY <1>1, <1>3, <1>4 DEF LinkInv, Domains

(* It begins its frame.                                                    *)
LEMMA PeerStartStep ==
  ASSUME LinkInv, KeyInv', PeerStarts PROVE LinkInv'
<1>1. PICK c : c = peer.conn
  OBVIOUS
<1>2. /\ peer.pc = "wait" /\ lock[c] = "free" /\ Upright(c) /\ srv[c].pc # "end"
      /\ lock' = [lock EXCEPT ![c] = "peer"] /\ Puts(c, << Halves("note", peer.key)[1] >>)
      /\ peer' = [peer EXCEPT !.pc = "half"] /\ UNCHANGED <<srv, session, up, cli>>
  BY <1>1 DEF PeerStarts, MayWrite
<1>3. /\ c \in Conn /\ peer.key = GameKey /\ peer.n \in Nat /\ Known(c)
      /\ srv[c].pc = "stream"
      /\ HalfOf("note", GameKey, 1) \in Half /\ InGame(HalfOf("note", GameKey, 1))
  BY <1>1, <1>2, PeerFacts DEF Begun
<1>4. /\ peer'.pc = "half" /\ peer'.conn = c /\ PeerInv'
  BY <1>1, <1>2, <1>3 DEF LinkInv, PeerInv
<1>5. /\ DOMAIN down' = Conn /\ down'[c] = down[c] \o << HalfOf("note", GameKey, 1) >>
      /\ \A d \in Conn \ {c} : down'[d] = down[d]
  <2>1. Halves("note", GameKey)[1] = HalfOf("note", GameKey, 1)
    BY TwoHalves DEF Name, Key
  <2> QED
    BY <1>2, <1>3, <2>1, PutsStep
<1>6. /\ DOMAIN lock' = Conn /\ lock'[c] = "peer"
      /\ \A d \in Conn \ {c} : lock'[d] = lock[d]
  BY <1>2, <1>3 DEF LinkInv, Domains
<1>7. LinkType(c) /\ Framed(c) /\ Staged(c)
  BY <1>3, Fields DEF ConnInv
<1>8. /\ down'[c] \in Seq(Half) /\ Whole(down'[c]) /\ Within(down'[c], "note", GameKey)
  <2>1. Whole(down[c]) /\ Between(down[c]) /\ down[c] \in Seq(Half)
    BY <1>2, <1>7 DEF Framed, LinkType
  <2> QED
    BY <1>5, <2>1, FirstHalf DEF Name, Key
<1>9. LinkType(c)'
  BY <1>2, <1>7, <1>8 DEF LinkType
<1>10. Framed(c)'
  BY <1>2, <1>4, <1>6, <1>7, <1>8 DEF Framed, Upright
<1>11. Handled(c)' /\ Answered(c)'
  <2>1. Answered(c)'
    BY <1>2, <1>3, <1>5, AnsweredGrows
  <2>2. Handled(c)'
    BY <1>2, <1>7 DEF Staged, Handled
  <2> QED
    BY <2>1, <2>2
<1>12. Staged(c)'
  BY <1>2, <1>3, <1>7, <1>11 DEF Staged, Begun
<1>13. ASSUME NEW d \in Conn, d # c PROVE ConnInv(d)'
  BY <1>1, <1>2, <1>3, <1>4, <1>5, <1>6, <1>13, PeerElsewhere
<1> QED
  BY <1>2, <1>3, <1>4, <1>5, <1>6, <1>9, <1>10, <1>12, <1>13
     DEF LinkInv, Domains, ConnInv

(* The other thread is done, with a frame or with what there is of it.     *)
LEMMA PeerEnds ==
  ASSUME LinkInv, KeyInv', NEW c \in Conn, NEW part \in {2, 3},
         c = peer.conn, peer.pc = "half",
         lock' = [lock EXCEPT ![c] = "free"],
         \/ Upright(c) /\ Puts(c, << HalfOf("note", GameKey, part) >>)
         \/ ~Upright(c) /\ down' = down,
         peer' = [NoPeer EXCEPT !.n = peer.n], UNCHANGED <<srv, session, up, cli>>
  PROVE  LinkInv'
<1>1. /\ peer.n \in Nat /\ Known(c) /\ srv[c].pc \in Begun
      /\ HalfOf("note", GameKey, part) \in Half /\ InGame(HalfOf("note", GameKey, part))
  BY PeerFacts
<1>2. /\ peer'.pc = "idle" /\ peer'.conn = 0 /\ PeerInv'
  BY <1>1 DEF LinkInv, PeerInv, NoPeer
<1>3. LinkType(c) /\ Framed(c) /\ Staged(c) /\ lock[c] = "peer"
  BY Fields DEF ConnInv, Framed
<1>4. /\ DOMAIN lock' = Conn /\ lock'[c] = "free"
      /\ \A d \in Conn \ {c} : lock'[d] = lock[d]
  BY DEF LinkInv, Domains
<1>5. /\ DOMAIN down' = Conn /\ \A d \in Conn \ {c} : down'[d] = down[d]
      /\ down'[c] \in Seq(Half) /\ Whole(down'[c]) /\ Between(down'[c])
      /\ ~Upright(c) => down'[c] = <<>>
      /\ Answered(c)'
  <2>1. CASE Upright(c) /\ Puts(c, << HalfOf("note", GameKey, part) >>)
    <3>1. /\ DOMAIN down' = Conn /\ down'[c] = down[c] \o << HalfOf("note", GameKey, part) >>
          /\ \A d \in Conn \ {c} : down'[d] = down[d]
      BY <2>1, PutsStep
    <3>2. Whole(down[c]) /\ Within(down[c], "note", GameKey) /\ down[c] \in Seq(Half)
      BY <1>3, <2>1 DEF Framed, LinkType
    <3>3. Answered(c)'
      BY <1>1, <3>1, AnsweredGrows
    <3>4. /\ down'[c] \in Seq(Half) /\ Whole(down'[c]) /\ Between(down'[c])
      <4>1. "note" \in Name /\ GameKey \in Key
        BY DEF Name, Key
      <4>2. LET t == down[c] \o << HalfOf("note", GameKey, part) >> IN
            t \in Seq(Half) /\ Whole(t) /\ Between(t)
        BY <3>2, <4>1, LastHalf
      <4> QED
        BY <3>1, <4>2
    <3> QED
      BY <2>1, <3>1, <3>3, <3>4, Zenon
  <2>2. CASE ~Upright(c) /\ down' = down
    <3>1. down[c] = <<>>
      BY <1>3, <2>2 DEF Framed
    <3>2. Whole(<<>>) /\ Between(<<>>)
      BY DEF Whole, Between
    <3>3. Answered(c)'
      BY <2>2, <3>1 DEF Answered, AllGame
    <3> QED
      BY <2>2, <3>1, <3>2, <3>3 DEF LinkInv, Domains
  <2> QED
    BY <2>1, <2>2
<1>6. LinkType(c)'
  BY <1>3, <1>5 DEF LinkType
<1>7. Framed(c)'
  BY <1>2, <1>3, <1>4, <1>5, PlanFacts DEF Framed, Upright
<1>8. Handled(c)'
  BY <1>3 DEF Staged, Handled
<1>9. Staged(c)'
  BY <1>1, <1>3, <1>5, <1>8 DEF Staged, Begun
<1>10. ASSUME NEW d \in Conn, d # c PROVE ConnInv(d)'
  BY <1>2, <1>4, <1>5, <1>10, PeerElsewhere
<1> QED
  BY <1>2, <1>4, <1>5, <1>6, <1>7, <1>9, <1>10 DEF LinkInv, Domains, ConnInv

(* It ends it.                                                             *)
LEMMA PeerFinishStep ==
  ASSUME LinkInv, KeyInv', PeerFinishes PROVE LinkInv'
<1>1. PICK c : c = peer.conn
  OBVIOUS
<1>2. /\ peer.pc = "half" /\ Upright(c) /\ lock' = [lock EXCEPT ![c] = "free"]
      /\ Puts(c, << Halves("note", peer.key)[2] >>)
      /\ peer' = [NoPeer EXCEPT !.n = peer.n] /\ UNCHANGED <<srv, session, up, cli>>
  BY <1>1 DEF PeerFinishes
<1>3. c \in Conn /\ peer.key = GameKey
  BY <1>1, <1>2, PeerFacts
<1>4. Halves("note", GameKey)[2] = HalfOf("note", GameKey, 2)
  BY TwoHalves DEF Name, Key
<1> QED
  BY <1>1, <1>2, <1>3, <1>4, PeerEnds

(* Its write fails.                                                        *)
LEMMA PeerFailStep ==
  ASSUME LinkInv, KeyInv', PeerFails PROVE LinkInv'
<1>1. PICK c : c = peer.conn
  OBVIOUS
<1>2. /\ peer' = [NoPeer EXCEPT !.n = peer.n] /\ UNCHANGED <<srv, session, up, cli>>
      /\ \/ /\ peer.pc = "half" /\ lock' = [lock EXCEPT ![c] = "free"]
            /\ IF Upright(c) THEN Puts(c, Cut("note", peer.key)) ELSE UNCHANGED down
         \/ peer.pc = "wait" /\ MayWrite(c) /\ UNCHANGED <<lock, down>>
  BY <1>1 DEF PeerFails
<1>3. c \in Conn /\ peer.key = GameKey /\ peer.n \in Nat
  BY <1>1, <1>2, PeerFacts
<1>4. CASE /\ peer.pc = "half" /\ lock' = [lock EXCEPT ![c] = "free"]
           /\ IF Upright(c) THEN Puts(c, Cut("note", peer.key)) ELSE UNCHANGED down
  <2>1. \/ Upright(c) /\ Puts(c, << HalfOf("note", GameKey, 3) >>)
        \/ ~Upright(c) /\ down' = down
    BY <1>3, <1>4 DEF Cut, HalfOf
  <2> QED
    BY <1>1, <1>2, <1>3, <1>4, <2>1, PeerEnds
<1>5. CASE peer.pc = "wait" /\ MayWrite(c) /\ UNCHANGED <<lock, down>>
  <2>1. peer'.pc = "idle" /\ peer'.conn = 0 /\ PeerInv'
    BY <1>2, <1>3 DEF LinkInv, PeerInv, NoPeer
  <2>2. ASSUME NEW d \in Conn PROVE ConnInv(d)'
    <3>1. Known(d)' => Known(d)
      BY <1>2, <2>1, PlanFacts DEF Known
    <3> QED
      BY <1>2, <1>5, <2>1, <3>1, OthersKeep
  <2> QED
    BY <1>2, <1>5, <2>1, <2>2 DEF LinkInv, Domains
<1> QED
  BY <1>2, <1>4, <1>5

-----------------------------------------------------------------------------
(* Every step keeps the invariant.                                         *)
LEMMA NextKeepsLink == LinkInv /\ [Next]_vars => LinkInv'
<1> SUFFICES ASSUME LinkInv, [Next]_vars PROVE LinkInv'
  OBVIOUS
<1>1. KeyInv'
  BY NextKeepsKey DEF LinkInv
<1>2. ASSUME NEW c \in Conn, Handler(c) PROVE LinkInv'
  <2>1. CASE SendSyn(c)
    BY <1>1, <2>1, EarlySteps, SynStep, LocalKeeps DEF SendSyn
  <2>2. CASE Burst(c) \/ Recover(c) \/ Mark(c)
    BY <1>1, <2>2, EarlySteps, LocalKeeps
  <2>3. CASE HearSynack(c)
    BY <1>1, <2>3, HearStep, LocalKeeps
  <2>4. CASE Handle(c) \/ Recv(c)
    BY <1>1, <2>4, HandleStep, RecvStep, LocalKeeps
  <2>5. CASE StartSend(c) \/ FinishSend(c) \/ SendFails(c)
    BY <1>1, <2>5, StartStep, FinishStep, FailStep, LocalKeeps
  <2>6. CASE Expire(c) \/ HearClose(c)
    BY <1>1, <2>6, EndStep, LocalKeeps DEF Expire, HearClose
  <2> QED
    BY <1>2, <2>1, <2>2, <2>3, <2>4, <2>5, <2>6 DEF Handler
<1>3. ASSUME UNCHANGED <<srv, lock, session, peer, up, down, cli>> PROVE LinkInv'
  <2>1. \A d \in Conn : ConnInv(d)'
    BY <1>3, OthersKeep DEF Known
  <2> QED
    BY <1>1, <1>3, <2>1 DEF LinkInv, Domains, PeerInv
<1>4. ASSUME NEW c \in Conn, Client(c) PROVE LinkInv'
  <2>1. CASE Open(c)
    BY <1>1, <2>1, EarlySteps, LocalKeeps
  <2>2. CASE Fills(c)
    BY <1>3, <2>2 DEF Fills
  <2>3. CASE Reads(c) \/ Asks(c) \/ Closes(c)
    BY <1>1, <2>3, ReadStep, AskStep, CloseStep, LocalKeeps
  <2> QED
    BY <1>4, <2>1, <2>2, <2>3 DEF Client
<1>5. CASE Peer
  BY <1>1, <1>5, NotifyStep, PeerStartStep, PeerFinishStep, PeerFailStep DEF Peer
<1>6. CASE UNCHANGED vars
  BY <1>3, <1>6 DEF vars
<1> QED
  BY <1>2, <1>4, <1>5, <1>6 DEF Next

(* LinkInv holds in every reachable state: for any number of connections,  *)
(* any requests, and however TCP cuts the stream and the writers of a      *)
(* connection alternate.                                                   *)
THEOREM LinkInvariant == Spec => []LinkInv
<1> QED
  BY LinkStarts, NextKeepsLink, PTL DEF Spec

(* Whatever is still to be read after the new key is under the game key.   *)
LEMMA LinkReadable == LinkInv => ClientCanRead
<1> SUFFICES ASSUME LinkInv PROVE ClientCanRead
  OBVIOUS
<1>1. FramesWhole
  BY Fields DEF ConnInv, Framed, Whole, FramesWhole
<1>2. ASSUME NEW c \in Conn, NEW i \in 1 .. Len(down[c]),
             \/ cli[c].key = GameKey
             \/ \E j \in 1 .. i - 1 : down[c][j].m = "chg" /\ down[c][j].part = 2
      PROVE  down[c][i].key = GameKey
  <2>1. PICK s : s = down[c]
    OBVIOUS
  <2>2. s \in Seq(Half) /\ Len(s) \in Nat /\ Staged(c)
    BY <2>1, Fields DEF ConnInv, LinkType
  <2>3. CASE AllGame(s)
    BY <1>2, <2>1, <2>3 DEF AllGame, InGame
  <2>4. CASE Leads(s, "chg") /\ cli[c].key # GameKey
    <3>1. PICK j \in 1 .. i - 1 : s[j].m = "chg" /\ s[j].part = 2
      BY <1>2, <2>1, <2>4
    <3>2. j # 1 /\ i \in Nat
      BY <2>1, <2>4, <3>1 DEF Leads
    <3>3. i \in 3 .. Len(s)
      BY <2>1, <2>2, <3>1, <3>2
    <3> QED
      BY <2>1, <2>4, <3>3 DEF Leads, InGame
  <2>5. CASE Leads(s, "syn") /\ Len(s) = 2 /\ cli[c].key # GameKey
    <3>1. PICK j \in 1 .. i - 1 : s[j].m = "chg"
      BY <1>2, <2>1, <2>5
    <3>2. j \in 1 .. 2
      BY <2>1, <2>5, <3>1
    <3>3. s[1].m = "syn" /\ s[2].m = "syn"
      BY <2>5 DEF Leads
    <3> QED
      BY <3>1, <3>2, <3>3
  <2>6. CASE s = <<>>
    BY <2>1, <2>6
  <2> QED
    BY <2>1, <2>2, <2>3, <2>4, <2>5, <2>6 DEF Staged, Answered, Begun
<1> QED
  BY <1>1, <1>2 DEF ClientCanRead

(* What has been handled is the beginning of what the client was to ask.   *)
LEMMA LinkOrdered == LinkInv => HandledInOrder
<1> SUFFICES ASSUME LinkInv, NEW c \in Conn
             PROVE  srv[c].done = SubSeq(Plan(c), 1, Len(srv[c].done))
  BY DEF HandledInOrder
<1>1. PICK done, plan : done = srv[c].done /\ plan = Plan(c)
  OBVIOUS
<1>2. /\ done \in Seq(Request) /\ plan \in Seq(Request)
      /\ Len(done) \in Nat /\ Len(done) <= Len(plan)
      /\ \A i \in 1 .. Len(done) : done[i] = plan[i]
  BY <1>1, PlanFacts, Fields DEF ConnInv, LinkType, Staged, Handled
<1>3. /\ SubSeq(plan, 1, Len(done)) \in Seq(Request)
      /\ Len(SubSeq(plan, 1, Len(done))) = Len(done)
      /\ \A i \in 1 .. Len(done) : SubSeq(plan, 1, Len(done))[i] = plan[i]
  <2>1. \A i \in 1 .. Len(done) : plan[i] \in Request
    BY <1>2
  <2>2. /\ SubSeq(plan, 1, Len(done)) \in Seq(Request)
        /\ Len(SubSeq(plan, 1, Len(done)))
             = IF 1 <= Len(done) THEN Len(done) - 1 + 1 ELSE 0
        /\ \A i \in 1 .. Len(done) - 1 + 1 : SubSeq(plan, 1, Len(done))[i] = plan[1 + i - 1]
    BY <1>2, <2>1, SubSeqProperties
  <2> QED
    BY <1>2, <2>2
<1>4. done = SubSeq(plan, 1, Len(done))
  BY <1>2, <1>3, SeqEqual
<1> QED
  BY <1>1, <1>4

(* Whatever comes after the new key is whole and under the key the client  *)
(* will have when it reads it, whoever wrote it and whichever writes were  *)
(* cut short.                                                              *)
THEOREM ClientAlwaysReads == Spec => []ClientCanRead
<1> QED
  BY LinkInvariant, LinkReadable, PTL

(* The handlers handle the client's frames as it sent them, each once and  *)
(* in order, however TCP cuts and joins them.                              *)
THEOREM AlwaysInOrder == Spec => []HandledInOrder
<1> QED
  BY LinkInvariant, LinkOrdered, PTL
=============================================================================
