------------------------------ MODULE UdpProofs ------------------------------
(***************************************************************************)
(* Theorems of what is on UDP, for any clients, ports, places, retries,    *)
(* and any widths of the numbers in a packet.                              *)
(*                                                                         *)
(* First UdpBridge: its safety properties, and that it implements          *)
(* BridgeLifecycle.  They follow from one inductive invariant, which ties  *)
(* the published state to what the loop knows (loader_proc, afdev_ready)   *)
(* and the latch of each peer to what AFDEV has heard.                     *)
(*                                                                         *)
(* Then the codecs of DSStub and RelayPackets.  Their loops are recursive  *)
(* functions, which RankedRecursion shows to exist; a number, a payload, a *)
(* record and a packet are read back as they were written (IntReadsBack,   *)
(* BytesBack, RecordBack, RecordsBack), and so every packet that the sides *)
(* send comes out of either decoder.                                       *)
(*                                                                         *)
(* Last the exchange of DSStub: StubInv says which packets are under way,  *)
(* and that one of those the game waits for an ack of bears its message.   *)
(***************************************************************************)
EXTENDS UdpBridge, RelayPackets, FiniteSetTheorems, SequenceTheorems, WellFoundedInduction, TLAPS

(* The part of TypeOK that is about single variables.                      *)
BridgeTypes ==
  /\ pc \in {"loop", "failing", "stopping", "exited", "killed"}
  /\ state \in {"BOOTING", "LISTENING", "SPAWNING", "AFDEV_READY", "READY", "FAILED"}
  /\ file \in {"", "LISTENING", "SPAWNING", "AFDEV_READY", "READY", "FAILED"}
  /\ ready \in BOOLEAN
  /\ peers \in [Addr -> Peer]
  /\ loader \in {"off", "running", "gone"}
  /\ afdev \in {"off", "launched", "pid", "ready", "dead"}
  /\ report \in {"none", "ready"}
  /\ heard \in [Addr -> {"nothing", "first", "game"}]
  /\ port \in [Player -> Port]

(* While the loop runs, the stage follows from the loader and from ready.  *)
Stages ==
  /\ loader = "off" => afdev = "off" /\ ~ready
  /\ pc = "loop" =>
       /\ loader = "off" => state \in {"BOOTING", "LISTENING"}
       /\ loader # "off" /\ ~ready => state = "SPAWNING"
       /\ ready => state \in {"AFDEV_READY", "READY"}

(* AFDEV hears nothing of a peer before it is ready, and something of a    *)
(* peer before the peer is live.                                           *)
Latched ==
  /\ \A a \in Addr : heard[a] # "nothing" => ready
  /\ \A a \in Addr : peers[a].is = "live" => heard[a] # "nothing"

Places == Cardinality(Known) <= MaxPeers

(* A bridge that ended by itself has ended its loader.                     *)
NoLoaderLeft == pc = "exited" => loader # "running"

Inv == BridgeTypes /\ Stages /\ Latched /\ NoLoaderLeft

(* One action of Next at a time, with the address or player it is for.     *)
LEMMA NextCases ==
  ASSUME Next
  PROVE  \/ Bind \/ SeesReady \/ SeesFailure \/ EndAfdev \/ EndLoader
         \/ SocketError \/ Interrupted
         \/ LoaderLaunches \/ LoaderWritesPid \/ LoaderReports
         \/ LoaderExits \/ AfdevExits \/ Terminated
         \/ \E p \in Player : Reconnect(p)
         \/ \E p \in Player : Receive(<<p, port[p]>>)
         \/ \E a \in Addr : Retry(a) \/ FirstReply(a)
BY DEF Next, Loop, Environment

(* A player's address.                                                     *)
LEMMA OwnAddress ==
  ASSUME BridgeTypes, NEW p \in Player
  PROVE  <<p, port[p]>> \in Addr
BY DEF BridgeTypes, Addr

(* What sending latched packets may do to heard.                           *)
LEMMA SendLatchedFacts ==
  ASSUME BridgeTypes, NEW A \in SUBSET Addr, SendLatched(A)
  PROVE  /\ heard' \in [Addr -> {"nothing", "first", "game"}]
         /\ \A a \in Addr : heard'[a] # heard[a] =>
               a \in A /\ heard[a] = "nothing" /\ heard'[a] = "first"
         /\ \A a \in Addr : heard'[a] = "game" => heard[a] = "game"
BY DEF BridgeTypes, SendLatched

(* Changing one field of a peer gives a peer.                              *)
LEMMA PeerWith ==
  ASSUME NEW r \in Peer,
         NEW n \in 0 .. MaxRetries,
         NEW w \in {"unknown", "waiting", "live"}
  PROVE  /\ [r EXCEPT !.sent = n] \in Peer
         /\ [r EXCEPT !.is = w] \in Peer
         /\ [is |-> w, sent |-> n] \in Peer
BY DEF Peer

(* The first copy, and one more while there are fewer than MaxRetries.     *)
LEMMA SentRange ==
  ASSUME BridgeAssumption
  PROVE  /\ 0 \in 0 .. MaxRetries /\ 1 \in 0 .. MaxRetries
         /\ \A n \in 0 .. MaxRetries : n < MaxRetries => n + 1 \in 0 .. MaxRetries
BY DEF BridgeAssumption

(* The variables keep their types.                                         *)
LEMMA TypesPreserved ==
  ASSUME BridgeTypes, BridgeAssumption, [Next]_vars
  PROVE  BridgeTypes'
<1>1. CASE UNCHANGED vars
  <2>1. /\ UNCHANGED <<pc, state, file, ready, peers>>
        /\ UNCHANGED <<loader, afdev, report, heard, port>>
    BY <1>1 DEF vars
  <2>2. ready' \in BOOLEAN
    BY <2>1 DEF BridgeTypes
  <2>3. /\ pc' \in {"loop", "failing", "stopping", "exited", "killed"}
        /\ state' \in {"BOOTING", "LISTENING", "SPAWNING", "AFDEV_READY", "READY", "FAILED"}
        /\ file' \in {"", "LISTENING", "SPAWNING", "AFDEV_READY", "READY", "FAILED"}
    BY <2>1 DEF BridgeTypes
  <2>4. QED
    BY <2>1, <2>2, <2>3 DEF BridgeTypes
<1>2. CASE Bind \/ SeesFailure \/ SocketError \/ Interrupted
  <2>1. /\ pc' \in {pc, "failing", "exited"}
        /\ state' \in {state, "LISTENING", "FAILED"}
        /\ file' \in {file, "LISTENING", "FAILED"}
    BY <1>2 DEF Bind, SeesFailure, SocketError, Interrupted, Fail, Publish
  <2>2. UNCHANGED <<ready, peers>> /\ UNCHANGED <<loader, afdev, report, heard, port>>
    BY <1>2 DEF Bind, SeesFailure, SocketError, Interrupted
  <2>3. ready' \in BOOLEAN
    BY <2>2 DEF BridgeTypes
  <2>4. /\ pc' \in {"loop", "failing", "stopping", "exited", "killed"}
        /\ state' \in {"BOOTING", "LISTENING", "SPAWNING", "AFDEV_READY", "READY", "FAILED"}
        /\ file' \in {"", "LISTENING", "SPAWNING", "AFDEV_READY", "READY", "FAILED"}
    BY <2>1 DEF BridgeTypes
  <2>5. QED
    BY <2>2, <2>3, <2>4 DEF BridgeTypes
<1>10. CASE EndAfdev \/ EndLoader
  <2>1. /\ pc' \in {"stopping", "exited"}
        /\ loader' \in {loader, "gone"} /\ afdev' \in {afdev, "dead"}
    BY <1>10 DEF EndAfdev, EndLoader
  <2>2. UNCHANGED <<state, file, ready, peers, report, heard, port>>
    BY <1>10 DEF EndAfdev, EndLoader
  <2>3. ready' \in BOOLEAN
    BY <2>2 DEF BridgeTypes
  <2>4. QED
    BY <2>1, <2>2, <2>3, ZenonT(60) DEF BridgeTypes
<1>3. CASE LoaderLaunches \/ LoaderWritesPid \/ LoaderReports
  <2>1. /\ afdev' \in {"off", "launched", "pid", "ready", "dead"}
        /\ report' \in {"none", "ready"}
    BY <1>3 DEF BridgeTypes, LoaderLaunches, LoaderWritesPid, LoaderReports
  <2>2. UNCHANGED <<pc, state, file, ready, peers, loader, heard, port>>
    BY <1>3 DEF LoaderLaunches, LoaderWritesPid, LoaderReports
  <2>3. ready' \in BOOLEAN
    BY <2>2 DEF BridgeTypes
  <2>4. QED
    BY <2>1, <2>2, <2>3 DEF BridgeTypes
<1>9. CASE LoaderExits \/ AfdevExits \/ Terminated
  <2>1. CASE LoaderExits
    BY <2>1, ZenonT(60) DEF BridgeTypes, LoaderExits
  <2>2. CASE AfdevExits
    BY <2>2 DEF BridgeTypes, AfdevExits
  <2>3. CASE Terminated
    BY <2>3 DEF BridgeTypes, Terminated
  <2>4. QED
    BY <1>9, <2>1, <2>2, <2>3
<1>4. CASE \E p \in Player : Reconnect(p)
  <2>1. PICK p \in Player : Reconnect(p)
    BY <1>4
  <2>2. port' \in [Player -> Port]
    BY <2>1 DEF BridgeTypes, Reconnect
  <2>3. UNCHANGED <<pc, state, file, ready, peers>> /\ UNCHANGED <<loader, afdev, report, heard>>
    BY <2>1 DEF Reconnect
  <2>4. ready' \in BOOLEAN
    BY <2>3 DEF BridgeTypes
  <2>5. /\ pc' \in {"loop", "failing", "stopping", "exited", "killed"}
        /\ loader' \in {"off", "running", "gone"}
        /\ afdev' \in {"off", "launched", "pid", "ready", "dead"}
        /\ report' \in {"none", "ready"}
    BY <2>3 DEF BridgeTypes
  <2>6. QED
    BY <2>2, <2>3, <2>4, <2>5 DEF BridgeTypes
<1>5. CASE SeesReady
  <2>1. PICK W \in SUBSET Addr :
          /\ peers' = [a \in Addr |-> IF a \in W THEN [peers[a] EXCEPT !.sent = 1]
                                                 ELSE peers[a]]
          /\ SendLatched(W)
    BY <1>5 DEF SeesReady, Known
  <2>2. peers' \in [Addr -> Peer]
    <3>1. \A a \in Addr : peers[a] \in Peer /\ [peers[a] EXCEPT !.sent = 1] \in Peer
      BY PeerWith, SentRange DEF BridgeTypes
    <3>2. QED
      BY <2>1, <3>1
  <2>3. QED
    BY <1>5, <2>1, <2>2, SendLatchedFacts DEF BridgeTypes, SeesReady, Publish
<1>6. CASE \E p \in Player : Receive(<<p, port[p]>>)
  <2>1. PICK a \in Addr : Receive(a)
    BY <1>6, OwnAddress
  <2>2. CASE FirstPeer(a)
    BY <2>2 DEF BridgeTypes, FirstPeer, Peer, Fail, Publish
  <2>3. CASE LaterPeer(a)
    <3>1. peers' \in [Addr -> Peer]
      <4>1. (IF ready THEN 1 ELSE 0) \in 0 .. MaxRetries
        BY SentRange
      <4>2. [is |-> "waiting", sent |-> IF ready THEN 1 ELSE 0] \in Peer
        BY <4>1 DEF Peer
      <4>3. QED
        BY <2>3, <4>2 DEF BridgeTypes, LaterPeer
    <3>2. PICK A \in SUBSET Addr : SendLatched(A)
      BY <2>3 DEF LaterPeer
    <3>3. heard' \in [Addr -> {"nothing", "first", "game"}]
      BY <3>2, SendLatchedFacts
    <3>4. QED
      BY <2>3, <3>1, <3>3 DEF BridgeTypes, LaterPeer, Publish, Looping
  <2>4. CASE SuppressRepeat(a)
    BY <2>4 DEF BridgeTypes, SuppressRepeat, Publish, Looping
  <2>5. CASE RelayToAfdev(a)
    BY <2>5 DEF BridgeTypes, RelayToAfdev
  <2>6. QED
    BY <2>1, <2>2, <2>3, <2>4, <2>5 DEF Receive
<1>7. CASE \E a \in Addr : Retry(a) \/ FirstReply(a)
  <2>1. PICK a \in Addr : Retry(a) \/ FirstReply(a)
    BY <1>7
  <2>2. CASE Retry(a)
    <3>1. peers' \in [Addr -> Peer]
      <4>1. peers[a] \in Peer /\ peers[a].sent \in 0 .. MaxRetries
        BY DEF BridgeTypes, Peer
      <4>2. peers[a].sent + 1 \in 0 .. MaxRetries
        BY <2>2, <4>1, SentRange DEF Retry
      <4>3. [peers[a] EXCEPT !.sent = peers[a].sent + 1] \in Peer
        BY <4>1, <4>2, PeerWith
      <4>4. peers' = [peers EXCEPT ![a] = [peers[a] EXCEPT !.sent = peers[a].sent + 1]]
        BY <2>2 DEF Retry, BridgeTypes, Peer
      <4>5. QED
        BY <4>3, <4>4 DEF BridgeTypes
    <3>2. SendLatched({a})
      BY <2>2 DEF Retry
    <3>3. QED
      BY <2>2, <3>1, <3>2, SendLatchedFacts DEF BridgeTypes, Retry, Publish, Looping
  <2>3. CASE FirstReply(a)
    BY <2>3 DEF BridgeTypes, FirstReply, Peer, Publish
  <2>4. QED
    BY <2>1, <2>2, <2>3
<1>8. QED
  BY <1>1, <1>2, <1>3, <1>4, <1>5, <1>6, <1>7, <1>9, <1>10, NextCases

(* What a step does to the parts the stages depend on.                     *)
LEMMA StagesPreserved ==
  ASSUME Inv, [Next]_vars
  PROVE  Stages' /\ NoLoaderLeft'
<1>0. /\ Stages /\ NoLoaderLeft
      /\ \A a \in Addr : heard[a] # "nothing" => ready
      /\ ready \in BOOLEAN
  BY DEF Inv, BridgeTypes, Latched
<1> USE <1>0 DEF Stages, NoLoaderLeft
<1>1. CASE UNCHANGED vars
  BY <1>1 DEF vars
<1>2. CASE Bind
  BY <1>2 DEF Bind, Publish
<1>3. CASE SeesReady
  BY <1>3 DEF SeesReady, Publish, Looping
<1>4. CASE SeesFailure \/ SocketError \/ Interrupted
  BY <1>4 DEF SeesFailure, SocketError, Interrupted, Fail, Publish, Looping
<1>5. CASE EndAfdev \/ EndLoader
  BY <1>5 DEF EndAfdev, EndLoader, OnRecord
<1>6. CASE LoaderLaunches \/ LoaderWritesPid \/ LoaderReports
  <2>1. loader = "running" /\ UNCHANGED <<pc, state, ready, loader>>
    BY <1>6 DEF LoaderLaunches, LoaderWritesPid, LoaderReports
  <2>2. QED
    BY <2>1
<1>7. CASE LoaderExits \/ AfdevExits \/ Terminated
  BY <1>7 DEF LoaderExits, AfdevExits, OnRecord, Terminated
<1>8. CASE \E p \in Player : Reconnect(p)
  BY <1>8 DEF Reconnect
<1>9. CASE \E p \in Player : Receive(<<p, port[p]>>)
  <2>1. PICK a : Receive(a)
    BY <1>9
  <2>2. CASE FirstPeer(a)
    BY <2>2 DEF FirstPeer, Fail, Publish, Looping
  <2>3. CASE LaterPeer(a)
    BY <2>3 DEF LaterPeer, Publish, Looping
  <2>4. CASE SuppressRepeat(a) \/ RelayToAfdev(a)
    BY <2>4 DEF SuppressRepeat, RelayToAfdev, Publish, Looping
  <2>5. QED
    BY <2>1, <2>2, <2>3, <2>4 DEF Receive
<1>10. CASE \E a \in Addr : Retry(a)
  BY <1>10 DEF Retry, Publish, Looping
<1>11. CASE \E a \in Addr : FirstReply(a)
  BY <1>11 DEF FirstReply, Publish, Looping
<1>12. QED
  BY <1>1, <1>2, <1>3, <1>4, <1>5, <1>6, <1>7, <1>8, <1>9, <1>10, <1>11, NextCases

(* AFDEV hears a peer for the first time through a latched packet, which   *)
(* is only sent once it is ready.                                          *)
LEMMA LatchedPreserved ==
  ASSUME Inv, [Next]_vars
  PROVE  Latched'
<1>0. /\ \A a \in Addr : heard[a] # "nothing" => ready
      /\ \A a \in Addr : peers[a].is = "live" => heard[a] # "nothing"
      /\ peers \in [Addr -> Peer]
      /\ heard \in [Addr -> {"nothing", "first", "game"}]
      /\ BridgeTypes
  BY DEF Inv, BridgeTypes, Latched
<1> SUFFICES ASSUME NEW b \in Addr
             PROVE  /\ heard'[b] # "nothing" => ready'
                    /\ peers'[b].is = "live" => heard'[b] # "nothing"
  BY DEF Latched
<1>1. CASE UNCHANGED <<ready, peers, heard>>
  BY <1>0, <1>1
<1>2. CASE SeesReady
  <2>1. PICK W \in SUBSET Addr :
          /\ peers' = [a \in Addr |-> IF a \in W THEN [peers[a] EXCEPT !.sent = 1]
                                                 ELSE peers[a]]
          /\ SendLatched(W)
    BY <1>2 DEF SeesReady, Known
  <2>2. ready' = TRUE
    BY <1>2 DEF SeesReady
  <2>3. peers'[b].is = peers[b].is
    BY <1>0, <2>1 DEF Peer
  <2>4. heard[b] # "nothing" => heard'[b] # "nothing"
    BY <1>0, <2>1, SendLatchedFacts
  <2>5. QED
    BY <1>0, <2>2, <2>3, <2>4
<1>3. ASSUME NEW a \in Addr, FirstPeer(a)
      PROVE  /\ heard'[b] # "nothing" => ready'
             /\ peers'[b].is = "live" => heard'[b] # "nothing"
  <2>1. peers'[b].is = "live" => peers[b].is = "live"
    BY <1>0, <1>3 DEF FirstPeer, Peer
  <2>2. QED
    BY <1>0, <1>3, <2>1 DEF FirstPeer
<1>4. ASSUME NEW a \in Addr, LaterPeer(a) \/ Retry(a)
      PROVE  /\ heard'[b] # "nothing" => ready'
             /\ peers'[b].is = "live" => heard'[b] # "nothing"
  <2>1. peers'[b].is = "live" => peers[b].is = "live"
    BY <1>0, <1>4 DEF LaterPeer, Retry, Peer
  <2>2. PICK A \in SUBSET {a} : SendLatched(A) /\ (A # {} => ready)
    BY <1>4 DEF LaterPeer, Retry
  <2>3. heard'[b] # heard[b] => heard[b] = "nothing" /\ ready
    BY <1>0, <2>2, SendLatchedFacts
  <2>4. heard[b] # "nothing" => heard'[b] # "nothing"
    BY <1>0, <2>2, SendLatchedFacts
  <2>5. ready' = ready
    BY <1>4 DEF LaterPeer, Retry
  <2>6. QED
    BY <1>0, <2>1, <2>3, <2>4, <2>5
<1>5. ASSUME NEW a \in Addr, RelayToAfdev(a)
      PROVE  /\ heard'[b] # "nothing" => ready'
             /\ peers'[b].is = "live" => heard'[b] # "nothing"
  BY <1>0, <1>5 DEF RelayToAfdev
<1>6. ASSUME NEW a \in Addr, FirstReply(a)
      PROVE  /\ heard'[b] # "nothing" => ready'
             /\ peers'[b].is = "live" => heard'[b] # "nothing"
  <2>1. b # a => peers'[b] = peers[b]
    BY <1>0, <1>6 DEF FirstReply
  <2>2. QED
    BY <1>0, <1>6, <2>1 DEF FirstReply
<1>7. CASE \E p \in Player : Receive(<<p, port[p]>>)
  BY <1>0, <1>1, <1>3, <1>4, <1>5, <1>7, OwnAddress DEF Receive, SuppressRepeat
<1>8. CASE \E p \in Player : Reconnect(p)
  BY <1>1, <1>8 DEF Reconnect
<1>9. CASE \/ Bind \/ SeesFailure \/ EndAfdev \/ EndLoader
           \/ SocketError \/ Interrupted \/ Terminated
  BY <1>1, <1>9 DEF Bind, SeesFailure, EndAfdev, EndLoader,
                    SocketError, Interrupted, Terminated
<1>10. CASE \/ LoaderLaunches \/ LoaderWritesPid \/ LoaderReports
            \/ LoaderExits \/ AfdevExits
  BY <1>1, <1>10 DEF LoaderLaunches, LoaderWritesPid, LoaderReports,
                     LoaderExits, AfdevExits
<1>11. CASE UNCHANGED vars
  BY <1>1, <1>11 DEF vars
<1>12. QED
  BY <1>2, <1>4, <1>6, <1>7, <1>8, <1>9, <1>10, <1>11, NextCases

(* A peer is registered only while there is a place for it.                *)
LEMMA PlacesPreserved ==
  ASSUME Inv, Places, BridgeAssumption, [Next]_vars
  PROVE  Places'
<1>0. peers \in [Addr -> Peer] /\ IsFiniteSet(Addr) /\ IsFiniteSet(Known)
  <2>1. IsFiniteSet(Addr)
    BY FS_Product DEF BridgeAssumption, Addr
  <2>2. QED
    BY <2>1, FS_Subset DEF Inv, BridgeTypes, Known
<1>1. CASE Known' = Known
  BY <1>1 DEF Places
<1>2. CASE \A a \in Addr : peers'[a].is = "unknown" <=> peers[a].is = "unknown"
  BY <1>1, <1>2 DEF Known
<1>3. ASSUME NEW a \in Addr, FirstPeer(a) \/ LaterPeer(a)
      PROVE  Places'
  <2>1. Known' = Known \cup {a} /\ a \notin Known
    BY <1>0, <1>3 DEF FirstPeer, LaterPeer, Known, Peer
  <2>2. Cardinality(Known') = Cardinality(Known) + 1
    BY <1>0, <2>1, FS_AddElement
  <2>3. Cardinality(Known) < MaxPeers /\ Cardinality(Known) \in Nat
    BY <1>0, <1>3, FS_CardinalityType DEF FirstPeer, LaterPeer
  <2>4. QED
    BY <2>2, <2>3 DEF Places, BridgeAssumption
<1>4. ASSUME NEW a \in Addr, Retry(a) \/ FirstReply(a)
      PROVE  Places'
  BY <1>0, <1>2, <1>4 DEF Retry, FirstReply, Peer
<1>5. CASE SeesReady
  BY <1>0, <1>2, <1>5 DEF SeesReady, Peer
<1>6. CASE UNCHANGED peers
  BY <1>2, <1>6
<1>7. CASE \E p \in Player : Receive(<<p, port[p]>>)
  BY <1>3, <1>6, <1>7, OwnAddress DEF Receive, SuppressRepeat, RelayToAfdev, Inv
<1>8. CASE \/ Bind \/ SeesFailure \/ EndAfdev \/ EndLoader
           \/ SocketError \/ Interrupted \/ Terminated
           \/ \E p \in Player : Reconnect(p)
  BY <1>6, <1>8 DEF Bind, SeesFailure, EndAfdev, EndLoader,
                    SocketError, Interrupted, Terminated, Reconnect
<1>9. CASE \/ LoaderLaunches \/ LoaderWritesPid \/ LoaderReports
           \/ LoaderExits \/ AfdevExits \/ UNCHANGED vars
  BY <1>6, <1>9 DEF LoaderLaunches, LoaderWritesPid, LoaderReports,
                    LoaderExits, AfdevExits, vars
<1>10. QED
  BY <1>4, <1>5, <1>7, <1>8, <1>9, NextCases

-----------------------------------------------------------------------------
(* The invariant holds initially and every step preserves it.              *)
THEOREM BridgeInvariant == Spec => [](Inv /\ Places)
<1>1. Init => Inv /\ Places
  <2> SUFFICES ASSUME Init PROVE Inv /\ Places
    OBVIOUS
  <2>1. Inv
    BY SentRange, BridgeAssumption
    DEF Init, Inv, BridgeTypes, Stages, Latched, NoLoaderLeft, Unknown, Peer
  <2>2. Known = {}
    BY DEF Init, Known, Unknown
  <2>3. QED
    BY <2>1, <2>2, FS_EmptySet, BridgeAssumption DEF Places, BridgeAssumption
<1>2. Inv /\ Places /\ [Next]_vars => Inv' /\ Places'
  BY TypesPreserved, StagesPreserved, LatchedPreserved, PlacesPreserved,
     BridgeAssumption DEF Inv
<1>3. QED
  BY <1>1, <1>2, PTL DEF Spec

(* Every variable keeps its type, no peer is sent more than MaxRetries     *)
(* copies and no more than MaxPeers places are taken.                      *)
THEOREM BridgeTypeCorrect == Spec => []TypeOK
<1>1. Inv /\ Places => TypeOK
  BY DEF Inv, BridgeTypes, Places, TypeOK
<1>2. QED
  BY <1>1, BridgeInvariant, PTL

(* A bridge that ended by itself has left no loader, and of the AFDEVs on  *)
(* record when its finally block began none, although the loader may go on *)
(* to write or report something between the two steps of that block.       *)
THEOREM ExitAlwaysLeavesNothing == Spec => ExitLeavesNothing
<1> DEFINE Doomed == \/ pc = "failing" /\ (OnRecord \/ afdev = "dead")
                     \/ pc \in {"stopping", "exited"} /\ afdev = "dead"
                     \/ pc = "killed"
           Survives == pc = "exited" => afdev = "dead"
           Begins == pc = "failing" /\ OnRecord
<1>1. Inv => NoLoaderLeft
  BY DEF Inv
<1>2. Begins => Doomed
  OBVIOUS
<1>3. Doomed => Survives
  OBVIOUS
<1>4. Doomed /\ [Next]_vars => Doomed'
  <2> SUFFICES ASSUME Doomed, [Next]_vars PROVE Doomed'
    OBVIOUS
  <2>1. CASE UNCHANGED <<pc, afdev>>
    BY <2>1 DEF OnRecord
  <2>2. ~Looping
    BY DEF Looping
  <2>3. CASE EndAfdev \/ EndLoader
    BY <2>3 DEF EndAfdev, EndLoader, OnRecord
  <2>4. CASE LoaderLaunches \/ LoaderWritesPid \/ LoaderReports
    BY <2>4 DEF LoaderLaunches, LoaderWritesPid, LoaderReports, OnRecord
  <2>5. CASE AfdevExits \/ Terminated
    BY <2>5 DEF AfdevExits, Terminated, OnRecord
  <2>6. CASE LoaderExits \/ \E p \in Player : Reconnect(p)
    BY <2>1, <2>6 DEF LoaderExits, Reconnect
  <2>7. CASE Bind
    BY <2>7 DEF Bind
  <2>8. CASE \/ SeesReady \/ SeesFailure \/ SocketError \/ Interrupted
             \/ \E p \in Player : Receive(<<p, port[p]>>)
             \/ \E a \in Addr : Retry(a) \/ FirstReply(a)
    BY <2>2, <2>8 DEF SeesReady, SeesFailure, SocketError, Interrupted, Receive,
         FirstPeer, LaterPeer, SuppressRepeat, RelayToAfdev, Retry, FirstReply
  <2>9. CASE UNCHANGED vars
    BY <2>1, <2>9 DEF vars
  <2> QED
    BY <2>3, <2>4, <2>5, <2>6, <2>7, <2>8, <2>9, NextCases
<1>5. Spec => [](Begins => []Survives)
  <2> HIDE DEF Doomed, Survives, Begins
  <2> QED
    BY <1>2, <1>3, <1>4, PTL DEF Spec
<1>6. Spec => []NoLoaderLeft
  BY <1>1, BridgeInvariant, PTL
<1> QED
  BY <1>5, <1>6 DEF ExitLeavesNothing, NoLoaderLeft

(* AFDEV never hears game traffic of an address whose first packet has not *)
(* reached it.                                                             *)
THEOREM HandshakeAlwaysFirst == Spec => HandshakeFirst
<1> DEFINE Quiet == \A a \in Addr : heard'[a] = "game" => heard[a] # "nothing"
<1>1. Inv /\ [Next]_vars => [Quiet]_vars
  <2> SUFFICES ASSUME Inv, Next, NEW a \in Addr, heard'[a] = "game"
               PROVE  heard[a] # "nothing"
    BY DEF vars
  <2>1. ASSUME NEW b \in Addr, RelayToAfdev(b)
        PROVE  heard[a] # "nothing"
    BY <2>1 DEF RelayToAfdev, Inv, BridgeTypes, Latched
  <2>2. ASSUME NEW A \in SUBSET Addr, SendLatched(A)
        PROVE  heard[a] # "nothing"
    BY <2>2, SendLatchedFacts DEF Inv
  <2>3. CASE UNCHANGED heard
    BY <2>3
  <2>4. CASE SeesReady
    BY <2>2, <2>4 DEF SeesReady, Known
  <2>5. CASE \E p \in Player : Receive(<<p, port[p]>>)
    <3>1. PICK b \in Addr : Receive(b)
      BY <2>5, OwnAddress DEF Inv
    <3>2. CASE LaterPeer(b)
      BY <2>2, <3>2 DEF LaterPeer
    <3>3. QED
      BY <2>1, <2>3, <3>1, <3>2 DEF Receive, FirstPeer, SuppressRepeat
  <2>6. CASE \E b \in Addr : Retry(b) \/ FirstReply(b)
    BY <2>2, <2>3, <2>6 DEF Retry, FirstReply
  <2>7. CASE \/ Bind \/ SeesFailure \/ EndAfdev \/ EndLoader
             \/ SocketError \/ Interrupted \/ Terminated
             \/ \E p \in Player : Reconnect(p)
    BY <2>3, <2>7 DEF Bind, SeesFailure, EndAfdev, EndLoader,
                      SocketError, Interrupted, Terminated, Reconnect
  <2>8. CASE \/ LoaderLaunches \/ LoaderWritesPid \/ LoaderReports
             \/ LoaderExits \/ AfdevExits
    BY <2>3, <2>8 DEF LoaderLaunches, LoaderWritesPid, LoaderReports,
                      LoaderExits, AfdevExits
  <2>9. QED
    BY <2>4, <2>5, <2>6, <2>7, <2>8, NextCases
<1>2. QED
  BY <1>1, BridgeInvariant, PTL DEF Spec, HandshakeFirst

-----------------------------------------------------------------------------
(* The stages of a start-up, and what may follow.                          *)
LEMMA StageAfter ==
  /\ "LISTENING" \in Life!After["BOOTING"]
  /\ "SPAWNING" \in Life!After["LISTENING"]
  /\ "AFDEV_READY" \in Life!After["SPAWNING"]
  /\ "READY" \in Life!After["AFDEV_READY"]
  /\ \A s \in {"LISTENING", "SPAWNING", "AFDEV_READY", "READY"} :
        "FAILED" \in Life!After[s]
BY DEF Life!After, Life!Stage

(* A publication is a step of the abstract bridge if its stage is next.    *)
LEMMA PublishSimulates ==
  ASSUME NEW s, Publish(s),
         \/ s \in Life!After[state]
         \/ s = state /\ state # "BOOTING"
  PROVE  [Life!Next]_<<state, file>>
BY DEF Publish, Life!Next, Life!Advance, Life!Republish

(* The bridge implements BridgeLifecycle: whichever peers come and go and  *)
(* whichever writes of the state file are lost, the file shows the stages  *)
(* of one start-up in order.                                               *)
THEOREM BridgeImplementsLifecycle == Spec => LifecycleImplemented
<1>1. Init => Life!Init
  BY DEF Init, Life!Init
<1>2. Inv /\ [Next]_vars => [Life!Next]_<<state, file>>
  <2> SUFFICES ASSUME Inv, [Next]_vars
               PROVE  [Life!Next]_<<state, file>>
    OBVIOUS
  <2>0. /\ Stages
        /\ \A a \in Addr : heard[a] # "nothing" => ready
        /\ ready \in BOOLEAN
        /\ state \in {"BOOTING", "LISTENING", "SPAWNING", "AFDEV_READY", "READY", "FAILED"}
    BY DEF Inv, BridgeTypes, Latched
  <2>1. CASE UNCHANGED <<state, file>>
    BY <2>1
  <2>2. ASSUME Looping, Fail
        PROVE  [Life!Next]_<<state, file>>
    BY <2>0, <2>2, StageAfter, PublishSimulates DEF Looping, Fail, Stages
  <2>3. ASSUME Looping, Publish(state)
        PROVE  [Life!Next]_<<state, file>>
    BY <2>3, PublishSimulates DEF Looping
  <2>4. CASE Bind
    BY <2>1, <2>4, StageAfter, PublishSimulates DEF Bind
  <2>5. CASE SeesReady
    BY <2>0, <2>5, StageAfter, PublishSimulates DEF SeesReady, Looping, Stages
  <2>6. ASSUME NEW a, FirstPeer(a)
        PROVE  [Life!Next]_<<state, file>>
    <3>1. Looping /\ state = "LISTENING"
      BY <2>0, <2>6 DEF FirstPeer, Looping, Stages
    <3>2. Publish("SPAWNING") \/ Fail
      BY <2>6 DEF FirstPeer
    <3>3. QED
      BY <2>2, <3>1, <3>2, StageAfter, PublishSimulates
  <2>7. ASSUME NEW a \in Addr, FirstReply(a)
        PROVE  [Life!Next]_<<state, file>>
    <3>1. state \in {"AFDEV_READY", "READY"} /\ Publish("READY")
      BY <2>0, <2>7 DEF FirstReply, Looping, Stages
    <3>2. QED
      BY <3>1, StageAfter, PublishSimulates
  <2>8. CASE \E p \in Player : Receive(<<p, port[p]>>)
    BY <2>1, <2>3, <2>6, <2>8
    DEF Receive, LaterPeer, SuppressRepeat, RelayToAfdev
  <2>9. CASE \E a \in Addr : Retry(a) \/ FirstReply(a)
    BY <2>3, <2>7, <2>9 DEF Retry
  <2>10. CASE SeesFailure \/ SocketError
    BY <2>2, <2>10 DEF SeesFailure, SocketError
  <2>11. CASE \/ EndAfdev \/ EndLoader \/ Interrupted \/ Terminated
              \/ \E p \in Player : Reconnect(p)
    BY <2>1, <2>11 DEF EndAfdev, EndLoader, Interrupted, Terminated, Reconnect
  <2>12. CASE \/ LoaderLaunches \/ LoaderWritesPid \/ LoaderReports
              \/ LoaderExits \/ AfdevExits \/ UNCHANGED vars
    BY <2>1, <2>12 DEF LoaderLaunches, LoaderWritesPid, LoaderReports,
                       LoaderExits, AfdevExits, vars
  <2>13. QED
    BY <2>4, <2>5, <2>8, <2>9, <2>10, <2>11, <2>12, NextCases
<1>3. QED
  BY <1>1, <1>2, BridgeInvariant, PTL DEF Spec, LifecycleImplemented, Life!Spec

(* What the bridge takes its loader and its AFDEV to be is what the        *)
(* loader's own module provides: each step of either is one the protocol   *)
(* of LoaderProtocol allows, those of the finally block included.          *)
THEOREM LoaderAlwaysReckoned == Spec => LoaderReckoned
<1>1. Init => Loading!Init
  BY DEF Init, Loading!Init
<1>2. [Next]_vars => [Loading!Next]_<<loader, afdev>>
  <2> SUFFICES ASSUME [Next]_vars
               PROVE  [Loading!Next]_<<loader, afdev>>
    OBVIOUS
  <2> USE DEF Loading!Next
  <2>1. CASE UNCHANGED <<loader, afdev>>
    BY <2>1
  <2>2. ASSUME NEW a, FirstPeer(a)
        PROVE  [Loading!Next]_<<loader, afdev>>
    BY <2>2 DEF FirstPeer, Loading!Start
  <2>3. CASE \E p \in Player : Receive(<<p, port[p]>>)
    BY <2>1, <2>2, <2>3 DEF Receive, LaterPeer, SuppressRepeat, RelayToAfdev
  <2>4. CASE LoaderLaunches \/ LoaderWritesPid \/ LoaderReports
    BY <2>4 DEF LoaderLaunches, LoaderWritesPid, LoaderReports,
                Loading!Progress, Loading!Further
  <2>5. CASE EndAfdev \/ EndLoader \/ LoaderExits \/ AfdevExits
    BY <2>5 DEF EndAfdev, EndLoader, LoaderExits, AfdevExits, OnRecord, Loading!End
  <2>6. CASE \/ Bind \/ SeesReady \/ SeesFailure
             \/ SocketError \/ Interrupted \/ Terminated
             \/ \E p \in Player : Reconnect(p)
             \/ \E a \in Addr : Retry(a) \/ FirstReply(a)
    BY <2>1, <2>6 DEF Bind, SeesReady, SeesFailure, SocketError, Interrupted,
                      Terminated, Reconnect, Retry, FirstReply
  <2>7. CASE UNCHANGED vars
    BY <2>1, <2>7 DEF vars
  <2>8. QED
    BY <2>3, <2>4, <2>5, <2>6, <2>7, NextCases
<1>3. QED
  BY <1>1, <1>2, PTL DEF Spec, LoaderReckoned, Loading!Spec

-----------------------------------------------------------------------------
(* Induction: a set of naturals with no least element is empty, so a set   *)
(* with 0 in it and with n + 1 for every n has all of them.                *)
LEMMA LeastNatural ==
  ASSUME NEW S \in SUBSET Nat, S # {}
  PROVE  \E m \in S : \A k \in S : m <= k
<1> DEFINE R == OpToRel(<, Nat)
<1>1. IsWellFoundedOn(R, Nat)
  BY NatLessThanWellFounded
<1>3. \A k, m \in S : k < m => <<k, m>> \in R
  <2> SUFFICES ASSUME NEW k \in S, NEW m \in S, k < m PROVE <<k,m>> \in R
    OBVIOUS
  <2> QED
    BY DEF OpToRel
<1> HIDE DEF R
<1>2. \E m \in S : \A k \in S : <<k, m>> \notin R
  BY <1>1, WFMin
<1>4. PICK m \in S : \A k \in S : <<k, m>> \notin R
  BY <1>2
<1>5. ASSUME NEW k \in S PROVE m <= k
  <2>1. <<k, m>> \notin R
    BY <1>4
  <2>2. ~(k < m)
    BY <1>3, <2>1
  <2>3. k \in Nat /\ m \in Nat
    OBVIOUS
  <2> QED
    BY <2>2, <2>3
<1> QED
  BY <1>4, <1>5

(* So a set with 0 in it, and with n + 1 for every n, has all naturals.    *)
LEMMA SetInduction ==
  ASSUME NEW S, 0 \in S, \A n \in Nat : n \in S => n + 1 \in S
  PROVE  Nat \subseteq S
<1> SUFFICES ASSUME Nat \ S # {} PROVE FALSE
  OBVIOUS
<1>1. PICK m \in Nat \ S : \A k \in Nat \ S : m <= k
  BY LeastNatural
<1>2. m # 0 /\ m - 1 \in Nat /\ m - 1 \in S
  BY <1>1
<1> QED
  BY <1>1, <1>2

(* Quotient and remainder.                                                 *)
LEMMA QuotientUnique ==
  ASSUME NEW p \in Nat \ {0}, NEW k \in Nat, NEW j \in Nat,
         NEW r \in 0 .. p - 1, NEW s \in 0 .. p - 1, p * k + r = p * j + s
  PROVE  k = j /\ r = s
<1>1. ASSUME NEW x \in Nat, NEW y \in Nat, x < y PROVE p * x + p <= p * y
  <2>1. PICK z \in Nat : y = x + 1 + z
    <3>1. y - x - 1 \in Nat
      BY <1>1
    <3> QED
      BY <3>1, y = x + 1 + (y - x - 1)
  <2>2. p * y = p * x + p + p * z
    BY <2>1
  <2>3. p * z \in Nat
    BY <2>1
  <2> QED
    BY <2>2, <2>3
<1>2. CASE k < j
  <2>1. p * k + p <= p * j
    BY <1>1, <1>2
  <2>2. p * k \in Nat /\ p * j \in Nat
    OBVIOUS
  <2> QED
    BY <2>1, <2>2
<1>3. CASE j < k
  <2>1. p * j + p <= p * k
    BY <1>1, <1>3
  <2>2. p * k \in Nat /\ p * j \in Nat
    OBVIOUS
  <2> QED
    BY <2>1, <2>2
<1> QED
  BY <1>2, <1>3

(* What is left of a multiple and a remainder.                             *)
LEMMA RemainderOf ==
  ASSUME NEW p \in Nat \ {0}, NEW k \in Nat, NEW r \in 0 .. p - 1
  PROVE  (p * k + r) % p = r /\ (p * k + r) \div p = k
<1> DEFINE n == p * k + r
           j == n \div p
           s == n % p
<1>1. n \in Nat
  OBVIOUS
<1>2. n = p * j + s /\ j \in Nat /\ s \in 0 .. p - 1
  BY <1>1
<1> HIDE DEF j, s
<1>3. p * k + r = p * j + s
  BY <1>2
<1>4. k = j /\ r = s
  BY <1>2, <1>3, QuotientUnique
<1> QED
  BY <1>4 DEF j, s

(* A function defined by recursion is there when each call is for an       *)
(* argument of a lower rank.                                               *)
Unfolds(f, D, goes, next, g, last) ==
  f = [x \in D |-> IF x \in goes THEN g[x][f[next[x]]] ELSE last[x]]

(* It is there, and its values are of the type of its last ones.           *)
LEMMA RankedRecursion ==
  ASSUME NEW D, NEW V, NEW goes \in SUBSET D, NEW next \in [goes -> D],
         NEW g \in [goes -> [V -> V]], NEW last \in [D -> V], NEW rank \in [D -> Nat],
         \A x \in goes : rank[next[x]] < rank[x]
  PROVE  \E f \in [D -> V] : Unfolds(f, D, goes, next, g, last)
<1> DEFINE Body(f, x) == IF x \in goes THEN g[x][f[next[x]]] ELSE last[x]
           Fits(n) == {f \in [D -> V] : \A x \in D : rank[x] < n => f[x] = Body(f, x)}
<1>0. ASSUME NEW f \in [D -> V], NEW x \in D PROVE Body(f, x) \in V
  <2>1. CASE x \in goes
    <3>1. f[next[x]] \in V /\ g[x] \in [V -> V]
      BY <2>1
    <3> QED
      BY <2>1, <3>1
  <2>2. CASE x \notin goes
    BY <2>2
  <2> QED
    BY <2>1, <2>2
<1>a. ASSUME NEW f \in [D -> V], NEW h \in [D -> V], NEW x \in D,
             x \in goes => f[next[x]] = h[next[x]]
      PROVE  Body(f, x) = Body(h, x)
  BY <1>a
<1>b. \A x \in goes : next[x] \in D
  OBVIOUS
<1> HIDE DEF Body
<1>1. \A n \in Nat : Fits(n) # {}
  <2> DEFINE S == {n \in Nat : Fits(n) # {}}
  <2>1. 0 \in S
    <3>1. last \in Fits(0)
      OBVIOUS
    <3> QED
      BY <3>1
  <2>2. ASSUME NEW n \in Nat, n \in S PROVE n + 1 \in S
    <3>1. PICK f \in [D -> V] : \A x \in D : rank[x] < n => f[x] = Body(f, x)
      BY <2>2
    <3> DEFINE h == [x \in D |-> IF rank[x] < n THEN f[x] ELSE Body(f, x)]
    <3>2. h \in [D -> V]
      BY <1>0
    <3>3. ASSUME NEW x \in D, rank[x] < n + 1 PROVE h[x] = Body(h, x)
      <4>1. h[x] = Body(f, x)
        BY <3>1
      <4>2. ASSUME x \in goes PROVE f[next[x]] = h[next[x]]
        <5>1. next[x] \in D /\ rank[next[x]] < n
          BY <1>b, <3>3, <4>2
        <5> QED
          BY <5>1
      <4>3. Body(f, x) = Body(h, x)
        BY <1>a, <3>2, <4>2
      <4> QED
        BY <4>1, <4>3
    <3> HIDE DEF h
    <3>4. h \in Fits(n + 1)
      BY <3>2, <3>3
    <3> QED
      BY <3>4
  <2> HIDE DEF S
  <2>3. Nat \subseteq S
    BY <2>1, <2>2, SetInduction
  <2> QED
    BY <2>3 DEF S
<1>2. ASSUME NEW n \in Nat, NEW k \in Nat, NEW f \in Fits(n), NEW h \in Fits(k), NEW x \in D,
             rank[x] < n, rank[x] < k
      PROVE  f[x] = h[x]
  <2> DEFINE S == {i \in Nat : \A y \in D :
                     rank[y] < i /\ rank[y] < n /\ rank[y] < k => f[y] = h[y]}
  <2>1. 0 \in S
    OBVIOUS
  <2>2. ASSUME NEW i \in Nat, i \in S PROVE i + 1 \in S
    <3>1. SUFFICES ASSUME NEW y \in D, rank[y] < i + 1, rank[y] < n, rank[y] < k
                   PROVE  f[y] = h[y]
      OBVIOUS
    <3>2. f[y] = Body(f, y) /\ h[y] = Body(h, y)
      BY <3>1
    <3>3. ASSUME y \in goes PROVE f[next[y]] = h[next[y]]
      <4>1. next[y] \in D /\ rank[next[y]] < rank[y] /\ rank[next[y]] \in Nat /\ rank[y] \in Nat
        BY <1>b, <3>3
      <4> QED
        BY <2>2, <3>1, <4>1
    <3>4. Body(f, y) = Body(h, y)
      BY <1>a, <3>3
    <3> QED
      BY <3>2, <3>4
  <2> HIDE DEF S
  <2>3. Nat \subseteq S
    BY <2>1, <2>2, SetInduction
  <2>4. rank[x] + 1 \in S
    BY <2>3
  <2> QED
    BY <1>2, <2>4 DEF S
<1> DEFINE part(n) == CHOOSE f \in Fits(n) : TRUE
           F == [x \in D |-> part(rank[x] + 1)[x]]
<1>3. \A n \in Nat : part(n) \in Fits(n)
  BY <1>1
<1> HIDE DEF part
<1>4. F \in [D -> V]
  <2>1. ASSUME NEW x \in D PROVE part(rank[x] + 1)[x] \in V
    <3>1. part(rank[x] + 1) \in [D -> V]
      BY <1>3
    <3> QED
      BY <3>1
  <2> QED
    BY <2>1
<1>5. ASSUME NEW x \in D PROVE F[x] = Body(F, x)
  <2> DEFINE p == part(rank[x] + 1)
  <2>1. p \in Fits(rank[x] + 1) /\ p \in [D -> V]
    BY <1>3
  <2>2. F[x] = Body(p, x)
    BY <2>1
  <2>3. ASSUME x \in goes PROVE p[next[x]] = F[next[x]]
    <3>1. next[x] \in D /\ rank[next[x]] < rank[x] /\ rank[next[x]] \in Nat /\ rank[x] \in Nat
      BY <1>b, <2>3
    <3>2. part(rank[next[x]] + 1) \in Fits(rank[next[x]] + 1)
      BY <1>3, <3>1
    <3>3. p[next[x]] = part(rank[next[x]] + 1)[next[x]]
      <4> HIDE DEF Fits, p
      <4> QED
        BY <1>2, <2>1, <3>1, <3>2
    <3> QED
      BY <3>1, <3>3
  <2> HIDE DEF F
  <2>4. Body(p, x) = Body(F, x)
    BY <1>4, <1>a, <2>1, <2>3
  <2> QED
    BY <2>2, <2>4
<1> HIDE DEF F
<1>6. F = [x \in D |-> Body(F, x)]
  BY <1>4, <1>5
<1> QED
  BY <1>4, <1>6 DEF Unfolds, Body

(* The same for a loop of n turns.                                         *)
Turns(f, n, v, g) == f = [i \in 0 .. n |-> IF i = 0 THEN v ELSE g[i][f[i - 1]]]

(* A loop over 0 .. n that turns one value into the next.                  *)
LEMMA LoopRecursion ==
  ASSUME NEW V, NEW n \in Nat, NEW v \in V, NEW g \in [1 .. n -> [V -> V]]
  PROVE  \E f \in [0 .. n -> V] : Turns(f, n, v, g)
<1> DEFINE D == 0 .. n
           next == [i \in 1 .. n |-> i - 1]
           last == [i \in D |-> v]
           rank == [i \in D |-> i]
<1>1. \E f \in [D -> V] : Turns(f, n, v, g)
  <2>1. PICK f \in [D -> V] : Unfolds(f, D, 1 .. n, next, g, last)
    <3>1. /\ 1 .. n \in SUBSET D /\ next \in [1 .. n -> D]
          /\ last \in [D -> V] /\ rank \in [D -> Nat]
          /\ \A x \in 1 .. n : rank[next[x]] < rank[x]
      OBVIOUS
    <3> HIDE DEF next, last, rank, D
    <3> QED
      BY <3>1, RankedRecursion
  <2>2. f = [i \in D |-> IF i \in 1 .. n THEN g[i][f[next[i]]] ELSE last[i]]
    BY <2>1 DEF Unfolds
  <2>3. \A i \in D : /\ i \in 1 .. n <=> i # 0
                     /\ i # 0 => next[i] = i - 1
                     /\ last[i] = v
    OBVIOUS
  <2> HIDE DEF next, last, rank
  <2>4. Turns(f, n, v, g)
    BY <2>2, <2>3 DEF Turns
  <2> QED
    BY <2>4
<1> QED
  BY <1>1

-----------------------------------------------------------------------------
(* The powers of two.                                                      *)
LEMMA TwoToStep ==
  /\ TwoTo \in [Nat -> Nat]
  /\ TwoTo[0] = 1
  /\ \A n \in Nat : TwoTo[n + 1] = 2 * TwoTo[n] /\ TwoTo[n] > n
<1> DEFINE g == [n \in Nat \ {0} |-> [v \in Nat |-> 2 * v]]
           next == [n \in Nat \ {0} |-> n - 1]
           last == [n \in Nat |-> 1]
           rank == [n \in Nat |-> n]
<1>1. \E f \in [Nat -> Nat] : f = [n \in Nat |-> IF n = 0 THEN 1 ELSE 2 * f[n - 1]]
  <2>1. PICK f \in [Nat -> Nat] : Unfolds(f, Nat, Nat \ {0}, next, g, last)
    <3>1. /\ Nat \ {0} \in SUBSET Nat /\ next \in [Nat \ {0} -> Nat]
          /\ g \in [Nat \ {0} -> [Nat -> Nat]] /\ last \in [Nat -> Nat] /\ rank \in [Nat -> Nat]
          /\ \A x \in Nat \ {0} : rank[next[x]] < rank[x]
      OBVIOUS
    <3> HIDE DEF g, next, last, rank
    <3> QED
      BY <3>1, RankedRecursion
  <2>2. f = [n \in Nat |-> IF n \in Nat \ {0} THEN g[n][f[next[n]]] ELSE last[n]]
    BY <2>1 DEF Unfolds
  <2>3. \A n \in Nat \ {0} : next[n] = n - 1 /\ n - 1 \in Nat /\ g[n][f[n - 1]] = 2 * f[n - 1]
    OBVIOUS
  <2>4. \A n \in Nat : f[n] = IF n = 0 THEN 1 ELSE 2 * f[n - 1]
    BY <2>2, <2>3
  <2> QED
    BY <2>4
<1>2. TwoTo = [n \in Nat |-> IF n = 0 THEN 1 ELSE 2 * TwoTo[n - 1]]
  BY <1>1 DEF TwoTo
<1>3. TwoTo[0] = 1
  BY <1>2
<1>4. ASSUME NEW n \in Nat PROVE TwoTo[n + 1] = 2 * TwoTo[n]
  BY <1>2
<1>5. \A n \in Nat : TwoTo[n] \in Nat /\ TwoTo[n] > n
  <2> DEFINE S == {n \in Nat : TwoTo[n] \in Nat /\ TwoTo[n] > n}
  <2>1. 0 \in S
    BY <1>3
  <2>2. ASSUME NEW n \in Nat, n \in S PROVE n + 1 \in S
    BY <1>4, <2>2
  <2> HIDE DEF S
  <2>3. Nat \subseteq S
    BY <2>1, <2>2, SetInduction
  <2> QED
    BY <2>3 DEF S
<1>6. TwoTo \in [Nat -> Nat]
  BY <1>2, <1>5
<1> QED
  BY <1>3, <1>4, <1>5, <1>6

(* A power of two is never zero.                                           *)
LEMMA TwoToPositive ==
  ASSUME NEW n \in Nat
  PROVE  TwoTo[n] \in Nat \ {0}
BY TwoToStep

(* A width is wide enough.                                                 *)
LEMMA WidthEnough ==
  ASSUME NEW max \in Nat
  PROVE  IntWidth(max) \in Nat /\ TwoTo[IntWidth(max)] >= max
<1> DEFINE S == {n \in 0 .. max : TwoTo[n] >= max}
<1>1. max \in S
  BY TwoToStep
<1>2. PICK n \in S : \A k \in S : n <= k
  <2>1. S \in SUBSET Nat /\ S # {}
    BY <1>1
  <2> HIDE DEF S
  <2> QED
    BY <2>1, LeastNatural
<1>3. TwoTo[n] >= max /\ \A m \in 0 .. n - 1 : TwoTo[m] < max
  BY <1>2, TwoToStep
<1>4. \E k \in 0 .. max : TwoTo[k] >= max /\ \A m \in 0 .. k - 1 : TwoTo[m] < max
  BY <1>3
<1> HIDE DEF S
<1>5. IntWidth(max) \in 0 .. max /\ TwoTo[IntWidth(max)] >= max
  BY <1>4 DEF IntWidth
<1> QED
  BY <1>5

-----------------------------------------------------------------------------
(* Bits.                                                                   *)
Zero1 == {0, 1}

(* What is read is a bit, behind the end as well.                          *)
LEMMA BitIsBit ==
  ASSUME NEW bits \in Seq(Zero1), NEW pos \in Nat
  PROVE  Bit(bits, pos) \in Zero1
BY DEF Bit, Zero1

(* A number is written in bits.                                            *)
LEMMA BitsType ==
  ASSUME NEW value \in Nat, NEW n \in Nat
  PROVE  /\ Bits(value, n) \in Seq(Zero1)
         /\ Len(Bits(value, n)) = n
         /\ \A i \in 1 .. n : Bits(value, n)[i] = (value \div TwoTo[i - 1]) % 2
<1>1. ASSUME NEW i \in 1 .. n PROVE (value \div TwoTo[i - 1]) % 2 \in Zero1
  <2>1. value \div TwoTo[i - 1] \in Nat
    BY TwoToPositive
  <2> QED
    BY <2>1 DEF Zero1
<1> QED
  BY <1>1 DEF Bits

(* What reading bits does.                                                 *)
Weight(bits, pos, i) == Bit(bits, pos + i - 1) * TwoTo[i - 1]

(* Reading a number adds up the weights of its bits.                       *)
LEMMA ReadsBits ==
  ASSUME NEW bits \in Seq(Zero1), NEW pos \in Nat, NEW n \in Nat
  PROVE  \E v \in [0 .. n -> Nat] :
            /\ v[0] = 0
            /\ \A i \in 1 .. n : v[i] = v[i - 1] + Weight(bits, pos, i)
            /\ ReadBits(bits, pos, n) = v[n]
<1> DEFINE g == [i \in 1 .. n |-> [x \in Nat |-> x + Weight(bits, pos, i)]]
           v == CHOOSE w : w = [i \in 0 .. n |->
                                  IF i = 0 THEN 0 ELSE w[i - 1] + Bit(bits, pos + i - 1) * TwoTo[i - 1]]
<1>1. ASSUME NEW i \in 1 .. n PROVE Weight(bits, pos, i) \in Nat
  <2>1. Bit(bits, pos + i - 1) \in Nat
    BY BitIsBit DEF Zero1
  <2>2. TwoTo[i - 1] \in Nat
    BY TwoToPositive
  <2> QED
    BY <2>1, <2>2 DEF Weight
<1>2. g \in [1 .. n -> [Nat -> Nat]]
  BY <1>1
<1>3. \A i \in 1 .. n, x \in Nat : g[i][x] = x + Weight(bits, pos, i)
  OBVIOUS
<1> HIDE DEF g
<1>4. PICK w \in [0 .. n -> Nat] : Turns(w, n, 0, g)
  BY <1>2, LoopRecursion
<1>6. w = [i \in 0 .. n |-> IF i = 0 THEN 0 ELSE g[i][w[i - 1]]]
  BY <1>4 DEF Turns
<1>7. \A i \in 0 .. n : i # 0 => i \in 1 .. n /\ w[i - 1] \in Nat
  OBVIOUS
<1>8. w = [i \in 0 .. n |-> IF i = 0 THEN 0 ELSE w[i - 1] + Weight(bits, pos, i)]
  BY <1>3, <1>6, <1>7
<1>9. v = [i \in 0 .. n |-> IF i = 0 THEN 0 ELSE v[i - 1] + Weight(bits, pos, i)]
  BY <1>8 DEF Weight
<1>10. ReadBits(bits, pos, n) = v[n]
  BY DEF ReadBits
<1> HIDE DEF v
<1>11. v[0] = 0
  BY <1>9
<1>12. ASSUME NEW i \in 1 .. n PROVE v[i] = v[i - 1] + Weight(bits, pos, i)
  BY <1>9
<1>13. v \in [0 .. n -> Nat]
  <2> DEFINE S == {i \in Nat : i <= n => v[i] \in Nat}
  <2>1. 0 \in S
    BY <1>11
  <2>2. ASSUME NEW i \in Nat, i \in S PROVE i + 1 \in S
    <3>1. SUFFICES ASSUME i + 1 <= n PROVE v[i + 1] \in Nat
      OBVIOUS
    <3>2. i + 1 \in 1 .. n /\ i + 1 - 1 = i /\ v[i] \in Nat
      BY <2>2, <3>1
    <3> QED
      BY <1>1, <1>12, <3>2
  <2> HIDE DEF S
  <2>3. Nat \subseteq S
    BY <2>1, <2>2, SetInduction
  <2>4. \A i \in 0 .. n : v[i] \in Nat
    BY <2>3 DEF S
  <2> QED
    BY <1>9, <2>4
<1> QED
  BY <1>10, <1>11, <1>12, <1>13

(* A number is its lowest bits and the next one.                           *)
LEMMA NextBit ==
  ASSUME NEW value \in Nat, NEW t \in Nat \ {0}
  PROVE  value % (2 * t) = (value % t) + ((value \div t) % 2) * t
<1> DEFINE q == value \div t
           r == value % t
           h == q \div 2
           b == q % 2
<1>1. value = t * q + r /\ q \in Nat /\ r \in 0 .. t - 1
  OBVIOUS
<1> HIDE DEF q, r
<1>2. q = 2 * h + b /\ h \in Nat /\ b \in {0, 1}
  BY <1>1
<1> HIDE DEF h, b
<1>3. t * q = (2 * t) * h + b * t
  <2>1. CASE b = 0
    BY <1>2, <2>1
  <2>2. CASE b = 1
    BY <1>2, <2>2
  <2> QED
    BY <1>2, <2>1, <2>2
<1>4. b * t + r \in 0 .. (2 * t) - 1 /\ b * t \in Nat
  BY <1>1, <1>2
<1>5. value = (2 * t) * h + (b * t + r)
  <2>1. (2 * t) * h \in Nat
    BY <1>2
  <2>2. \A x, y, z \in Int : (x + y) + z = x + (y + z)
    OBVIOUS
  <2>3. value = ((2 * t) * h + b * t) + r
    BY <1>1, <1>3
  <2>4. (2 * t) * h \in Int /\ b * t \in Int /\ r \in Int
    BY <1>1, <1>4, <2>1
  <2> QED
    BY <2>2, <2>3, <2>4
<1>6. value % (2 * t) = b * t + r
  <2>1. 2 * t \in Nat \ {0}
    OBVIOUS
  <2> HIDE <1>3
  <2> QED
    BY <1>2, <1>4, <1>5, <2>1, RemainderOf
<1> QED
  BY <1>1, <1>4, <1>6 DEF r, b, q

(* A stretch of bits is there.                                             *)
At(bits, pos, s) == \A i \in 1 .. Len(s) : Bit(bits, pos + i - 1) = s[i]

(* A number that fits is read back.                                        *)
LEMMA ReadsBack ==
  ASSUME NEW bits \in Seq(Zero1), NEW pos \in Nat, NEW n \in Nat, NEW value \in Nat,
         value < TwoTo[n], At(bits, pos, Bits(value, n))
  PROVE  ReadBits(bits, pos, n) = value
<1>1. PICK v \in [0 .. n -> Nat] :
            /\ v[0] = 0
            /\ \A i \in 1 .. n : v[i] = v[i - 1] + Weight(bits, pos, i)
            /\ ReadBits(bits, pos, n) = v[n]
  BY ReadsBits
<1> DEFINE S == {i \in Nat : i <= n => v[i] = value % TwoTo[i]}
<1>2. 0 \in S
  BY <1>1, TwoToStep
<1>3. ASSUME NEW i \in Nat, i \in S PROVE i + 1 \in S
  <2>1. SUFFICES ASSUME i + 1 <= n PROVE v[i + 1] = value % TwoTo[i + 1]
    OBVIOUS
  <2>2. i + 1 \in 1 .. n /\ i + 1 - 1 = i
    BY <2>1
  <2>3. Bit(bits, pos + (i + 1) - 1) = (value \div TwoTo[i]) % 2
    <3>1. Len(Bits(value, n)) = n /\ Bits(value, n)[i + 1] = (value \div TwoTo[(i + 1) - 1]) % 2
      BY <2>2, BitsType
    <3> QED
      BY <2>2, <3>1 DEF At
  <2>4. v[i + 1] = v[i] + Weight(bits, pos, i + 1)
    BY <1>1, <2>2
  <2>5. v[i + 1] = (value % TwoTo[i]) + ((value \div TwoTo[i]) % 2) * TwoTo[i]
    BY <1>3, <2>1, <2>2, <2>3, <2>4 DEF Weight
  <2>6. TwoTo[i] \in Nat \ {0} /\ TwoTo[i + 1] = 2 * TwoTo[i]
    BY TwoToStep, TwoToPositive
  <2> QED
    BY <2>5, <2>6, NextBit
<1> HIDE DEF S
<1>4. Nat \subseteq S
  BY <1>2, <1>3, SetInduction
<1>5. v[n] = value % TwoTo[n]
  BY <1>4 DEF S
<1>6. value % TwoTo[n] = value
  <2>1. TwoTo[n] \in Nat \ {0} /\ value \in 0 .. TwoTo[n] - 1 /\ 0 \in Nat
    BY TwoToPositive
  <2>2. (TwoTo[n] * 0 + value) % TwoTo[n] = value
    BY <2>1, RemainderOf
  <2> QED
    BY <2>1, <2>2
<1> QED
  BY <1>1, <1>5, <1>6

(* SerializeInt: any number below max is read back.                        *)
LEMMA IntReadsBack ==
  ASSUME NEW bits \in Seq(Zero1), NEW pos \in Nat, NEW max \in Nat, NEW value \in Nat,
         value < max, At(bits, pos, WriteInt(value, max))
  PROVE  ReadInt(bits, pos, max) = value
<1>1. IntWidth(max) \in Nat /\ value < TwoTo[IntWidth(max)]
  <2>1. IntWidth(max) \in Nat /\ TwoTo[IntWidth(max)] >= max
    BY WidthEnough
  <2>2. TwoTo[IntWidth(max)] \in Nat
    BY <2>1, TwoToPositive
  <2> QED
    BY <2>1, <2>2
<1> QED
  BY <1>1, ReadsBack DEF ReadInt, WriteInt

(* Its bits, and how many they are.                                        *)
LEMMA WriteIntType ==
  ASSUME NEW max \in Nat, NEW value \in Nat
  PROVE  WriteInt(value, max) \in Seq(Zero1) /\ Len(WriteInt(value, max)) = IntWidth(max)
BY WidthEnough, BitsType DEF WriteInt

(* Reading a number gives a number.                                        *)
LEMMA ReadIntType ==
  ASSUME NEW bits \in Seq(Zero1), NEW pos \in Nat, NEW max \in Nat
  PROVE  ReadInt(bits, pos, max) \in Nat
<1>1. IntWidth(max) \in Nat
  BY WidthEnough
<1>2. PICK v \in [0 .. IntWidth(max) -> Nat] : ReadBits(bits, pos, IntWidth(max)) = v[IntWidth(max)]
  BY <1>1, ReadsBits
<1> QED
  BY <1>1, <1>2 DEF ReadInt

(* What is at a place is its first part, and its second part behind it.    *)
LEMMA AtBoth ==
  ASSUME NEW bits \in Seq(Zero1), NEW pos \in Nat, NEW s \in Seq(Zero1), NEW t \in Seq(Zero1)
  PROVE  At(bits, pos, s \o t) => At(bits, pos, s) /\ At(bits, pos + Len(s), t)
<1> SUFFICES ASSUME At(bits, pos, s \o t)
             PROVE  At(bits, pos, s) /\ At(bits, pos + Len(s), t)
  OBVIOUS
<1>1. /\ Len(s \o t) = Len(s) + Len(t)
      /\ \A i \in 1 .. Len(s) + Len(t) : (s \o t)[i] = IF i <= Len(s) THEN s[i] ELSE t[i - Len(s)]
  BY ConcatProperties
<1>2. Len(s) \in Nat /\ Len(t) \in Nat
  OBVIOUS
<1>3. \A i \in 1 .. Len(s) + Len(t) : Bit(bits, pos + i - 1) = (s \o t)[i]
  BY <1>1 DEF At
<1>4. ASSUME NEW i \in 1 .. Len(s) PROVE Bit(bits, pos + i - 1) = s[i]
  BY <1>1, <1>2, <1>3
<1>5. ASSUME NEW i \in 1 .. Len(t) PROVE Bit(bits, (pos + Len(s)) + i - 1) = t[i]
  <2>1. i + Len(s) \in 1 .. Len(s) + Len(t) /\ ~(i + Len(s) <= Len(s)) /\ (i + Len(s)) - Len(s) = i
    BY <1>2
  <2>2. Bit(bits, pos + (i + Len(s)) - 1) = t[i]
    BY <1>1, <1>3, <2>1
  <2>3. pos + (i + Len(s)) - 1 = (pos + Len(s)) + i - 1
    BY <1>2
  <2> QED
    BY <2>2, <2>3
<1> QED
  BY <1>4, <1>5 DEF At

-----------------------------------------------------------------------------
(* Rounding up.                                                            *)
LEMMA RoundsUp ==
  ASSUME NEW n \in Nat, NEW m \in Nat \ {0}
  PROVE  \E k \in Nat : RoundUp(n, m) = m * k /\ n <= m * k
<1> DEFINE k == (n + m - 1) \div m
           r == (n + m - 1) % m
<1>1. n + m - 1 \in Nat
  OBVIOUS
<1>2. n + m - 1 = m * k + r /\ k \in Nat /\ r \in 0 .. m - 1
  <2> DEFINE x == n + m - 1
  <2> HIDE DEF x
  <2>1. x \in Nat
    BY <1>1 DEF x
  <2>2. x = m * (x \div m) + (x % m) /\ x \div m \in Nat /\ x % m \in 0 .. m - 1
    BY <2>1
  <2> QED
    BY <2>2 DEF x
<1>3. RoundUp(n, m) = k * m
  BY DEF RoundUp
<1> HIDE DEF k, r
<1>4. k * m = m * k /\ m * k \in Nat
  BY <1>2
<1>5. n <= m * k
  BY <1>2, <1>4
<1> QED
  BY <1>2, <1>3, <1>4, <1>5

(* Rounding up what is whole changes nothing.                              *)
LEMMA RoundedAlready ==
  ASSUME NEW k \in Nat, NEW m \in Nat \ {0}
  PROVE  RoundUp(m * k, m) = m * k /\ (m * k) \div m = k /\ (m * k) % m = 0
<1>1. m - 1 \in 0 .. m - 1 /\ 0 \in 0 .. m - 1
  OBVIOUS
<1>2. (m * k + (m - 1)) \div m = k
  BY <1>1, RemainderOf
<1>3. (m * k + 0) \div m = k /\ (m * k + 0) % m = 0
  BY <1>1, RemainderOf
<1>4. m * k \in Nat /\ k * m = m * k
  OBVIOUS
<1>5. m * k + m - 1 = m * k + (m - 1) /\ m * k + 0 = m * k
  BY <1>4
<1>6. RoundUp(m * k, m) = k * m
  BY <1>2, <1>5 DEF RoundUp
<1> QED
  BY <1>3, <1>4, <1>5, <1>6

(* What is padded is at the front of it, zeroes are behind it, and it is   *)
(* of whole units.                                                         *)
LEMMA PaddedIs ==
  ASSUME NEW bits \in Seq(Zero1), NEW m \in Nat \ {0}
  PROVE  /\ Padded(bits, m) \in Seq(Zero1)
         /\ \E k \in Nat : Len(Padded(bits, m)) = m * k /\ Len(bits) <= m * k
         /\ \A i \in Nat : Bit(Padded(bits, m), i) = Bit(bits, i)
<1>1. PICK k \in Nat : RoundUp(Len(bits), m) = m * k /\ Len(bits) <= m * k
  <2>1. Len(bits) \in Nat
    OBVIOUS
  <2> QED
    BY <2>1, RoundsUp
<1> DEFINE n == m * k
<1>2. n \in Nat
  OBVIOUS
<1> HIDE DEF n
<1>3. Padded(bits, m) = [i \in 1 .. n |-> Bit(bits, i - 1)]
  BY <1>1 DEF Padded, n
<1>4. \A i \in 1 .. n : Bit(bits, i - 1) \in Zero1
  BY <1>2, BitIsBit
<1>5. Padded(bits, m) \in Seq(Zero1) /\ Len(Padded(bits, m)) = n
  BY <1>2, <1>3, <1>4
<1>6. ASSUME NEW i \in Nat PROVE Bit(Padded(bits, m), i) = Bit(bits, i)
  <2>1. CASE i < n
    <3>1. i + 1 \in 1 .. n /\ (i + 1) - 1 = i
      BY <1>2, <2>1
    <3>2. Padded(bits, m)[i + 1] = Bit(bits, i)
      BY <1>3, <3>1
    <3> QED
      BY <1>5, <2>1, <3>2 DEF Bit
  <2>2. CASE ~(i < n)
    <3>1. ~(i < Len(bits))
      BY <1>1, <1>2, <2>2 DEF n
    <3> QED
      BY <1>5, <2>2, <3>1 DEF Bit
  <2> QED
    BY <2>1, <2>2
<1> QED
  BY <1>1, <1>5, <1>6 DEF n

-----------------------------------------------------------------------------
(* Payloads.                                                               *)
ByteValue == 0 .. TwoTo[Byte] - 1

(* A byte has four bits at least.                                          *)
LEMMA ByteFacts == Byte \in Nat \ {0} /\ Byte >= 4 /\ TwoTo[Byte] \in Nat /\ TwoTo[Byte] >= 16
<1>1. Byte \in Nat \ {0} /\ Byte >= 4
  BY StubAssumption
<1>2. TwoTo[1] = 2 /\ TwoTo[2] = 4 /\ TwoTo[3] = 8 /\ TwoTo[4] = 16
  <2>1. TwoTo[0] = 1 /\ TwoTo[0 + 1] = 2 * TwoTo[0] /\ TwoTo[1 + 1] = 2 * TwoTo[1]
        /\ TwoTo[2 + 1] = 2 * TwoTo[2] /\ TwoTo[3 + 1] = 2 * TwoTo[3]
    BY TwoToStep
  <2> QED
    BY <2>1
<1>3. \A n \in Nat : n >= 4 => TwoTo[n] >= 16
  <2> DEFINE S == {n \in Nat : n >= 4 => TwoTo[n] >= 16}
  <2>1. 0 \in S
    OBVIOUS
  <2>2. ASSUME NEW n \in Nat, n \in S PROVE n + 1 \in S
    <3>1. TwoTo[n + 1] = 2 * TwoTo[n] /\ TwoTo[n] \in Nat
      BY TwoToStep
    <3>2. CASE n >= 4
      BY <2>2, <3>1, <3>2
    <3>3. CASE n < 4
      BY <1>2, <3>3
    <3> QED
      BY <3>2, <3>3
  <2> HIDE DEF S
  <2>3. Nat \subseteq S
    BY <2>1, <2>2, SetInduction
  <2> QED
    BY <2>3 DEF S
<1>4. TwoTo[Byte] \in Nat
  BY <1>1, TwoToPositive
<1> QED
  BY <1>1, <1>3, <1>4

(* The bits of a payload, and how many they are.                           *)
LEMMA ToBitsType ==
  ASSUME NEW payload \in Seq(ByteValue)
  PROVE  /\ ToBits(payload) \in Seq(Zero1)
         /\ Len(ToBits(payload)) = Byte * Len(payload)
         /\ Byte * Len(payload) \in Nat
         /\ \A i \in 1 .. Len(payload), j \in 1 .. Byte :
              /\ (i - 1) * Byte + (j - 1) \in 0 .. Byte * Len(payload) - 1
              /\ ToBits(payload)[(i - 1) * Byte + (j - 1) + 1] = (payload[i] \div TwoTo[j - 1]) % 2
<1> DEFINE n == Byte * Len(payload)
           value(i) == (payload[(i - 1) \div Byte + 1] \div TwoTo[(i - 1) % Byte]) % 2
<1>1. n \in Nat /\ Len(payload) \in Nat /\ Byte \in Nat \ {0}
  BY ByteFacts
<1>2. ASSUME NEW i \in 1 .. Len(payload), NEW j \in 1 .. Byte
      PROVE  /\ (i - 1) * Byte + (j - 1) \in 0 .. n - 1
             /\ ((i - 1) * Byte + (j - 1)) \div Byte = i - 1
             /\ ((i - 1) * Byte + (j - 1)) % Byte = j - 1
  <2>1. i - 1 \in Nat /\ j - 1 \in 0 .. Byte - 1
    BY <1>1
  <2>2. (Byte * (i - 1) + (j - 1)) % Byte = j - 1 /\ (Byte * (i - 1) + (j - 1)) \div Byte = i - 1
    BY <1>1, <2>1, RemainderOf
  <2>3. (i - 1) * Byte = Byte * (i - 1) /\ Byte * (i - 1) \in Nat
    BY <1>1, <2>1
  <2>4. Byte * (i - 1) + Byte <= n
    <3>1. PICK k \in Nat : Len(payload) = (i - 1) + 1 + k
      <4>1. Len(payload) - i \in Nat /\ Len(payload) = (i - 1) + 1 + (Len(payload) - i)
        BY <1>1
      <4> QED
        BY <4>1
    <3>2. n = Byte * (i - 1) + Byte + Byte * k
      BY <1>1, <2>1, <3>1
    <3>3. Byte * k \in Nat
      BY <1>1
    <3> HIDE DEF n
    <3> QED
      BY <1>1, <2>3, <3>2, <3>3
  <2> HIDE DEF n
  <2> QED
    BY <1>1, <2>1, <2>2, <2>3, <2>4
<1>3. ASSUME NEW x \in 1 .. n PROVE value(x) \in Zero1
  <2>1. x - 1 \in Nat
    BY <1>1
  <2>2. (x - 1) = Byte * ((x - 1) \div Byte) + ((x - 1) % Byte)
        /\ (x - 1) \div Byte \in Nat /\ (x - 1) % Byte \in 0 .. Byte - 1
    BY <1>1, <2>1
  <2> DEFINE q == (x - 1) \div Byte
             r == (x - 1) % Byte
  <2> HIDE DEF q, r
  <2>3. q + 1 \in 1 .. Len(payload)
    <3>1. x - 1 = Byte * q + r /\ q \in Nat /\ r \in 0 .. Byte - 1
      BY <2>2 DEF q, r
    <3>2. SUFFICES ASSUME q >= Len(payload) PROVE FALSE
      BY <1>1, <3>1
    <3>3. PICK k \in Nat : q = Len(payload) + k
      <4>1. q - Len(payload) \in Nat /\ q = Len(payload) + (q - Len(payload))
        BY <1>1, <3>1, <3>2
      <4> QED
        BY <4>1
    <3>4. Byte * q = n + Byte * k /\ Byte * k \in Nat
      BY <1>1, <3>3
    <3> HIDE DEF n
    <3> QED
      BY <1>1, <3>1, <3>4
  <2>4. payload[q + 1] \in Nat /\ TwoTo[r] \in Nat \ {0}
    <3>1. r \in Nat
      BY <1>1, <2>2 DEF r
    <3> QED
      BY <2>3, <3>1, TwoToPositive, ByteFacts DEF ByteValue
  <2>5. (payload[q + 1] \div TwoTo[r]) % 2 \in Zero1
    <3>1. payload[q + 1] \div TwoTo[r] \in Nat
      BY <2>4
    <3> QED
      BY <3>1 DEF Zero1
  <2> QED
    BY <2>5 DEF q, r
<1>4. ToBits(payload) = [i \in 1 .. n |-> value(i)]
  BY DEF ToBits
<1>5. ToBits(payload) \in Seq(Zero1) /\ Len(ToBits(payload)) = n
  <2> HIDE DEF n, value
  <2> QED
    BY <1>1, <1>3, <1>4
<1>6. ASSUME NEW i \in 1 .. Len(payload), NEW j \in 1 .. Byte
      PROVE  ToBits(payload)[(i - 1) * Byte + (j - 1) + 1] = (payload[i] \div TwoTo[j - 1]) % 2
  <2> DEFINE x == (i - 1) * Byte + (j - 1)
  <2>1. x \in 0 .. n - 1 /\ x \div Byte = i - 1 /\ x % Byte = j - 1
    BY <1>2
  <2> HIDE DEF x, n
  <2>2. x + 1 \in 1 .. n /\ (x + 1) - 1 = x
    BY <1>1, <2>1
  <2>3. ToBits(payload)[x + 1] = value(x + 1)
    BY <1>4, <2>2
  <2>4. value(x + 1) = (payload[(i - 1) + 1] \div TwoTo[j - 1]) % 2
    BY <2>1, <2>2
  <2>5. (i - 1) + 1 = i
    BY <1>1
  <2> QED
    BY <2>3, <2>4, <2>5 DEF x
<1> QED
  BY <1>1, <1>2, <1>5, <1>6

(* Bytes come back as they were.                                           *)
LEMMA BytesBack ==
  ASSUME NEW payload \in Seq(ByteValue)
  PROVE  ToBytes(ToBits(payload)) = payload
<1> DEFINE bits == ToBits(payload)
           n == Byte * Len(payload)
<1>1. bits \in Seq(Zero1) /\ Len(bits) = n /\ n \in Nat
  BY ToBitsType
<1>2. RoundUp(n, Byte) \div Byte = Len(payload)
  <2>1. Len(payload) \in Nat /\ Byte \in Nat \ {0}
    BY ByteFacts
  <2>2. RoundUp(Byte * Len(payload), Byte) = Byte * Len(payload)
        /\ (Byte * Len(payload)) \div Byte = Len(payload)
    BY <2>1, RoundedAlready
  <2> QED
    BY <2>2
<1>3. ASSUME NEW i \in 1 .. Len(payload) PROVE ReadBits(bits, (i - 1) * Byte, Byte) = payload[i]
  <2>1. payload[i] \in Nat /\ payload[i] < TwoTo[Byte]
    BY ByteFacts DEF ByteValue
  <2>2. (i - 1) * Byte \in Nat /\ Byte \in Nat
    <3>1. i - 1 \in Nat
      OBVIOUS
    <3> QED
      BY <3>1, ByteFacts
  <2>3. ASSUME NEW j \in 1 .. Byte
        PROVE  Bit(bits, (i - 1) * Byte + j - 1) = Bits(payload[i], Byte)[j]
    <3>1. /\ (i - 1) * Byte + (j - 1) \in 0 .. n - 1
          /\ bits[(i - 1) * Byte + (j - 1) + 1] = (payload[i] \div TwoTo[j - 1]) % 2
      BY ToBitsType
    <3>2. (i - 1) * Byte + j - 1 = (i - 1) * Byte + (j - 1)
      BY <2>2
    <3>3. Bits(payload[i], Byte)[j] = (payload[i] \div TwoTo[j - 1]) % 2
      BY <2>1, <2>2, BitsType
    <3> HIDE DEF n, bits
    <3> QED
      BY <1>1, <3>1, <3>2, <3>3 DEF Bit
  <2>4. At(bits, (i - 1) * Byte, Bits(payload[i], Byte))
    <3>1. Len(Bits(payload[i], Byte)) = Byte
      BY <2>1, <2>2, BitsType
    <3> HIDE DEF bits
    <3> QED
      BY <2>3, <3>1 DEF At
  <2> HIDE DEF bits
  <2> QED
    BY <1>1, <2>1, <2>2, <2>4, ReadsBack
<1> HIDE DEF bits
<1>4. ToBytes(bits) = [i \in 1 .. Len(payload) |-> payload[i]]
  BY <1>1, <1>2, <1>3 DEF ToBytes
<1> QED
  BY <1>4 DEF bits

(* A stretch that is there can be cut out.                                 *)
LEMMA CutOut ==
  ASSUME NEW bits \in Seq(Zero1), NEW pos \in Nat, NEW s \in Seq(Zero1),
         At(bits, pos, s), pos + Len(s) <= Len(bits)
  PROVE  SubSeq(bits, pos + 1, pos + Len(s)) = s
<1>1. Len(s) \in Nat /\ Len(bits) \in Nat
  OBVIOUS
<1>2. \A i \in 1 .. Len(s) : bits[pos + i] = s[i]
  <2> SUFFICES ASSUME NEW i \in 1 .. Len(s) PROVE bits[pos + i] = s[i]
    OBVIOUS
  <2>1. pos + i - 1 < Len(bits) /\ (pos + i - 1) + 1 = pos + i
    BY <1>1
  <2>2. Bit(bits, pos + i - 1) = bits[pos + i]
    BY <2>1 DEF Bit
  <2> QED
    BY <2>2 DEF At
<1> DEFINE t == SubSeq(bits, pos + 1, pos + Len(s))
<1>3. \A i \in pos + 1 .. pos + Len(s) : bits[i] \in Zero1
  BY <1>1
<1>4. /\ t \in Seq(Zero1)
      /\ Len(t) = Len(s)
      /\ \A i \in 1 .. Len(s) : t[i] = s[i]
  <2>1. /\ t \in Seq(Zero1)
        /\ Len(t) = IF pos + 1 <= pos + Len(s) THEN (pos + Len(s)) - (pos + 1) + 1 ELSE 0
        /\ \A i \in 1 .. (pos + Len(s)) - (pos + 1) + 1 : t[i] = bits[(pos + 1) + i - 1]
    <3>1. pos + 1 \in Int /\ pos + Len(s) \in Int
      BY <1>1
    <3> QED
      BY <1>3, <3>1, SubSeqProperties
  <2> HIDE DEF t
  <2>2. /\ (pos + Len(s)) - (pos + 1) + 1 = Len(s)
        /\ \A i \in 1 .. Len(s) : (pos + 1) + i - 1 = pos + i
    BY <1>1
  <2>3. Len(t) = Len(s)
    BY <1>1, <2>1, <2>2
  <2>4. ASSUME NEW i \in 1 .. Len(s) PROVE t[i] = s[i]
    <3>1. t[i] = bits[(pos + 1) + i - 1]
      BY <2>1, <2>2
    <3> QED
      BY <1>2, <2>2, <3>1
  <2> QED
    BY <2>1, <2>3, <2>4
<1> HIDE DEF t
<1>5. t = s
  BY <1>4
<1> QED
  BY <1>5 DEF t

-----------------------------------------------------------------------------
(* Records.  Those a game and the server send: acks and reliable bunches.  *)
Payload == {p \in Seq(ByteValue) : Byte * Len(p) < MaxBits}
Sent == {Ack(id) : id \in 0 .. Ids - 1}
          \cup {Bunch(open, close, 1, 0, seq, 1, payload) :
                  open \in {0, 1}, close \in {0, 1}, seq \in 0 .. Seqs - 1, payload \in Payload}

(* The constants of a packet.                                              *)
LEMMA Widths ==
  /\ IntWidth(Ids) \in Nat /\ IntWidth(Chans) \in Nat /\ IntWidth(Seqs) \in Nat
  /\ IntWidth(Types) \in Nat /\ IntWidth(MaxBits) \in Nat
  /\ Ids \in Nat \ {0} /\ Chans \in Nat \ {0} /\ Seqs \in Nat \ {0} /\ Types \in Nat \ {0}
  /\ MaxBits \in Nat \ {0} /\ Types > 1 /\ Seqs > 4
<1>1. /\ Ids \in Nat \ {0} /\ Chans \in Nat \ {0} /\ Seqs \in Nat \ {0} /\ Types \in Nat \ {0}
      /\ MaxBits \in Nat \ {0} /\ Types > 1 /\ Seqs > 4
  BY StubAssumption
<1> QED
  BY <1>1, WidthEnough

(* A flag.                                                                 *)
LEMMA OneBit ==
  ASSUME NEW b \in Zero1
  PROVE  <<b>> \in Seq(Zero1) /\ Len(<<b>>) = 1 /\ <<b>>[1] = b
OBVIOUS

(* Two strings of bits, one behind the other.                              *)
LEMMA Joined ==
  ASSUME NEW s \in Seq(Zero1), NEW t \in Seq(Zero1)
  PROVE  s \o t \in Seq(Zero1) /\ Len(s \o t) = Len(s) + Len(t) /\ Len(s) \in Nat /\ Len(t) \in Nat
BY ConcatProperties

(* A record is read as it was written, and no further.                     *)
ReadBack(r) ==
  /\ RecordBits(r) \in Seq(Zero1)
  /\ Len(RecordBits(r)) \in Nat \ {0}
  /\ \A bits \in Seq(Zero1), pos \in Nat, stop \in Nat :
       /\ At(bits, pos, RecordBits(r))
       /\ pos + Len(RecordBits(r)) <= stop
       /\ stop <= Len(bits)
       => RecordAt(bits, pos, stop) = [rec |-> r, end |-> pos + Len(RecordBits(r))]

(* An ack is read back.                                                    *)
LEMMA AckBack ==
  ASSUME NEW id \in 0 .. Ids - 1
  PROVE  ReadBack(Ack(id))
<1> DEFINE w == WriteInt(id, Ids)
<1>1. w \in Seq(Zero1) /\ Len(w) = IntWidth(Ids)
  <2>1. id \in Nat /\ Ids \in Nat
    BY Widths
  <2> QED
    BY <2>1, WriteIntType
<1>2. RecordBits(Ack(id)) = <<1>> \o w
  BY DEF RecordBits, Ack
<1> HIDE DEF w
<1>3. <<1>> \in Seq(Zero1) /\ Len(<<1>>) = 1 /\ <<1>>[1] = 1
  BY OneBit DEF Zero1
<1>4. <<1>> \o w \in Seq(Zero1) /\ Len(<<1>> \o w) = 1 + IntWidth(Ids)
  BY <1>1, <1>3, Joined
<1> DEFINE s == <<1>> \o w
<1>5. ASSUME NEW bits \in Seq(Zero1), NEW pos \in Nat, NEW stop \in Nat, At(bits, pos, s)
      PROVE  RecordAt(bits, pos, stop) = [rec |-> Ack(id), end |-> pos + Len(s)]
  <2>1. At(bits, pos, <<1>>) /\ At(bits, pos + 1, w)
    BY <1>1, <1>3, <1>5, AtBoth
  <2>2. Bit(bits, pos) = 1
    <3>1. 1 \in 1 .. Len(<<1>>) /\ pos + 1 - 1 = pos
      BY <1>3
    <3> QED
      BY <1>3, <2>1, <3>1 DEF At
  <2>3. ReadInt(bits, pos + 1, Ids) = id
    BY <2>1, Widths, IntReadsBack DEF w
  <2>4. pos + 1 + IntWidth(Ids) = pos + (1 + IntWidth(Ids))
    BY Widths
  <2> QED
    BY <1>4, <2>2, <2>3, <2>4 DEF RecordAt
<1> QED
  BY <1>2, <1>4, <1>5, Widths DEF ReadBack

(* A bunch is read back, whether or not its channel opens or closes.       *)
LEMMA BunchBack ==
  ASSUME NEW open \in {0, 1}, NEW close \in {0, 1}, NEW seq \in 0 .. Seqs - 1,
         NEW payload \in Payload
  PROVE  ReadBack(Bunch(open, close, 1, 0, seq, 1, payload))
<1> DEFINE r == Bunch(open, close, 1, 0, seq, 1, payload)
           control == IF open + close > 0 THEN 1 ELSE 0
           flags == IF open + close > 0 THEN <<1, open, close>> ELSE <<0>>
           wc == WriteInt(0, Chans)
           ws == WriteInt(seq, Seqs)
           wt == WriteInt(1, Types)
           wz == WriteInt(Byte * Len(payload), MaxBits)
           tb == ToBits(payload)
           q1 == <<0>> \o flags
           q2 == q1 \o <<1>>
           q3 == q2 \o wc
           q4 == q3 \o ws
           q5 == q4 \o wt
           q6 == q5 \o wz
           size == Byte * Len(payload)
<1>1. payload \in Seq(ByteValue) /\ size \in Nat /\ size < MaxBits
  BY ToBitsType DEF Payload
<1>2. RecordBits(r) = q6 \o tb
  BY DEF RecordBits, BunchBits, Bunch
<1>3. flags \in Seq(Zero1) /\ Len(flags) = 1 + 2 * control /\ control \in {0, 1}
  <2>1. CASE open + close > 0
    <3>1. open \in Zero1 /\ close \in Zero1 /\ 1 \in Zero1
      BY DEF Zero1
    <3>2. flags = <<1, open, close>> /\ control = 1
      BY <2>1
    <3>3. <<1, open, close>> \in Seq(Zero1) /\ Len(<<1, open, close>>) = 3
      BY <3>1
    <3> HIDE DEF flags, control
    <3> QED
      BY <3>2, <3>3
  <2>2. CASE ~(open + close > 0)
    <3>1. flags = <<0>> /\ control = 0
      BY <2>2
    <3>2. <<0>> \in Seq(Zero1) /\ Len(<<0>>) = 1
      BY OneBit DEF Zero1
    <3> HIDE DEF flags, control
    <3> QED
      BY <3>1, <3>2
  <2> QED
    BY <2>1, <2>2
<1>4. /\ wc \in Seq(Zero1) /\ Len(wc) = IntWidth(Chans)
      /\ ws \in Seq(Zero1) /\ Len(ws) = IntWidth(Seqs)
      /\ wt \in Seq(Zero1) /\ Len(wt) = IntWidth(Types)
      /\ wz \in Seq(Zero1) /\ Len(wz) = IntWidth(MaxBits)
  <2>1. 0 \in Nat /\ seq \in Nat /\ 1 \in Nat /\ size \in Nat
    BY <1>1
  <2> HIDE DEF size
  <2> QED
    BY <2>1, Widths, WriteIntType DEF size
<1>5. tb \in Seq(Zero1) /\ Len(tb) = size
  BY <1>1, ToBitsType
<1>6. <<0>> \in Seq(Zero1) /\ <<1>> \in Seq(Zero1) /\ Len(<<0>>) = 1 /\ Len(<<1>>) = 1
      /\ <<0>>[1] = 0 /\ <<1>>[1] = 1
  BY OneBit DEF Zero1
<1>7. flags[1] = control /\ (control = 1 => flags[2] = open /\ flags[3] = close)
      /\ (control = 0 => open = 0 /\ close = 0)
  OBVIOUS
<1> HIDE DEF r, flags, control, wc, ws, wt, wz, tb, size
<1> DEFINE n1 == 2 + 2 * control
           n2 == n1 + 1
           n3 == n2 + IntWidth(Chans)
           n4 == n3 + IntWidth(Seqs)
           n5 == n4 + IntWidth(Types)
           n6 == n5 + IntWidth(MaxBits)
<1>8. n1 \in Nat
  BY <1>3
<1>9. n2 \in Nat
  BY <1>8
<1>10. n3 \in Nat
  BY <1>9, Widths
<1>11. n4 \in Nat
  BY <1>10, Widths
<1>12. n5 \in Nat
  BY <1>11, Widths
<1>13. n6 \in Nat \ {0}
  <2>1. n1 # 0 /\ n2 >= n1
    BY <1>3, <1>8
  <2> HIDE DEF n1, n2
  <2>2. n3 >= n2 /\ n4 >= n3
    BY <1>9, <1>10, Widths
  <2> HIDE DEF n3, n4
  <2>3. n5 >= n4 /\ n6 >= n5
    BY <1>11, <1>12, Widths
  <2>4. n6 \in Nat
    BY <1>12, Widths
  <2> HIDE DEF n5, n6
  <2> QED
    BY <1>8, <1>9, <1>10, <1>11, <1>12, <2>1, <2>2, <2>3, <2>4
<1>a. q1 \in Seq(Zero1) /\ Len(q1) = n1
  BY <1>3, <1>6, Joined
<1> HIDE DEF q1, n1
<1>b. q2 \in Seq(Zero1) /\ Len(q2) = n2
  BY <1>6, <1>a, Joined
<1> HIDE DEF q2, n2
<1>c. q3 \in Seq(Zero1) /\ Len(q3) = n3
  BY <1>4, <1>b, Joined
<1> HIDE DEF q3, n3
<1>d. q4 \in Seq(Zero1) /\ Len(q4) = n4
  BY <1>4, <1>c, Joined
<1> HIDE DEF q4, n4
<1>e. q5 \in Seq(Zero1) /\ Len(q5) = n5
  BY <1>4, <1>d, Joined
<1> HIDE DEF q5, n5
<1>f. q6 \in Seq(Zero1) /\ Len(q6) = n6
  BY <1>4, <1>e, Joined
<1> HIDE DEF q6, n6
<1>14. q6 \o tb \in Seq(Zero1) /\ Len(q6 \o tb) = n6 + size
  BY <1>5, <1>f, Joined
<1>15. n6 + size \in Nat \ {0}
  BY <1>1, <1>13, <1>f
<1>16. ASSUME NEW bits \in Seq(Zero1), NEW pos \in Nat, NEW stop \in Nat,
              At(bits, pos, q6 \o tb), pos + Len(q6 \o tb) <= stop, stop <= Len(bits)
       PROVE  RecordAt(bits, pos, stop) = [rec |-> r, end |-> pos + Len(q6 \o tb)]
  <2> DEFINE p1 == pos + 2 + 2 * control
             p2 == p1 + 1 + IntWidth(Chans)
             p3 == p2 + IntWidth(Seqs)
             p4 == p3 + IntWidth(Types)
             p5 == p4 + IntWidth(MaxBits)
  <2>1. At(bits, pos, q6) /\ At(bits, pos + Len(q6), tb)
    BY <1>5, <1>f, <1>16, AtBoth
  <2>2. At(bits, pos, q5) /\ At(bits, pos + Len(q5), wz)
    BY <1>4, <1>e, <2>1, AtBoth DEF q6
  <2>3. At(bits, pos, q4) /\ At(bits, pos + Len(q4), wt)
    BY <1>4, <1>d, <2>2, AtBoth DEF q5
  <2>4. At(bits, pos, q3) /\ At(bits, pos + Len(q3), ws)
    BY <1>4, <1>c, <2>3, AtBoth DEF q4
  <2>5. At(bits, pos, q2) /\ At(bits, pos + Len(q2), wc)
    BY <1>4, <1>b, <2>4, AtBoth DEF q3
  <2>6. At(bits, pos, q1) /\ At(bits, pos + Len(q1), <<1>>)
    BY <1>6, <1>a, <2>5, AtBoth DEF q2
  <2>7. At(bits, pos, <<0>>) /\ At(bits, pos + 1, flags)
    BY <1>3, <1>6, <2>6, AtBoth DEF q1
  <2>8. /\ p1 \in Nat /\ p1 = pos + Len(q1)
        /\ p1 + 1 = pos + Len(q2)
        /\ p2 \in Nat /\ p2 = pos + Len(q3)
        /\ p3 \in Nat /\ p3 = pos + Len(q4)
        /\ p4 \in Nat /\ p4 = pos + Len(q5)
        /\ p5 \in Nat /\ p5 = pos + n6 /\ p5 = pos + Len(q6)
    <3>1. p1 = pos + n1
      BY <1>3 DEF n1
    <3> HIDE DEF p1
    <3>2. p1 + 1 = pos + n2
      BY <1>8, <3>1 DEF n2
    <3>3. p2 = pos + n3
      BY <1>9, <3>2, Widths DEF n3
    <3> HIDE DEF p2
    <3>4. p3 = pos + n4
      BY <1>10, <3>3, Widths DEF n4
    <3> HIDE DEF p3
    <3>5. p4 = pos + n5
      BY <1>11, <3>4, Widths DEF n5
    <3> HIDE DEF p4
    <3>6. p5 = pos + n6
      BY <1>12, <3>5, Widths DEF n6
    <3> HIDE DEF p5
    <3> QED
      BY <1>8, <1>9, <1>10, <1>11, <1>12, <1>13, <1>a, <1>b, <1>c, <1>d, <1>e, <1>f,
         <3>1, <3>2, <3>3, <3>4, <3>5, <3>6
  <2>9. Bit(bits, pos) = 0
    <3>1. 1 \in 1 .. Len(<<0>>) /\ pos + 1 - 1 = pos
      BY <1>6
    <3> QED
      BY <1>6, <2>7, <3>1 DEF At
  <2>10. Bit(bits, pos + 1) = control
    <3>1. 1 \in 1 .. Len(flags) /\ (pos + 1) + 1 - 1 = pos + 1
      BY <1>3
    <3> QED
      BY <1>7, <2>7, <3>1 DEF At
  <2>11. control = 1 => Bit(bits, pos + 2) = open /\ Bit(bits, pos + 3) = close
    <3> SUFFICES ASSUME control = 1 PROVE Bit(bits, pos + 2) = open /\ Bit(bits, pos + 3) = close
      OBVIOUS
    <3>1. 2 \in 1 .. Len(flags) /\ (pos + 1) + 2 - 1 = pos + 2
          /\ 3 \in 1 .. Len(flags) /\ (pos + 1) + 3 - 1 = pos + 3
      BY <1>3
    <3> QED
      BY <1>7, <2>7, <3>1 DEF At
  <2>12. Bit(bits, p1) = 1
    <3>1. 1 \in 1 .. Len(<<1>>) /\ p1 + 1 - 1 = p1
      BY <1>6, <2>8
    <3>2. At(bits, p1, <<1>>)
      BY <2>6, <2>8
    <3> HIDE DEF p1
    <3> QED
      BY <1>6, <3>1, <3>2 DEF At
  <2> HIDE DEF p1, p2, p3, p4, p5
  <2>13. ReadInt(bits, p1 + 1, Chans) = 0
    <3>1. At(bits, p1 + 1, wc) /\ p1 + 1 \in Nat /\ 0 < Chans /\ 0 \in Nat /\ Chans \in Nat
      BY <2>5, <2>8, Widths, SMTT(30)
    <3> QED
      BY <3>1, IntReadsBack DEF wc
  <2>14. ReadInt(bits, p2, Seqs) = seq
    <3>1. At(bits, p2, ws) /\ seq < Seqs /\ seq \in Nat /\ Seqs \in Nat
      BY <2>4, <2>8, Widths
    <3> QED
      BY <2>8, <3>1, IntReadsBack DEF ws
  <2>15. ReadInt(bits, p3, Types) = 1
    <3>1. At(bits, p3, wt) /\ 1 < Types /\ 1 \in Nat /\ Types \in Nat
      BY <2>3, <2>8, Widths
    <3> QED
      BY <2>8, <3>1, IntReadsBack DEF wt
  <2>16. ReadInt(bits, p4, MaxBits) = size
    <3>1. At(bits, p4, wz) /\ MaxBits \in Nat
      BY <2>2, <2>8, Widths
    <3> QED
      BY <1>1, <2>8, <3>1, IntReadsBack DEF wz, size
  <2>17. p5 + size <= stop /\ p5 + size = pos + Len(q6 \o tb)
    <3>1. pos + Len(q6 \o tb) = p5 + size
      BY <1>1, <1>13, <1>14, <2>8
    <3> QED
      BY <1>16, <3>1
  <2>18. ToBytes(SubSeq(bits, p5 + 1, p5 + size)) = payload
    <3>1. SubSeq(bits, p5 + 1, p5 + Len(tb)) = tb
      <4>1. p5 + Len(tb) <= Len(bits)
        BY <1>1, <1>5, <1>16, <2>8, <2>17
      <4>2. At(bits, p5, tb)
        BY <2>1, <2>8
      <4> QED
        BY <1>5, <2>8, <4>1, <4>2, CutOut
    <3> QED
      BY <1>1, <1>5, <3>1, BytesBack DEF tb
  <2>19. RecordAt(bits, pos, stop) =
           [rec |-> Bunch(open, close, 1, 0, seq, 1, payload), end |-> p5 + size]
    <3> DEFINE o == IF control = 1 THEN Bit(bits, pos + 2) ELSE 0
               c == IF control = 1 THEN Bit(bits, pos + 3) ELSE 0
    <3>1. o = open /\ c = close
      BY <1>3, <1>7, <2>11
    <3>2. 1 * IntWidth(Seqs) = IntWidth(Seqs) /\ 1 * IntWidth(Types) = IntWidth(Types)
      BY Widths
    <3>3. ~(p5 + size > stop)
      BY <1>1, <2>8, <2>17
    <3> HIDE DEF o, c
    <3>4. RecordAt(bits, pos, stop) =
            [rec |-> Bunch(o, c, 1, ReadInt(bits, p1 + 1, Chans), ReadInt(bits, p2, Seqs),
                           ReadInt(bits, p3, Types),
                           ToBytes(SubSeq(bits, p5 + 1, p5 + ReadInt(bits, p4, MaxBits)))),
             end |-> p5 + ReadInt(bits, p4, MaxBits)]
      BY <2>9, <2>10, <2>12, <2>16, <3>2, <3>3 DEF RecordAt, p1, p2, p3, p4, p5, o, c
    <3> QED
      BY <2>13, <2>14, <2>15, <2>16, <2>18, <3>1, <3>4
  <2> QED
    BY <2>17, <2>19 DEF r
<1>17. ReadBack(r)
  BY <1>2, <1>14, <1>15, <1>16 DEF ReadBack
<1> QED
  BY <1>17 DEF r

(* So is every record that is sent.                                        *)
LEMMA RecordBack ==
  ASSUME NEW r \in Sent
  PROVE  ReadBack(r)
<1>1. CASE \E id \in 0 .. Ids - 1 : r = Ack(id)
  <2>1. PICK id \in 0 .. Ids - 1 : r = Ack(id)
    BY <1>1
  <2> QED
    BY <2>1, AckBack
<1>2. CASE \E open \in {0, 1}, close \in {0, 1}, seq \in 0 .. Seqs - 1, payload \in Payload :
             r = Bunch(open, close, 1, 0, seq, 1, payload)
  <2>1. PICK open \in {0, 1}, close \in {0, 1}, seq \in 0 .. Seqs - 1, payload \in Payload :
             r = Bunch(open, close, 1, 0, seq, 1, payload)
    BY <1>2
  <2> QED
    BY <2>1, BunchBack
<1> QED
  BY <1>1, <1>2 DEF Sent

-----------------------------------------------------------------------------
(* The loops of the decoders.  What a turn reads ends behind its start.    *)
LEMMA RecordEnds ==
  ASSUME NEW bits \in Seq(Zero1), NEW pos \in Nat, NEW stop \in Nat, pos < stop
  PROVE  RecordAt(bits, pos, stop).end \in Nat /\ RecordAt(bits, pos, stop).end > pos
<1>1. CASE Bit(bits, pos) = 1
  <2>1. RecordAt(bits, pos, stop).end = pos + 1 + IntWidth(Ids)
    BY <1>1 DEF RecordAt
  <2> QED
    BY <2>1, Widths
<1>2. CASE Bit(bits, pos) # 1
  <2> DEFINE control == Bit(bits, pos + 1)
             p1 == pos + 2 + 2 * control
             reliable == Bit(bits, p1)
             p2 == p1 + 1 + IntWidth(Chans)
             p3 == p2 + reliable * IntWidth(Seqs)
             open == IF control = 1 THEN Bit(bits, pos + 2) ELSE 0
             typed == IF reliable = 1 \/ open = 1 THEN 1 ELSE 0
             p4 == p3 + typed * IntWidth(Types)
             p5 == p4 + IntWidth(MaxBits)
             size == ReadInt(bits, p4, MaxBits)
             end == RecordAt(bits, pos, stop).end
  <2>1. end = IF p5 + size > stop THEN stop ELSE p5 + size
    BY <1>2 DEF RecordAt
  <2> HIDE DEF end
  <2>2. control \in {0, 1}
    BY BitIsBit DEF Zero1
  <2> HIDE DEF control
  <2>3. p1 \in Nat /\ p1 > pos
    BY <2>2
  <2> HIDE DEF p1
  <2>4. reliable \in {0, 1}
    BY <2>3, BitIsBit DEF Zero1
  <2> HIDE DEF reliable
  <2>5. p2 \in Nat /\ p2 > pos
    BY <2>3, Widths
  <2> HIDE DEF p2
  <2>6. p3 \in Nat /\ p3 > pos
    <3>1. CASE reliable = 0
      BY <2>5, <3>1, Widths
    <3>2. CASE reliable = 1
      BY <2>5, <3>2, Widths
    <3> QED
      BY <2>4, <3>1, <3>2
  <2>7. typed \in {0, 1}
    OBVIOUS
  <2> HIDE DEF typed, p3
  <2>8. p4 \in Nat /\ p4 > pos
    <3>1. CASE typed = 0
      BY <2>6, <3>1, Widths
    <3>2. CASE typed = 1
      BY <2>6, <3>2, Widths
    <3> QED
      BY <2>7, <3>1, <3>2
  <2> HIDE DEF p4
  <2>9. p5 \in Nat /\ p5 > pos
    BY <2>8, Widths
  <2>10. size \in Nat
    BY <2>8, Widths, ReadIntType
  <2> HIDE DEF p5, size
  <2>11. end \in Nat /\ end > pos
    BY <2>1, <2>9, <2>10
  <2> QED
    BY <2>11 DEF end
<1> QED
  BY <1>1, <1>2

(* All that the decoders can find.                                         *)
Found(bits, stop) == {RecordAt(bits, p, stop).rec : p \in Nat} \cup {Bad}

(* A loop that goes from one position to a later one, and not beyond top.  *)
LEMMA ForwardRecursion ==
  ASSUME NEW V, NEW top \in Nat, NEW goes \in SUBSET Nat, NEW next \in [goes -> Nat],
         NEW g \in [goes -> [V -> V]], NEW last \in [Nat -> V],
         \A p \in goes : p < top /\ p < next[p]
  PROVE  \E f \in [Nat -> V] : Unfolds(f, Nat, goes, next, g, last)
<1> DEFINE rank == [p \in Nat |-> IF p < top THEN top - p ELSE 0]
<1>1. rank \in [Nat -> Nat]
  OBVIOUS
<1>2. ASSUME NEW p \in goes PROVE rank[next[p]] < rank[p]
  <2>1. next[p] \in Nat /\ next[p] > p /\ p \in Nat /\ p < top
    OBVIOUS
  <2> QED
    BY <2>1
<1> HIDE DEF rank
<1> QED
  BY <1>1, <1>2, RankedRecursion

(* The server's loop, from one record to the next.                         *)
LEMMA RecordsStep ==
  ASSUME NEW bits \in Seq(Zero1), NEW stop \in Nat, NEW pos \in Nat
  PROVE  /\ Records(bits, pos, stop) \in Seq(Found(bits, stop))
         /\ pos = stop => Records(bits, pos, stop) = <<>>
         /\ pos > stop => Records(bits, pos, stop) = <<Bad>>
         /\ pos < stop => Records(bits, pos, stop) =
                            <<RecordAt(bits, pos, stop).rec>>
                              \o Records(bits, RecordAt(bits, pos, stop).end, stop)
<1> DEFINE V == Seq(Found(bits, stop))
           goes == {p \in Nat : p < stop}
           next == [p \in goes |-> RecordAt(bits, p, stop).end]
           g == [p \in goes |-> [v \in V |-> <<RecordAt(bits, p, stop).rec>> \o v]]
           last == [p \in Nat |-> IF p = stop THEN <<>> ELSE <<Bad>>]
           from == CHOOSE f : f = [p \in Nat |->
                     IF p = stop THEN <<>>
                     ELSE IF p > stop THEN <<Bad>>
                     ELSE <<RecordAt(bits, p, stop).rec>> \o f[RecordAt(bits, p, stop).end]]
<1>1. next \in [goes -> Nat] /\ \A p \in goes : p < stop /\ p < next[p]
  BY RecordEnds
<1>2. ASSUME NEW p \in Nat, NEW v \in V PROVE <<RecordAt(bits, p, stop).rec>> \o v \in V
  <2>1. RecordAt(bits, p, stop).rec \in Found(bits, stop)
    BY DEF Found
  <2> DEFINE c == RecordAt(bits, p, stop).rec
  <2> HIDE DEF c
  <2>2. <<c>> \in V
    BY <2>1 DEF c
  <2>3. <<c>> \o v \in V
    BY <2>2, ConcatProperties
  <2> QED
    BY <2>3 DEF c
<1>3. g \in [goes -> [V -> V]] /\ goes \in SUBSET Nat
  BY <1>2
<1>4. <<>> \in V /\ <<Bad>> \in V
  BY DEF Found
<1>5. last \in [Nat -> V]
  BY <1>4
<1>6. \E f \in [Nat -> V] : Unfolds(f, Nat, goes, next, g, last)
  <2> HIDE DEF V, goes, next, g, last
  <2> QED
    BY <1>1, <1>3, <1>5, ForwardRecursion
<1>7. PICK f \in [Nat -> V] : Unfolds(f, Nat, goes, next, g, last)
  BY <1>6
<1>8. \A p \in Nat :
        f[p] = IF p \in goes THEN g[p][f[next[p]]] ELSE last[p]
  BY <1>7 DEF Unfolds
<1>9. ASSUME NEW p \in Nat
      PROVE  f[p] = IF p = stop THEN <<>>
                    ELSE IF p > stop THEN <<Bad>>
                    ELSE <<RecordAt(bits, p, stop).rec>> \o f[RecordAt(bits, p, stop).end]
  <2>1. CASE p < stop
    <3>1. p \in goes /\ next[p] = RecordAt(bits, p, stop).end /\ next[p] \in Nat
      BY <1>1, <2>1
    <3>2. f[next[p]] \in V
      BY <3>1
    <3>3. g[p][f[next[p]]] = <<RecordAt(bits, p, stop).rec>> \o f[next[p]]
      BY <3>1, <3>2
    <3>4. f[p] = g[p][f[next[p]]]
      <4> HIDE DEF goes, g, next, last, V
      <4> QED
        BY <1>8, <3>1
    <3> HIDE DEF goes, g, next, last, V
    <3> QED
      BY <2>1, <3>1, <3>3, <3>4
  <2>2. CASE ~(p < stop)
    <3>1. p \notin goes
      BY <2>2
    <3>2. f[p] = last[p]
      <4> HIDE DEF goes, g, next, last, V
      <4> QED
        BY <1>8, <3>1
    <3> QED
      BY <2>2, <3>2
  <2> QED
    BY <2>1, <2>2
<1> HIDE DEF goes, next, g, last
<1>10. f = [p \in Nat |->
              IF p = stop THEN <<>>
              ELSE IF p > stop THEN <<Bad>>
              ELSE <<RecordAt(bits, p, stop).rec>> \o f[RecordAt(bits, p, stop).end]]
  BY <1>9
<1>11. from = [p \in Nat |->
              IF p = stop THEN <<>>
              ELSE IF p > stop THEN <<Bad>>
              ELSE <<RecordAt(bits, p, stop).rec>> \o from[RecordAt(bits, p, stop).end]]
  BY <1>10
<1>12. \A p \in Nat : Records(bits, p, stop) = from[p]
  BY DEF Records
<1> HIDE DEF from
<1>13. ASSUME NEW p \in Nat
       PROVE  /\ p = stop => from[p] = <<>>
              /\ p > stop => from[p] = <<Bad>>
              /\ p < stop => from[p] = <<RecordAt(bits, p, stop).rec>>
                                         \o from[RecordAt(bits, p, stop).end]
  <2>1. from[p] = IF p = stop THEN <<>>
                  ELSE IF p > stop THEN <<Bad>>
                  ELSE <<RecordAt(bits, p, stop).rec>> \o from[RecordAt(bits, p, stop).end]
    BY <1>11
  <2>2. p > stop => p # stop
    OBVIOUS
  <2>3. p < stop => p # stop /\ ~(p > stop)
    OBVIOUS
  <2> QED
    BY <2>1, <2>2, <2>3
<1>a. ASSUME NEW p \in Nat, ~(p < stop) PROVE from[p] \in V
  <2>1. p = stop \/ p > stop
    BY <1>a
  <2>2. from[p] = <<>> \/ from[p] = <<Bad>>
    BY <1>13, <2>1
  <2> HIDE DEF V
  <2> QED
    BY <1>4, <2>2
<1>14. \A p \in Nat : from[p] \in V
  <2> DEFINE S == {n \in Nat : \A p \in Nat : stop < p + n => from[p] \in V}
  <2>1. 0 \in S
    <3>1. ASSUME NEW p \in Nat, stop < p + 0 PROVE from[p] \in V
      <4>1. ~(p < stop)
        BY <3>1
      <4> QED
        BY <1>a, <4>1
    <3> HIDE DEF V
    <3> QED
      BY <3>1
  <2>2. ASSUME NEW n \in Nat, n \in S PROVE n + 1 \in S
    <3>1. SUFFICES ASSUME NEW p \in Nat, stop < p + (n + 1) PROVE from[p] \in V
      OBVIOUS
    <3>2. CASE p < stop
      <4>1. from[p] = <<RecordAt(bits, p, stop).rec>> \o from[RecordAt(bits, p, stop).end]
        BY <1>13, <3>2
      <4>2. RecordAt(bits, p, stop).end \in Nat /\ RecordAt(bits, p, stop).end > p
        BY <3>2, RecordEnds
      <4>3. from[RecordAt(bits, p, stop).end] \in V
        <5> DEFINE e == RecordAt(bits, p, stop).end
        <5>1. e \in Nat /\ e > p
          BY <4>2
        <5> HIDE DEF e
        <5>2. stop < e + n
          BY <3>1, <5>1
        <5>3. from[e] \in V
          BY <2>2, <5>1, <5>2
        <5> QED
          BY <5>3 DEF e
      <4> HIDE DEF V
      <4> QED
        BY <1>2, <4>1, <4>3
    <3>3. CASE ~(p < stop)
      BY <1>a, <3>3
    <3> QED
      BY <3>2, <3>3
  <2> HIDE DEF S
  <2>3. Nat \subseteq S
    BY <2>1, <2>2, SetInduction
  <2>4. ASSUME NEW p \in Nat PROVE from[p] \in V
    <3>1. stop + 1 \in S /\ stop < p + (stop + 1)
      BY <2>3
    <3> QED
      BY <3>1 DEF S
  <2> QED
    BY <2>4
<1>15. pos < stop => Records(bits, RecordAt(bits, pos, stop).end, stop)
                       = from[RecordAt(bits, pos, stop).end]
  BY <1>12, RecordEnds
<1>16. Records(bits, pos, stop) = from[pos] /\ from[pos] \in V
  BY <1>12, <1>14
<1> QED
  BY <1>13, <1>15, <1>16

(* The relay's loop.                                                       *)
LEMMA RelayRecordsStep ==
  ASSUME NEW bits \in Seq(Zero1), NEW stop \in Nat, NEW pos \in Nat, stop < Len(bits)
  PROVE  /\ pos = stop => RelayRecords(bits, pos, stop) = <<>>
         /\ pos < stop => RelayRecords(bits, pos, stop) =
                            <<RecordAt(bits, pos, stop).rec>>
                              \o RelayRecords(bits, RecordAt(bits, pos, stop).end, stop)
<1> DEFINE V == Seq(Found(bits, stop))
           goes == {p \in Nat : p < stop}
           next == [p \in goes |-> RecordAt(bits, p, stop).end]
           g == [p \in goes |-> [v \in V |-> <<RecordAt(bits, p, stop).rec>> \o v]]
           last == [p \in Nat |-> IF p > Len(bits) THEN <<Bad>> ELSE <<>>]
           from == CHOOSE f : f = [p \in Nat |->
                     IF p > Len(bits) THEN <<Bad>>
                     ELSE IF p >= stop THEN <<>>
                     ELSE <<RecordAt(bits, p, stop).rec>> \o f[RecordAt(bits, p, stop).end]]
<1>0. Len(bits) \in Nat
  OBVIOUS
<1>1. next \in [goes -> Nat] /\ \A p \in goes : p < stop /\ p < next[p]
  BY RecordEnds
<1>2. ASSUME NEW p \in Nat, NEW v \in V PROVE <<RecordAt(bits, p, stop).rec>> \o v \in V
  <2>1. RecordAt(bits, p, stop).rec \in Found(bits, stop)
    BY DEF Found
  <2> DEFINE c == RecordAt(bits, p, stop).rec
  <2> HIDE DEF c
  <2>2. <<c>> \in V
    BY <2>1 DEF c
  <2>3. <<c>> \o v \in V
    BY <2>2, ConcatProperties
  <2> QED
    BY <2>3 DEF c
<1>3. g \in [goes -> [V -> V]] /\ goes \in SUBSET Nat
  BY <1>2
<1>4. <<>> \in V /\ <<Bad>> \in V
  BY DEF Found
<1>5. last \in [Nat -> V]
  BY <1>4
<1>6. \E f \in [Nat -> V] : Unfolds(f, Nat, goes, next, g, last)
  <2> HIDE DEF V, goes, next, g, last
  <2> QED
    BY <1>1, <1>3, <1>5, ForwardRecursion
<1>7. PICK f \in [Nat -> V] : Unfolds(f, Nat, goes, next, g, last)
  BY <1>6
<1>8. \A p \in Nat :
        f[p] = IF p \in goes THEN g[p][f[next[p]]] ELSE last[p]
  BY <1>7 DEF Unfolds
<1>9. ASSUME NEW p \in Nat
      PROVE  f[p] = IF p > Len(bits) THEN <<Bad>>
                    ELSE IF p >= stop THEN <<>>
                    ELSE <<RecordAt(bits, p, stop).rec>> \o f[RecordAt(bits, p, stop).end]
  <2>1. CASE p < stop
    <3>1. p \in goes /\ next[p] = RecordAt(bits, p, stop).end /\ next[p] \in Nat
      BY <1>1, <2>1
    <3>2. f[next[p]] \in V
      BY <3>1
    <3>3. g[p][f[next[p]]] = <<RecordAt(bits, p, stop).rec>> \o f[next[p]]
      BY <3>1, <3>2
    <3>4. f[p] = g[p][f[next[p]]]
      <4> HIDE DEF goes, g, next, last, V
      <4> QED
        BY <1>8, <3>1
    <3>5. ~(p > Len(bits)) /\ ~(p >= stop)
      BY <1>0, <2>1
    <3> HIDE DEF goes, g, next, last, V
    <3> QED
      BY <3>1, <3>3, <3>4, <3>5
  <2>2. CASE ~(p < stop)
    <3>1. p \notin goes
      BY <2>2
    <3>2. f[p] = last[p]
      <4> HIDE DEF goes, g, next, last, V
      <4> QED
        BY <1>8, <3>1
    <3>3. p >= stop
      BY <2>2
    <3> QED
      BY <3>2, <3>3
  <2> QED
    BY <2>1, <2>2
<1> HIDE DEF goes, next, g, last
<1>10. f = [p \in Nat |->
              IF p > Len(bits) THEN <<Bad>>
              ELSE IF p >= stop THEN <<>>
              ELSE <<RecordAt(bits, p, stop).rec>> \o f[RecordAt(bits, p, stop).end]]
  BY <1>9
<1>11. from = [p \in Nat |->
              IF p > Len(bits) THEN <<Bad>>
              ELSE IF p >= stop THEN <<>>
              ELSE <<RecordAt(bits, p, stop).rec>> \o from[RecordAt(bits, p, stop).end]]
  BY <1>10
<1>12. \A p \in Nat : RelayRecords(bits, p, stop) = from[p]
  BY DEF RelayRecords
<1> HIDE DEF from
<1>13. from[pos] = IF pos > Len(bits) THEN <<Bad>>
                   ELSE IF pos >= stop THEN <<>>
                   ELSE <<RecordAt(bits, pos, stop).rec>> \o from[RecordAt(bits, pos, stop).end]
  BY <1>11
<1>14. pos = stop => from[pos] = <<>>
  <2>1. pos = stop => ~(pos > Len(bits)) /\ pos >= stop
    BY <1>0
  <2> QED
    BY <1>13, <2>1
<1>15. pos < stop => from[pos] = <<RecordAt(bits, pos, stop).rec>>
                                  \o from[RecordAt(bits, pos, stop).end]
  <2>1. pos < stop => ~(pos > Len(bits)) /\ ~(pos >= stop)
    BY <1>0
  <2> QED
    BY <1>13, <2>1
<1>16. pos < stop => RelayRecords(bits, RecordAt(bits, pos, stop).end, stop)
                       = from[RecordAt(bits, pos, stop).end]
  BY <1>12, RecordEnds
<1> QED
  BY <1>12, <1>14, <1>15, <1>16

(* What the server reads to the end without an error, the relay reads      *)
(* alike.                                                                  *)
NoneBad(recs) == ~\E i \in 1 .. Len(recs) : recs[i] = Bad

(* Records that the server's loop reads without an error, the relay's reads *)
(* too.                                                                    *)
LEMMA SameRecords ==
  ASSUME NEW bits \in Seq(Zero1), NEW stop \in Nat, stop < Len(bits), NEW pos \in Nat,
         NoneBad(Records(bits, pos, stop))
  PROVE  RelayRecords(bits, pos, stop) = Records(bits, pos, stop)
<1> DEFINE S == {n \in Nat : \A p \in Nat :
                   stop < p + n /\ NoneBad(Records(bits, p, stop))
                     => RelayRecords(bits, p, stop) = Records(bits, p, stop)}
<1>1. ASSUME NEW p \in Nat, p > stop PROVE ~NoneBad(Records(bits, p, stop))
  <2>1. Records(bits, p, stop) = <<Bad>>
    BY <1>1, RecordsStep
  <2>2. 1 \in 1 .. Len(<<Bad>>) /\ <<Bad>>[1] = Bad
    OBVIOUS
  <2> QED
    BY <2>1, <2>2 DEF NoneBad
<1>2. 0 \in S
  <2>1. ASSUME NEW p \in Nat, stop < p + 0 PROVE ~NoneBad(Records(bits, p, stop))
    <3>1. p > stop
      BY <2>1
    <3> QED
      BY <1>1, <3>1
  <2> QED
    BY <2>1
<1>3. ASSUME NEW n \in Nat, n \in S PROVE n + 1 \in S
  <2>1. SUFFICES ASSUME NEW p \in Nat, stop < p + (n + 1), NoneBad(Records(bits, p, stop))
                 PROVE  RelayRecords(bits, p, stop) = Records(bits, p, stop)
    OBVIOUS
  <2>2. CASE p > stop
    BY <1>1, <2>1, <2>2
  <2>3. CASE p = stop
    <3>1. Records(bits, p, stop) = <<>>
      BY <2>3, RecordsStep
    <3>2. RelayRecords(bits, p, stop) = <<>>
      BY <2>3, RelayRecordsStep
    <3> QED
      BY <3>1, <3>2
  <2>4. CASE p < stop
    <3> DEFINE r == RecordAt(bits, p, stop).rec
               e == RecordAt(bits, p, stop).end
               rest == Records(bits, e, stop)
    <3>1. e \in Nat /\ e > p
      BY <2>4, RecordEnds
    <3>2. Records(bits, p, stop) = <<r>> \o rest
      BY <2>4, RecordsStep
    <3>3. RelayRecords(bits, p, stop) = <<r>> \o RelayRecords(bits, e, stop)
      BY <2>4, RelayRecordsStep
    <3>4. rest \in Seq(Found(bits, stop))
      BY <3>1, RecordsStep
    <3>5. r \in Found(bits, stop)
      BY DEF Found
    <3> HIDE DEF r, e, rest
    <3>6. NoneBad(rest)
      <4>1. SUFFICES ASSUME NEW i \in 1 .. Len(rest), rest[i] = Bad PROVE FALSE
        BY DEF NoneBad
      <4>2. <<r>> \in Seq(Found(bits, stop)) /\ Len(<<r>>) = 1
        BY <3>5
      <4>3. /\ Len(<<r>> \o rest) = 1 + Len(rest)
            /\ \A j \in 1 .. 1 + Len(rest) :
                 (<<r>> \o rest)[j] = IF j <= 1 THEN <<r>>[j] ELSE rest[j - 1]
        BY <3>4, <4>2, ConcatProperties
      <4>4. i + 1 \in 1 .. 1 + Len(rest) /\ ~(i + 1 <= 1) /\ (i + 1) - 1 = i
        BY <3>4, <4>1
      <4>5. (<<r>> \o rest)[i + 1] = Bad
        BY <4>1, <4>3, <4>4
      <4> QED
        BY <2>1, <3>2, <4>3, <4>4, <4>5 DEF NoneBad
    <3>7. stop < e + n
      BY <2>1, <3>1
    <3>8. RelayRecords(bits, e, stop) = rest
      BY <1>3, <3>1, <3>6, <3>7 DEF rest
    <3> QED
      BY <3>2, <3>3, <3>8
  <2> QED
    BY <2>2, <2>3, <2>4
<1> HIDE DEF S
<1>4. Nat \subseteq S
  BY <1>2, <1>3, SetInduction
<1>5. stop + 1 \in S /\ stop < pos + (stop + 1)
  BY <1>4
<1> QED
  BY <1>5 DEF S

-----------------------------------------------------------------------------
(* The last bit that is set.                                               *)
Ones(bits) == {i \in 1 .. Len(bits) : bits[i] = 1}
LastOne(bits) == CHOOSE i \in Ones(bits) : \A j \in Ones(bits) : j <= i

(* The stop bit is the last one that is set.                               *)
LEMMA LastOneIs ==
  ASSUME NEW bits \in Seq(Zero1), Ones(bits) # {}
  PROVE  LastOne(bits) \in Ones(bits) /\ \A j \in Ones(bits) : j <= LastOne(bits)
<1> DEFINE S == {Len(bits) - i : i \in Ones(bits)}
<1>1. Len(bits) \in Nat
  OBVIOUS
<1>2. S \in SUBSET Nat /\ S # {}
  BY <1>1 DEF Ones
<1>3. PICK m \in S : \A k \in S : m <= k
  <2> HIDE DEF S
  <2> QED
    BY <1>2, LeastNatural
<1>4. PICK i \in Ones(bits) : m = Len(bits) - i
  BY <1>3
<1>5. \A j \in Ones(bits) : j <= i
  <2> SUFFICES ASSUME NEW j \in Ones(bits) PROVE j <= i
    OBVIOUS
  <2>1. Len(bits) - i <= Len(bits) - j
    BY <1>3, <1>4
  <2>2. i \in Nat /\ j \in Nat
    BY DEF Ones
  <2> QED
    BY <1>1, <2>1, <2>2
<1> QED
  BY <1>4, <1>5 DEF LastOne

(* Both decoders, in these terms.                                          *)
LEMMA ParseIs ==
  ASSUME NEW bits \in Seq(Zero1)
  PROVE  /\ Ones(bits) = {} \/ ~NoneBad(Records(bits, IntWidth(Ids), LastOne(bits) - 1))
              => Parse(bits) = Broken
         /\ Ones(bits) # {} /\ NoneBad(Records(bits, IntWidth(Ids), LastOne(bits) - 1))
              => Parse(bits) = [id |-> ReadInt(bits, 0, Ids),
                                recs |-> Records(bits, IntWidth(Ids), LastOne(bits) - 1)]
BY DEF Parse, Ones, LastOne, NoneBad

(* The relay's parse, with names for its parts.                            *)
LEMMA RelayParseIs ==
  ASSUME NEW bits \in Seq(Zero1), Ones(bits) # {},
         NoneBad(RelayRecords(bits, IntWidth(Ids), LastOne(bits) - 1))
  PROVE  RelayParse(bits) = [id |-> ReadInt(bits, 0, Ids),
                             recs |-> RelayRecords(bits, IntWidth(Ids), LastOne(bits) - 1)]
BY DEF RelayParse, Ones, LastOne, NoneBad

(* What the server parses, the relay parses to the same.                   *)
LEMMA RelayParsesAlike ==
  ASSUME NEW bits \in Seq(Zero1), Parse(bits) # Broken
  PROVE  RelayParse(bits) = Parse(bits)
<1> DEFINE stop == LastOne(bits) - 1
           recs == Records(bits, IntWidth(Ids), stop)
<1>1. Ones(bits) # {} /\ NoneBad(recs)
  BY ParseIs
<1>2. Parse(bits) = [id |-> ReadInt(bits, 0, Ids), recs |-> recs]
  BY <1>1, ParseIs
<1>3. stop \in Nat /\ stop < Len(bits)
  BY <1>1, LastOneIs DEF Ones
<1>4. RelayRecords(bits, IntWidth(Ids), stop) = recs
  <2> HIDE DEF stop
  <2> QED
    BY <1>1, <1>3, Widths, SameRecords
<1> QED
  BY <1>1, <1>2, <1>4, RelayParseIs

-----------------------------------------------------------------------------
(* Building.                                                               *)
Strung(id, recs, upTo) ==
  /\ upTo \in [0 .. Len(recs) -> Seq(Zero1)]
  /\ upTo[0] = WriteInt(id, Ids)
  /\ \A i \in 1 .. Len(recs) : upTo[i] = upTo[i - 1] \o RecordBits(recs[i])

(* The bits of a packet grow record by record.                             *)
LEMMA Builds ==
  ASSUME NEW id \in Nat, NEW recs \in Seq(Sent)
  PROVE  \E upTo : /\ Strung(id, recs, upTo)
                   /\ Build([id |-> id, recs |-> recs])
                        = Padded(upTo[Len(recs)] \o <<1>>, Byte)
<1> DEFINE V == Seq(Zero1)
           n == Len(recs)
           v == WriteInt(id, Ids)
           g == [i \in 1 .. n |-> [s \in V |-> s \o RecordBits(recs[i])]]
           upTo == CHOOSE f : f = [i \in 0 .. n |->
                     IF i = 0 THEN v ELSE f[i - 1] \o RecordBits(recs[i])]
<1>1. n \in Nat /\ v \in V
  <2>1. Ids \in Nat
    BY Widths
  <2> QED
    BY <2>1, WriteIntType
<1>2. \A i \in 1 .. n : RecordBits(recs[i]) \in V
  <2> SUFFICES ASSUME NEW i \in 1 .. n PROVE RecordBits(recs[i]) \in V
    OBVIOUS
  <2>1. recs[i] \in Sent
    OBVIOUS
  <2> QED
    BY <2>1, RecordBack DEF ReadBack
<1>3. \A s \in V, i \in 1 .. n : s \o RecordBits(recs[i]) \in V
  BY <1>2, ConcatProperties
<1>4. g \in [1 .. n -> [V -> V]]
  BY <1>3
<1>5. \A i \in 1 .. n, s \in V : g[i][s] = s \o RecordBits(recs[i])
  OBVIOUS
<1>6. PICK f \in [0 .. n -> V] : Turns(f, n, v, g)
  <2> HIDE DEF V, n, v, g
  <2> QED
    BY <1>1, <1>4, LoopRecursion
<1> HIDE DEF g
<1>7. f = [i \in 0 .. n |-> IF i = 0 THEN v ELSE g[i][f[i - 1]]]
  BY <1>6 DEF Turns
<1> HIDE DEF n, v, V
<1>8. \A i \in 0 .. n : i # 0 => i \in 1 .. n /\ f[i - 1] \in V
  BY <1>1
<1>9. f = [i \in 0 .. n |-> IF i = 0 THEN v ELSE f[i - 1] \o RecordBits(recs[i])]
  BY <1>5, <1>7, <1>8
<1>10. upTo = [i \in 0 .. n |-> IF i = 0 THEN v ELSE upTo[i - 1] \o RecordBits(recs[i])]
  BY <1>9
<1>11. Build([id |-> id, recs |-> recs]) = Padded(upTo[n] \o <<1>>, Byte)
  BY DEF Build, n, v
<1> HIDE DEF upTo
<1>12. upTo[0] = v
  BY <1>1, <1>10
<1>13. ASSUME NEW i \in 1 .. n PROVE upTo[i] = upTo[i - 1] \o RecordBits(recs[i])
  <2>1. i \in 0 .. n /\ i # 0
    BY <1>1
  <2> QED
    BY <1>10, <2>1
<1>14. \A i \in 0 .. n : upTo[i] \in V
  <2> DEFINE S == {i \in Nat : i <= n => upTo[i] \in V}
  <2>1. 0 \in S
    BY <1>1, <1>12
  <2>2. ASSUME NEW i \in Nat, i \in S PROVE i + 1 \in S
    <3>1. SUFFICES ASSUME i + 1 <= n PROVE upTo[i + 1] \in V
      OBVIOUS
    <3>2. i + 1 \in 1 .. n /\ i + 1 - 1 = i /\ upTo[i] \in V
      BY <1>1, <2>2, <3>1
    <3>3. upTo[i + 1] = upTo[i] \o RecordBits(recs[i + 1])
      <4> DEFINE j == i + 1
      <4>1. j \in 1 .. n /\ j - 1 = i
        BY <3>2
      <4> HIDE DEF j
      <4>2. upTo[j] = upTo[j - 1] \o RecordBits(recs[j])
        BY <1>13, <4>1
      <4>3. upTo[j] = upTo[i] \o RecordBits(recs[j])
        BY <4>1, <4>2
      <4> QED
        BY <4>3 DEF j
    <3> QED
      BY <1>3, <3>2, <3>3
  <2> HIDE DEF S
  <2>3. Nat \subseteq S
    BY <2>1, <2>2, SetInduction
  <2>4. ASSUME NEW i \in 0 .. n PROVE upTo[i] \in V
    <3>1. i \in S /\ i <= n
      BY <1>1, <2>3
    <3> QED
      BY <3>1 DEF S
  <2> QED
    BY <2>4
<1>15. upTo \in [0 .. n -> V]
  BY <1>10, <1>14
<1>16. Strung(id, recs, upTo)
  BY <1>12, <1>13, <1>15 DEF Strung, n, v, V
<1> QED
  BY <1>11, <1>16 DEF n

(* Where a packet's bits are, each of its records is read in turn.         *)
LEMMA RecordsBack ==
  ASSUME NEW id \in Nat, NEW recs \in Seq(Sent), NEW upTo, Strung(id, recs, upTo),
         NEW bits \in Seq(Zero1), At(bits, 0, upTo[Len(recs)]), Len(upTo[Len(recs)]) <= Len(bits)
  PROVE  /\ At(bits, 0, WriteInt(id, Ids))
         /\ Records(bits, IntWidth(Ids), Len(upTo[Len(recs)])) = recs
<1> DEFINE n == Len(recs)
           stop == Len(upTo[n])
<1>1. n \in Nat
  OBVIOUS
<1>2. /\ upTo \in [0 .. n -> Seq(Zero1)]
      /\ upTo[0] = WriteInt(id, Ids)
      /\ \A i \in 1 .. n : upTo[i] = upTo[i - 1] \o RecordBits(recs[i])
  BY DEF Strung
<1>3. ASSUME NEW i \in 1 .. n
      PROVE  /\ upTo[i - 1] \in Seq(Zero1) /\ ReadBack(recs[i])
             /\ RecordBits(recs[i]) \in Seq(Zero1)
             /\ Len(upTo[i - 1]) \in Nat
             /\ Len(upTo[i]) = Len(upTo[i - 1]) + Len(RecordBits(recs[i]))
             /\ Len(RecordBits(recs[i])) \in Nat \ {0}
  <2>1. i - 1 \in 0 .. n
    BY <1>1
  <2>2. upTo[i - 1] \in Seq(Zero1)
    BY <1>2, <2>1
  <2>3. ReadBack(recs[i])
    BY RecordBack
  <2>4. RecordBits(recs[i]) \in Seq(Zero1) /\ Len(RecordBits(recs[i])) \in Nat \ {0}
    BY <2>3 DEF ReadBack
  <2> QED
    BY <1>2, <2>2, <2>3, <2>4, Joined
<1> HIDE DEF n
<1>4. upTo[n] \in Seq(Zero1) /\ stop \in Nat
  BY <1>1, <1>2
<1>5. At(bits, 0, upTo[n]) /\ stop <= Len(bits)
  BY DEF n
<1> HIDE DEF stop
<1> DEFINE Good(i) == /\ At(bits, 0, upTo[i]) /\ Len(upTo[i]) <= stop
                      /\ Records(bits, Len(upTo[i]), stop) = SubSeq(recs, i + 1, n)
           S == {k \in Nat : k <= n => Good(n - k)}
<1>6. 0 \in S
  <2>1. SubSeq(recs, n + 1, n) = <<>>
    BY <1>1, SubSeqEmpty
  <2>2. Records(bits, stop, stop) = <<>>
    BY <1>4, RecordsStep
  <2>3. Good(n)
    <3>1. Len(upTo[n]) = stop /\ stop <= stop
      BY <1>4 DEF stop
    <3>2. Records(bits, stop, stop) = SubSeq(recs, n + 1, n)
      BY <2>1, <2>2
    <3> QED
      BY <1>5, <3>1, <3>2
  <2>4. n - 0 = n
    BY <1>1
  <2> HIDE DEF Good
  <2> QED
    BY <2>3, <2>4
<1>7. ASSUME NEW k \in Nat, k \in S PROVE k + 1 \in S
  <2>1. SUFFICES ASSUME k + 1 <= n PROVE Good(n - (k + 1))
    OBVIOUS
  <2> DEFINE i == n - k
  <2>2. i \in 1 .. n /\ i - 1 = n - (k + 1) /\ Good(i)
    BY <1>1, <1>7, <2>1
  <2> HIDE DEF i
  <2>3. /\ upTo[i - 1] \in Seq(Zero1) /\ ReadBack(recs[i])
        /\ RecordBits(recs[i]) \in Seq(Zero1)
        /\ Len(upTo[i - 1]) \in Nat
        /\ Len(upTo[i]) = Len(upTo[i - 1]) + Len(RecordBits(recs[i]))
        /\ Len(RecordBits(recs[i])) \in Nat \ {0}
        /\ upTo[i] = upTo[i - 1] \o RecordBits(recs[i])
    BY <1>2, <1>3, <2>2
  <2> DEFINE a == Len(upTo[i - 1])
             b == Len(RecordBits(recs[i]))
  <2>4. At(bits, 0, upTo[i - 1]) /\ At(bits, a, RecordBits(recs[i]))
    <3>1. At(bits, 0, upTo[i - 1]) /\ At(bits, 0 + a, RecordBits(recs[i]))
      BY <2>2, <2>3, AtBoth
    <3>2. 0 + a = a
      BY <2>3
    <3> QED
      BY <3>1, <3>2
  <2>5. a + b <= stop /\ a < stop /\ a \in Nat
    <3>1. a \in Nat /\ b \in Nat \ {0} /\ Len(upTo[i]) = a + b /\ Len(upTo[i]) <= stop
      BY <2>2, <2>3
    <3> HIDE DEF a, b
    <3> QED
      BY <1>4, <3>1
  <2>6. RecordAt(bits, a, stop) = [rec |-> recs[i], end |-> a + b]
    BY <1>4, <1>5, <2>3, <2>4, <2>5 DEF ReadBack
  <2>7. Records(bits, a + b, stop) = SubSeq(recs, i + 1, n)
    BY <2>2, <2>3
  <2>8. Records(bits, a, stop) = <<recs[i]>> \o SubSeq(recs, i + 1, n)
    <3>1. Records(bits, a, stop) =
            <<RecordAt(bits, a, stop).rec>> \o Records(bits, RecordAt(bits, a, stop).end, stop)
      BY <1>4, <2>5, RecordsStep
    <3>2. RecordAt(bits, a, stop).rec = recs[i] /\ RecordAt(bits, a, stop).end = a + b
      BY <2>6
    <3> QED
      BY <2>7, <3>1, <3>2
  <2>9. <<recs[i]>> \o SubSeq(recs, i + 1, n) = SubSeq(recs, i, n)
    <3> DEFINE t == SubSeq(recs, i + 1, n)
               u == SubSeq(recs, i, n)
    <3>1. i \in Nat /\ n \in Nat /\ i <= n /\ 1 <= i
      BY <1>1, <2>2
    <3>2. \A j \in 1 .. n : recs[j] \in Sent
      BY DEF n
    <3>3. /\ t \in Seq(Sent) /\ Len(t) = n - i
          /\ \A j \in 1 .. n - i : t[j] = recs[i + j]
      <4>1. \A j \in i + 1 .. n : recs[j] \in Sent
        BY <3>1, <3>2
      <4>2. i + 1 \in Int /\ n \in Int
        BY <3>1
      <4>3. /\ t \in Seq(Sent)
            /\ Len(t) = IF i + 1 <= n THEN n - (i + 1) + 1 ELSE 0
            /\ \A j \in 1 .. n - (i + 1) + 1 : t[j] = recs[(i + 1) + j - 1]
        BY <4>1, <4>2, SubSeqProperties
      <4> HIDE DEF t
      <4>4. n - (i + 1) + 1 = n - i /\ \A j \in 1 .. n - i : (i + 1) + j - 1 = i + j
        BY <3>1
      <4>5. Len(t) = n - i
        BY <3>1, <4>3
      <4>6. ASSUME NEW j \in 1 .. n - i PROVE t[j] = recs[i + j]
        BY <4>3, <4>4
      <4> QED
        BY <4>3, <4>5, <4>6
    <3>4. /\ u \in Seq(Sent) /\ Len(u) = n - i + 1
          /\ \A j \in 1 .. n - i + 1 : u[j] = recs[i + j - 1]
      <4>1. \A j \in i .. n : recs[j] \in Sent
        BY <3>1, <3>2
      <4>2. i \in Int /\ n \in Int
        BY <3>1
      <4>3. /\ u \in Seq(Sent)
            /\ Len(u) = IF i <= n THEN n - i + 1 ELSE 0
            /\ \A j \in 1 .. n - i + 1 : u[j] = recs[i + j - 1]
        BY <4>1, <4>2, SubSeqProperties
      <4> HIDE DEF u
      <4> QED
        BY <3>1, <4>3
    <3>5. <<recs[i]>> \in Seq(Sent) /\ Len(<<recs[i]>>) = 1 /\ <<recs[i]>>[1] = recs[i]
      BY <2>2, <3>2
    <3> HIDE DEF t, u
    <3>6. /\ <<recs[i]>> \o t \in Seq(Sent) /\ Len(<<recs[i]>> \o t) = 1 + Len(t)
          /\ \A j \in 1 .. 1 + Len(t) :
               (<<recs[i]>> \o t)[j] = IF j <= 1 THEN <<recs[i]>>[j] ELSE t[j - 1]
      BY <3>3, <3>5, ConcatProperties
    <3> DEFINE w == <<recs[i]>> \o t
    <3>7. w \in Seq(Sent) /\ Len(w) = n - i + 1
      BY <3>1, <3>3, <3>6
    <3>8. ASSUME NEW j \in 1 .. n - i + 1 PROVE w[j] = u[j]
      <4>1. CASE j = 1
        <5>1. w[1] = recs[i]
          BY <3>1, <3>3, <3>5, <3>6
        <5>2. u[1] = recs[i + 1 - 1] /\ i + 1 - 1 = i
          BY <3>1, <3>4, <4>1
        <5> QED
          BY <4>1, <5>1, <5>2
      <4>2. CASE j # 1
        <5>1. j - 1 \in 1 .. n - i /\ ~(j <= 1) /\ j \in 1 .. 1 + Len(t) /\ i + (j - 1) = i + j - 1
          BY <3>1, <3>3, <4>2
        <5>2. w[j] = t[j - 1]
          BY <3>6, <5>1
        <5>3. t[j - 1] = recs[i + (j - 1)]
          BY <3>3, <5>1
        <5> QED
          BY <3>4, <5>1, <5>2, <5>3
      <4> QED
        BY <4>1, <4>2
    <3> HIDE DEF w
    <3>9. w = u
      BY <3>4, <3>7, <3>8
    <3> QED
      BY <3>9 DEF w, u, t
  <2>10. (i - 1) + 1 = i
    BY <2>2
  <2>11. Good(i - 1)
    <3>1. Records(bits, a, stop) = SubSeq(recs, (i - 1) + 1, n)
      BY <2>8, <2>9, <2>10
    <3>2. a <= stop
      BY <1>4, <2>5
    <3> QED
      BY <2>4, <3>1, <3>2
  <2> QED
    BY <2>2, <2>11
<1> HIDE DEF S
<1>8. Nat \subseteq S
  BY <1>6, <1>7, SetInduction
<1>9. Good(0)
  <2>1. n \in S /\ n <= n /\ n - n = 0
    BY <1>1, <1>8
  <2>2. Good(n - n)
    BY <2>1 DEF S
  <2> QED
    BY <2>1, <2>2
<1>10. Len(upTo[0]) = IntWidth(Ids)
  BY <1>2, Widths, WriteIntType
<1>11. SubSeq(recs, 0 + 1, n) = recs
  <2>1. 0 + 1 = 1 /\ SubSeq(recs, 1, Len(recs)) = recs
    BY SubSeqFull
  <2> QED
    BY <2>1 DEF n
<1> QED
  BY <1>2, <1>9, <1>10, <1>11 DEF n, stop

-----------------------------------------------------------------------------
(* The bits of a packet and the stop bit behind them.                      *)
Stopped(s) == s \o <<1>>

(* A packet whose bits are there, and zeroes behind them, is read whole.   *)
LEMMA PacketBack ==
  ASSUME NEW id \in 0 .. Ids - 1, NEW recs \in Seq(Sent), NEW upTo, Strung(id, recs, upTo),
         NEW bits \in Seq(Zero1), Len(Stopped(upTo[Len(recs)])) <= Len(bits),
         \A i \in Nat : Bit(bits, i) = Bit(Stopped(upTo[Len(recs)]), i)
  PROVE  Parse(bits) = [id |-> id, recs |-> recs]
<1> DEFINE s == upTo[Len(recs)]
           t == s \o <<1>>
           stop == Len(s)
<1>1. s \in Seq(Zero1)
  <2>1. Len(recs) \in 0 .. Len(recs)
    OBVIOUS
  <2> QED
    BY <2>1 DEF Strung
<1> HIDE DEF s
<1>2. <<1>> \in Seq(Zero1) /\ Len(<<1>>) = 1 /\ <<1>>[1] = 1
  BY OneBit DEF Zero1
<1>3. /\ t \in Seq(Zero1) /\ Len(t) = stop + 1 /\ stop \in Nat
      /\ t[stop + 1] = 1
  <2>1. /\ t \in Seq(Zero1) /\ Len(t) = Len(s) + 1
        /\ \A i \in 1 .. Len(s) + 1 : t[i] = IF i <= Len(s) THEN s[i] ELSE <<1>>[i - Len(s)]
    BY <1>1, <1>2, ConcatProperties
  <2>2. stop \in Nat
    BY <1>1
  <2> HIDE DEF stop, t
  <2>3. stop + 1 \in 1 .. stop + 1 /\ ~(stop + 1 <= stop) /\ (stop + 1) - stop = 1
    BY <2>2
  <2>4. t[stop + 1] = <<1>>[1]
    BY <2>1, <2>3 DEF stop
  <2> QED
    BY <1>2, <2>1, <2>2, <2>4 DEF stop
<1>4. Len(t) <= Len(bits) /\ \A i \in Nat : Bit(bits, i) = Bit(t, i)
  BY DEF s, Stopped
<1>5. At(bits, 0, t)
  <2> HIDE DEF t
  <2>1. ASSUME NEW i \in 1 .. Len(t) PROVE Bit(bits, 0 + i - 1) = t[i]
    <3>1. i - 1 \in Nat /\ i - 1 < Len(t) /\ (i - 1) + 1 = i /\ 0 + i - 1 = i - 1
      BY <1>3
    <3>2. Bit(t, i - 1) = t[i]
      BY <3>1 DEF Bit
    <3> QED
      BY <1>4, <3>1, <3>2
  <2> QED
    BY <2>1 DEF At
<1>6. At(bits, 0, s)
  BY <1>1, <1>2, <1>5, AtBoth
<1> HIDE DEF t
<1>7. Len(bits) \in Nat
  OBVIOUS
<1>8. \A i \in 1 .. Len(bits) : bits[i] = Bit(t, i - 1)
  <2> SUFFICES ASSUME NEW i \in 1 .. Len(bits) PROVE bits[i] = Bit(t, i - 1)
    OBVIOUS
  <2>1. i - 1 \in Nat /\ i - 1 < Len(bits) /\ (i - 1) + 1 = i
    BY <1>7
  <2> QED
    BY <1>4, <2>1 DEF Bit
<1>9. LastOne(bits) = stop + 1 /\ Ones(bits) # {}
  <2>1. stop + 1 \in Ones(bits)
    <3>1. stop + 1 \in 1 .. Len(bits) /\ (stop + 1) - 1 = stop /\ stop < Len(t)
      BY <1>3, <1>4, <1>7
    <3>2. bits[stop + 1] = 1
      BY <1>3, <1>8, <3>1 DEF Bit
    <3> QED
      BY <3>1, <3>2 DEF Ones
  <2>2. ASSUME NEW j \in Ones(bits) PROVE j <= stop + 1
    <3>1. j \in 1 .. Len(bits) /\ bits[j] = 1
      BY DEF Ones
    <3>2. Bit(t, j - 1) = 1
      BY <1>8, <3>1
    <3>3. j - 1 < Len(t)
      BY <3>2 DEF Bit
    <3> QED
      BY <1>3, <3>1, <3>3
  <2>3. LastOne(bits) \in Ones(bits) /\ \A j \in Ones(bits) : j <= LastOne(bits)
    BY <2>1, LastOneIs
  <2>4. LastOne(bits) <= stop + 1 /\ stop + 1 <= LastOne(bits)
    BY <2>1, <2>2, <2>3
  <2>5. LastOne(bits) \in Nat
    BY <2>3 DEF Ones
  <2> QED
    BY <1>3, <2>1, <2>4, <2>5
<1>10. LastOne(bits) - 1 = stop
  BY <1>3, <1>9
<1>11. id \in Nat /\ id < Ids /\ Ids \in Nat
  BY Widths
<1>12. At(bits, 0, WriteInt(id, Ids)) /\ Records(bits, IntWidth(Ids), stop) = recs
  <2>1. stop <= Len(bits)
    BY <1>3, <1>4, <1>7
  <2> QED
    BY <1>6, <1>11, <2>1, RecordsBack DEF s
<1>13. ReadInt(bits, 0, Ids) = id
  BY <1>11, <1>12, IntReadsBack
<1>14. NoneBad(recs)
  <2>1. \A r \in Sent : r # Bad
    BY DEF Sent, Ack, Bunch, Bad
  <2>2. \A i \in 1 .. Len(recs) : recs[i] \in Sent
    OBVIOUS
  <2> QED
    BY <2>1, <2>2 DEF NoneBad
<1> HIDE DEF stop
<1> QED
  BY <1>9, <1>10, <1>12, <1>13, <1>14, ParseIs

-----------------------------------------------------------------------------
(* Encryption: whole bytes come back.                                      *)
LEMMA CipherBack ==
  ASSUME NEW bits \in Seq(Zero1), NEW k \in Nat \ {0}, Len(bits) = Byte * k
  PROVE  /\ Decrypt(Encrypt(bits)) = bits
         /\ Encrypt(bits).body \in Seq(Zero1)
<1> DEFINE m == Byte * Block
           body == Padded(bits, m)
           d == Encrypt(bits)
<1>1. Byte \in Nat \ {0} /\ Block \in Nat \ {0} /\ m \in Nat \ {0}
  <2>1. Byte \in Nat \ {0} /\ Block \in Nat \ {0}
    BY StubAssumption
  <2>2. \A a, b \in Nat \ {0} : a * b \in Nat \ {0}
    OBVIOUS
  <2> QED
    BY <2>1, <2>2
<1> HIDE DEF m
<1>2. PICK j \in Nat : Len(body) = m * j /\ Len(bits) <= m * j
  BY <1>1, PaddedIs
<1>3. body \in Seq(Zero1) /\ \A i \in Nat : Bit(body, i) = Bit(bits, i)
  BY <1>1, PaddedIs
<1>4. Len(bits) \div Byte = k
  BY <1>1, RoundedAlready
<1>5. d.clear = k /\ d.body = body
  BY <1>4 DEF Encrypt, m
<1> HIDE DEF body, d
<1>6. k * Byte = Len(bits) /\ Len(bits) \in Nat /\ Len(bits) > 0
  <2>1. k * Byte = Byte * k
    BY <1>1
  <2>2. Byte * k > 0
    BY <1>1
  <2> QED
    BY <2>1, <2>2
<1>7. Len(body) % m = 0 /\ m * j \in Nat
  <2>1. (m * j) % m = 0
    BY <1>1, RoundedAlready
  <2> QED
    BY <1>1, <1>2, <2>1
<1>8. body # <<>>
  <2>1. Len(body) > 0
    BY <1>2, <1>6, <1>7
  <2> QED
    BY <2>1
<1>9. ~(d.clear < 1) /\ ~(d.clear * Byte > Len(d.body))
  BY <1>2, <1>5, <1>6, <1>7
<1>10. Decrypt(d) = SubSeq(body, 1, Len(bits))
  BY <1>5, <1>6, <1>7, <1>8, <1>9 DEF Decrypt, m
<1>11. SubSeq(body, 1, Len(bits)) = bits
  <2>1. At(body, 0, bits)
    <3>1. ASSUME NEW i \in 1 .. Len(bits) PROVE Bit(body, 0 + i - 1) = bits[i]
      <4>1. i - 1 \in Nat /\ i - 1 < Len(bits) /\ (i - 1) + 1 = i /\ 0 + i - 1 = i - 1
        BY <1>6
      <4>2. Bit(bits, i - 1) = bits[i]
        BY <4>1 DEF Bit
      <4> QED
        BY <1>3, <4>1, <4>2
    <3> QED
      BY <3>1 DEF At
  <2>2. 0 + Len(bits) <= Len(body) /\ 0 + 1 = 1 /\ 0 + Len(bits) = Len(bits)
    BY <1>2, <1>6, <1>7
  <2>3. SubSeq(body, 0 + 1, 0 + Len(bits)) = bits
    BY <1>3, <2>1, <2>2, CutOut
  <2> QED
    BY <2>2, <2>3
<1> QED
  BY <1>3, <1>5, <1>10, <1>11 DEF d

(* A datagram the server can read, the relay reads alike.                  *)
LEMMA RelayReadsAlike ==
  ASSUME NEW d, d.body \in Seq(Zero1), d.clear \in Nat, Parse(Decrypt(d)) # Broken
  PROVE  RelayReads(d) = Parse(Decrypt(d))
<1>1. <<>> \in Seq(Zero1) /\ Ones(<<>>) = {}
  BY DEF Ones
<1>2. Decrypt(d) # <<>>
  BY <1>1, ParseIs
<1>3. /\ ~(d.body = <<>> \/ Len(d.body) % (Byte * Block) # 0)
      /\ ~(d.clear < 1 \/ d.clear * Byte > Len(d.body))
  BY <1>2 DEF Decrypt
<1>4. Decrypt(d) = SubSeq(d.body, 1, d.clear * Byte)
  BY <1>3 DEF Decrypt
<1>5. RelayDecrypt(d) = SubSeq(d.body, 1, d.clear * Byte)
  BY <1>3 DEF RelayDecrypt
<1>6. Decrypt(d) \in Seq(Zero1)
  <2> DEFINE n == d.clear * Byte
  <2>1. n \in Nat /\ n <= Len(d.body) /\ Len(d.body) \in Nat
    <3>1. n \in Nat
      <4>1. Byte \in Nat
        BY StubAssumption
      <4> QED
        BY <4>1
    <3> QED
      BY <1>3, <3>1
  <2> HIDE DEF n
  <2>2. \A i \in 1 .. n : d.body[i] \in Zero1
    BY <2>1
  <2>3. SubSeq(d.body, 1, n) \in Seq(Zero1)
    BY <2>1, <2>2, SubSeqProperties
  <2> QED
    BY <1>4, <2>3 DEF n
<1>7. RelayParse(Decrypt(d)) = Parse(Decrypt(d))
  BY <1>6, RelayParsesAlike
<1> QED
  BY <1>4, <1>5, <1>7 DEF RelayReads

-----------------------------------------------------------------------------
(* The payloads fit.                                                       *)
LEMMA SmallBytes == 0 .. 15 \subseteq ByteValue
BY ByteFacts DEF ByteValue

(* A string of one byte takes three at most.                               *)
LEMMA FStringFits ==
  ASSUME NEW s \in Seq(ByteValue), Len(s) <= 1
  PROVE  FString(s) \in Seq(ByteValue) /\ Len(FString(s)) <= 3 /\ Len(FString(s)) \in Nat
         /\ (s = <<>> => Len(FString(s)) = 1)
<1>1. CASE s = <<>>
  <2>1. <<0>> \in Seq(ByteValue) /\ Len(<<0>>) = 1
    BY SmallBytes
  <2> QED
    BY <1>1, <2>1 DEF FString
<1>2. CASE s # <<>>
  <2>1. Len(s) \in Nat /\ Len(s) + 1 \in 0 .. 15
    OBVIOUS
  <2>2. <<Len(s) + 1>> \in Seq(ByteValue) /\ Len(<<Len(s) + 1>>) = 1
    BY <2>1, SmallBytes
  <2>3. <<0>> \in Seq(ByteValue) /\ Len(<<0>>) = 1
    BY SmallBytes
  <2>4. <<Len(s) + 1>> \o s \in Seq(ByteValue) /\ Len(<<Len(s) + 1>> \o s) = 1 + Len(s)
    BY <2>2, ConcatProperties
  <2> DEFINE h == <<Len(s) + 1>> \o s
  <2> HIDE DEF h
  <2>5. h \o <<0>> \in Seq(ByteValue) /\ Len(h \o <<0>>) = Len(h) + 1
    BY <2>3, <2>4, ConcatProperties DEF h
  <2>6. FString(s) = h \o <<0>>
    BY <1>2 DEF FString, h
  <2>7. Len(h) = 1 + Len(s)
    BY <2>4 DEF h
  <2> QED
    BY <1>2, <2>1, <2>5, <2>6, <2>7
<1> QED
  BY <1>1, <1>2

(* Seven bytes fit.                                                        *)
LEMMA PayloadFits ==
  ASSUME NEW p \in Seq(ByteValue), Len(p) <= 7
  PROVE  p \in Payload
<1>1. Len(p) \in Nat /\ Byte \in Nat /\ 7 * Byte < MaxBits /\ MaxBits \in Nat
  BY StubAssumption
<1>2. PICK x \in Nat : 7 = Len(p) + x
  <2>1. 7 - Len(p) \in Nat /\ 7 = Len(p) + (7 - Len(p))
    BY <1>1
  <2> QED
    BY <2>1
<1>3. 7 * Byte = Byte * Len(p) + Byte * x
  BY <1>1, <1>2
<1>4. Byte * x \in Nat /\ Byte * Len(p) \in Nat
  BY <1>1
<1>5. Byte * Len(p) < MaxBits
  BY <1>1, <1>3, <1>4
<1> QED
  BY <1>5 DEF Payload

(* Two strings of bytes, one behind the other.                             *)
LEMMA BothFit ==
  ASSUME NEW s \in Seq(ByteValue), NEW t \in Seq(ByteValue)
  PROVE  s \o t \in Seq(ByteValue) /\ Len(s \o t) = Len(s) + Len(t)
         /\ Len(s) \in Nat /\ Len(t) \in Nat
BY ConcatProperties

(* All that is said fits.                                                  *)
LEMMA Payloads ==
  /\ <<>> \in Payload
  /\ ChallengePayload \in Payload
  /\ WelcomePayload \in Payload
  /\ \A m \in {Hello, Login, Join} : PayloadOf(m) \in Payload
<1>1. <<>> \in Payload
  <2>1. <<>> \in Seq(ByteValue) /\ Len(<<>>) <= 7
    OBVIOUS
  <2> QED
    BY <2>1, PayloadFits
<1> DEFINE empty == FString(<<>>)
<1>2. empty \in Seq(ByteValue) /\ Len(empty) = 1
  <2>1. <<>> \in Seq(ByteValue) /\ Len(<<>>) <= 1
    OBVIOUS
  <2> QED
    BY <2>1, FStringFits
<1>3. ASSUME NEW b \in 0 .. 15
      PROVE  /\ FString(<<b>>) \in Seq(ByteValue)
             /\ Len(FString(<<b>>)) <= 3 /\ Len(FString(<<b>>)) \in Nat
  <2>1. <<b>> \in Seq(ByteValue) /\ Len(<<b>>) <= 1
    BY SmallBytes
  <2> QED
    BY <2>1, FStringFits
<1> HIDE DEF empty
<1>4. ChallengePayload \in Payload
  <2> DEFINE s == <<Challenged, Version>>
             t == FString(Zeroes)
  <2>1. s \in Seq(ByteValue) /\ Len(s) = 2
    BY SmallBytes DEF Challenged, Version
  <2>2. t \in Seq(ByteValue) /\ Len(t) <= 3 /\ Len(t) \in Nat
    BY <1>3 DEF Zeroes
  <2> HIDE DEF s, t
  <2>3. s \o t \in Seq(ByteValue) /\ Len(s \o t) = Len(s) + Len(t)
    BY <2>1, <2>2, BothFit
  <2>4. Len(s \o t) <= 7
    BY <2>1, <2>2, <2>3
  <2> QED
    BY <2>3, <2>4, PayloadFits DEF ChallengePayload, s, t
<1>5. WelcomePayload \in Payload
  <2> DEFINE s == <<Welcomed>>
             t == FString(Level)
             u == s \o t
  <2>1. s \in Seq(ByteValue) /\ Len(s) = 1
    BY SmallBytes DEF Welcomed
  <2>2. t \in Seq(ByteValue) /\ Len(t) <= 3 /\ Len(t) \in Nat
    BY <1>3 DEF Level
  <2> HIDE DEF s, t
  <2>3. u \in Seq(ByteValue) /\ Len(u) = Len(s) + Len(t)
    BY <2>1, <2>2, BothFit
  <2> HIDE DEF u
  <2>4. u \o empty \in Seq(ByteValue) /\ Len(u \o empty) = Len(u) + Len(empty)
    BY <1>2, <2>3, BothFit
  <2>5. Len(u \o empty) <= 7
    BY <1>2, <2>1, <2>2, <2>3, <2>4
  <2> QED
    BY <2>4, <2>5, PayloadFits DEF WelcomePayload, s, t, u, empty
<1>6. PayloadOf(Hello) \in Payload
  <2>1. <<Hello, 1>> \in Seq(ByteValue) /\ Len(<<Hello, 1>>) <= 7
    BY SmallBytes DEF Hello
  <2>2. PayloadOf(Hello) = <<Hello, 1>>
    BY DEF PayloadOf, Hello, Login
  <2> QED
    BY <2>1, <2>2, PayloadFits
<1>7. PayloadOf(Login) \in Payload
  <2> DEFINE s == <<Netspeed, 1, Login>>
             t == FString(<<6>>)
             u == s \o empty
  <2>1. s \in Seq(ByteValue) /\ Len(s) = 3
    BY SmallBytes DEF Netspeed, Login
  <2>2. t \in Seq(ByteValue) /\ Len(t) <= 3 /\ Len(t) \in Nat
    BY <1>3
  <2> HIDE DEF s, t
  <2>3. u \in Seq(ByteValue) /\ Len(u) = Len(s) + Len(empty)
    BY <1>2, <2>1, BothFit
  <2> HIDE DEF u
  <2>4. u \o t \in Seq(ByteValue) /\ Len(u \o t) = Len(u) + Len(t)
    BY <2>2, <2>3, BothFit
  <2>5. Len(u \o t) <= 7
    BY <1>2, <2>1, <2>2, <2>3, <2>4
  <2>6. PayloadOf(Login) = u \o t
    BY DEF PayloadOf, Login, Hello, s, t, u, empty
  <2> QED
    BY <2>4, <2>5, <2>6, PayloadFits
<1>8. PayloadOf(Join) \in Payload
  <2>1. <<Join>> \in Seq(ByteValue) /\ Len(<<Join>>) <= 7
    BY SmallBytes DEF Join
  <2>2. PayloadOf(Join) = <<Join>>
    BY DEF PayloadOf, Join, Hello, Login
  <2> QED
    BY <2>1, <2>2, PayloadFits
<1> QED
  BY <1>1, <1>4, <1>5, <1>6, <1>7, <1>8

-----------------------------------------------------------------------------
(* The packets are records of what is sent.                                *)
Talk == {Bunch(open, 0, 1, 0, seq, 1, payload) :
           open \in {0, 1}, seq \in 0 .. Seqs - 1,
           payload \in {ChallengePayload, WelcomePayload} \cup
                         {PayloadOf(m) : m \in {Hello, Login, Join}}}
        \cup {Bunch(0, 1, 1, 0, seq, 1, <<>>) : seq \in 0 .. Seqs - 1}
Said == {Ack(i) : i \in 0 .. Ids - 1}
AtMostOne(S) == {<<>>} \cup {<<r>> : r \in S}

(* None or one is a sequence.                                              *)
LEMMA AtMostOneIs ==
  ASSUME NEW All, NEW S \in SUBSET All
  PROVE  AtMostOne(S) \subseteq Seq(All)
<1>1. <<>> \in Seq(All)
  OBVIOUS
<1>2. ASSUME NEW r \in S PROVE <<r>> \in Seq(All)
  <2>1. r \in All
    OBVIOUS
  <2> QED
    BY <2>1
<1> QED
  BY <1>1, <1>2 DEF AtMostOne

(* A packet has at most one ack and at most one bunch.                     *)
LEMMA PacketsAre ==
  \A p : p \in Packet <=>
          \E id \in 0 .. Ids - 1, a \in AtMostOne(Said), b \in AtMostOne(Talk) :
             p = [id |-> id, recs |-> a \o b]
<1>1. Packet = {[id |-> id, recs |-> a \o b] :
                  id \in 0 .. Ids - 1, a \in AtMostOne(Said), b \in AtMostOne(Talk)}
  BY DEF Packet, Said, Talk, AtMostOne
<1>2. ASSUME NEW I, NEW A, NEW B
      PROVE  \A p : p \in {[id |-> id, recs |-> a \o b] : id \in I, a \in A, b \in B} <=>
                     \E id \in I, a \in A, b \in B : p = [id |-> id, recs |-> a \o b]
  OBVIOUS
<1> QED
  BY <1>1, <1>2

(* Its records are among those that are read back.                         *)
LEMMA PacketIs ==
  ASSUME NEW p \in Packet
  PROVE  /\ p = [id |-> p.id, recs |-> p.recs]
         /\ p.id \in 0 .. Ids - 1
         /\ p.recs \in Seq(Sent)
<1>1. Talk \subseteq Sent
  <2>1. ASSUME NEW open \in {0, 1}, NEW seq \in 0 .. Seqs - 1,
               NEW payload \in {ChallengePayload, WelcomePayload} \cup
                                 {PayloadOf(m) : m \in {Hello, Login, Join}}
        PROVE  Bunch(open, 0, 1, 0, seq, 1, payload) \in Sent
    <3>1. payload \in Payload /\ 0 \in {0, 1}
      BY Payloads
    <3> QED
      BY <3>1 DEF Sent
  <2>2. ASSUME NEW seq \in 0 .. Seqs - 1 PROVE Bunch(0, 1, 1, 0, seq, 1, <<>>) \in Sent
    <3>1. <<>> \in Payload /\ 0 \in {0, 1} /\ 1 \in {0, 1}
      BY Payloads
    <3> QED
      BY <3>1 DEF Sent
  <2> QED
    BY <2>1, <2>2 DEF Talk
<1>2. Said \subseteq Sent
  BY DEF Sent, Said
<1>3. PICK id \in 0 .. Ids - 1, a \in AtMostOne(Said), b \in AtMostOne(Talk) :
        p = [id |-> id, recs |-> a \o b]
  BY PacketsAre
<1>4. a \in Seq(Sent) /\ b \in Seq(Sent)
  BY <1>1, <1>2, <1>3, AtMostOneIs
<1>5. a \o b \in Seq(Sent)
  BY <1>4, ConcatProperties
<1> QED
  BY <1>3, <1>5

(* What Encrypt(Build(p)) is, and that it comes back.                      *)
LEMMA PacketComesBack ==
  ASSUME NEW p \in Packet
  PROVE  /\ Parse(Decrypt(Encrypt(Build(p)))) = p
         /\ Encrypt(Build(p)).body \in Seq(Zero1)
<1>1. /\ p = [id |-> p.id, recs |-> p.recs]
      /\ p.id \in 0 .. Ids - 1 /\ p.id \in Nat
      /\ p.recs \in Seq(Sent)
  BY PacketIs, Widths
<1> DEFINE n == Len(p.recs)
<1>2. PICK upTo : Strung(p.id, p.recs, upTo) /\ Build(p) = Padded(upTo[n] \o <<1>>, Byte)
  BY <1>1, Builds
<1> DEFINE t == upTo[n] \o <<1>>
           bits == Build(p)
<1>3. t \in Seq(Zero1) /\ Len(t) \in Nat \ {0}
  <2>1. n \in 0 .. n
    BY <1>1
  <2>2. upTo[n] \in Seq(Zero1)
    BY <1>2, <2>1 DEF Strung
  <2>3. <<1>> \in Seq(Zero1) /\ Len(<<1>>) = 1
    BY OneBit DEF Zero1
  <2>4. Len(upTo[n]) \in Nat /\ Len(t) = Len(upTo[n]) + 1 /\ t \in Seq(Zero1)
    BY <2>2, <2>3, Joined
  <2> HIDE DEF t
  <2> QED
    BY <2>4
<1>4. bits = Padded(t, Byte) /\ Byte \in Nat \ {0}
  BY <1>2, ByteFacts
<1> HIDE DEF t, bits
<1>5. bits \in Seq(Zero1) /\ \A i \in Nat : Bit(bits, i) = Bit(t, i)
  BY <1>3, <1>4, PaddedIs
<1>6. PICK k \in Nat : Len(bits) = Byte * k /\ Len(t) <= Byte * k
  BY <1>3, <1>4, PaddedIs
<1>7. k # 0
  <2>1. k = 0 => Byte * k = 0
    BY <1>4
  <2> QED
    BY <1>3, <1>6, <2>1
<1>8. Parse(bits) = [id |-> p.id, recs |-> p.recs]
  BY <1>1, <1>2, <1>5, <1>6, PacketBack DEF t, Stopped
<1>9. Decrypt(Encrypt(bits)) = bits /\ Encrypt(bits).body \in Seq(Zero1)
  BY <1>5, <1>6, <1>7, CipherBack
<1> QED
  BY <1>1, <1>8, <1>9 DEF bits

(* Every packet of either side comes out as it went in.                    *)
LEMMA PacketsIntact == Packet \subseteq Intact
BY PacketComesBack DEF Intact

(* And the relay reads it, whatever the datagram says of its length, if the *)
(* server would.                                                           *)
LEMMA PacketsReadAlike == Packet \subseteq SameReading
<1> SUFFICES ASSUME NEW p \in Packet PROVE p \in SameReading
  OBVIOUS
<1> DEFINE whole == Encrypt(Build(p))
<1>1. Parse(Decrypt(whole)) = p /\ whole.body \in Seq(Zero1)
  BY PacketComesBack
<1>2. p # Broken
  <2>1. p.id \in 0 .. Ids - 1 /\ Ids \in Nat
    BY PacketIs, Widths
  <2>2. Broken.id = -1
    BY DEF Broken, None
  <2> QED
    BY <2>1, <2>2
<1>3. whole = [clear |-> whole.clear, body |-> whole.body] /\ whole.clear \in Nat
  <2>1. /\ whole = [clear |-> Len(Build(p)) \div Byte, body |-> Padded(Build(p), Byte * Block)]
    BY DEF Encrypt
  <2>2. Len(Build(p)) \in Nat
    <3>1. PICK upTo : /\ Strung(p.id, p.recs, upTo)
                      /\ Build(p) = Padded(upTo[Len(p.recs)] \o <<1>>, Byte)
      BY PacketIs, Widths, Builds, SMTT(30)
    <3> QED
      BY <3>1
  <2>3. Len(Build(p)) \div Byte \in Nat
    BY <2>2, ByteFacts
  <2> HIDE DEF whole
  <2> QED
    BY <2>1, <2>3
<1> HIDE DEF whole
<1>4. RelayReads(whole) = p
  BY <1>1, <1>2, <1>3, RelayReadsAlike
<1>5. ASSUME NEW d \in Claims(p), Parse(Decrypt(d)) # Broken
      PROVE  RelayReads(d) = Parse(Decrypt(d))
  <2>1. PICK n \in 0 .. Len(whole.body) \div Byte + 1 : d = [whole EXCEPT !.clear = n]
    BY DEF Claims, whole
  <2>2. d.clear = n /\ d.body = whole.body
    BY <1>3, <2>1
  <2>3. n \in Nat
    <3>1. Len(whole.body) \in Nat
      BY <1>1
    <3>2. Len(whole.body) \div Byte \in Nat
      <4>1. \A x \in Nat : x \div Byte \in Nat
        BY ByteFacts
      <4> QED
        BY <3>1, <4>1
    <3> QED
      BY <3>2
  <2> QED
    BY <1>1, <1>5, <2>2, <2>3, RelayReadsAlike
<1> QED
  BY <1>4, <1>5 DEF SameReading, whole

-----------------------------------------------------------------------------
(* The loop of the control messages.                                       *)
ControlsFrom(from, payload, pos) ==
  IF pos > Len(payload) THEN {}
  ELSE CASE payload[pos] = Netspeed ->
              IF pos = Len(payload) THEN {} ELSE {Netspeed} \cup from[pos + 2]
         [] payload[pos] = Login ->
              LET url == AfterFString(payload, pos + 1)
              IN IF url = None THEN {}
                 ELSE IF AfterFString(payload, url) = None THEN {} ELSE {Login}
         [] OTHER -> {payload[pos]}

(* A Netspeed ends two bytes further.                                      *)
LEMMA AfterNetspeed ==
  ASSUME NEW payload \in Seq(Nat), NEW p \in Nat, payload[p] = Netspeed, NEW f
  PROVE  /\ p < Len(payload) => ControlsFrom(f, payload, p) = {Netspeed} \cup f[p + 2]
         /\ ~(p < Len(payload)) => ControlsFrom(f, payload, p) = {}
<1>1. Len(payload) \in Nat
  OBVIOUS
<1>2. CASE p < Len(payload)
  <2>1. ~(p > Len(payload)) /\ p # Len(payload)
    BY <1>1, <1>2
  <2> QED
    BY <1>2, <2>1 DEF ControlsFrom, Netspeed, Login
<1>3. CASE p = Len(payload)
  <2>1. ~(p > Len(payload)) /\ ~(p < Len(payload))
    BY <1>1, <1>3
  <2> QED
    BY <1>3, <2>1 DEF ControlsFrom, Netspeed, Login
<1>4. CASE p > Len(payload)
  <2>1. ~(p < Len(payload))
    BY <1>1, <1>4
  <2> QED
    BY <1>4, <2>1 DEF ControlsFrom
<1> QED
  BY <1>1, <1>2, <1>3, <1>4

(* The loop is a recursive function.                                       *)
LEMMA ControlsAre ==
  ASSUME NEW payload \in Seq(Nat)
  PROVE  \E from : /\ Controls(payload) = from[1]
                   /\ \A pos \in Nat : from[pos] = ControlsFrom(from, payload, pos)
<1> DEFINE top == Len(payload)
           goes == {p \in Nat : p < top /\ payload[p] = Netspeed}
           V == SUBSET ({Netspeed, Login} \cup {payload[p] : p \in Nat})
           next == [p \in goes |-> p + 2]
           g == [p \in goes |-> [v \in V |-> {Netspeed} \cup v]]
           none == [p \in Nat |-> {}]
           last == [p \in Nat |-> IF payload[p] = Netspeed THEN {}
                                  ELSE ControlsFrom(none, payload, p)]
           from == CHOOSE f : f = [p \in Nat |-> ControlsFrom(f, payload, p)]
<1>0. top \in Nat
  OBVIOUS
<1>1. next \in [goes -> Nat] /\ goes \in SUBSET Nat /\ \A p \in goes : p < top /\ p < next[p]
  BY <1>0
<1>2. g \in [goes -> [V -> V]]
  OBVIOUS
<1>3. ASSUME NEW p \in Nat, NEW f, p > top \/ payload[p] # Netspeed
      PROVE  /\ ControlsFrom(f, payload, p) = ControlsFrom(none, payload, p)
             /\ ControlsFrom(f, payload, p) \in V
  BY <1>3 DEF ControlsFrom
<1>4. last \in [Nat -> V]
  <2>1. ASSUME NEW p \in Nat PROVE last[p] \in V
    <3>1. CASE payload[p] = Netspeed
      BY <3>1
    <3>2. CASE payload[p] # Netspeed
      <4>1. ControlsFrom(none, payload, p) \in V
        BY <1>3, <3>2
      <4> HIDE DEF V, none
      <4> QED
        BY <3>2, <4>1
    <3> QED
      BY <3>1, <3>2
  <2> HIDE DEF V
  <2> QED
    BY <2>1
<1>5. \E f \in [Nat -> V] : Unfolds(f, Nat, goes, next, g, last)
  <2> HIDE DEF V, goes, next, g, last, top
  <2> QED
    BY <1>0, <1>1, <1>2, <1>4, ForwardRecursion
<1>6. PICK f \in [Nat -> V] : Unfolds(f, Nat, goes, next, g, last)
  BY <1>5
<1>7. \A p \in Nat : f[p] = IF p \in goes THEN g[p][f[next[p]]] ELSE last[p]
  BY <1>6 DEF Unfolds
<1>8. ASSUME NEW p \in Nat PROVE f[p] = ControlsFrom(f, payload, p)
  <2>1. CASE p \in goes
    <3>1. next[p] = p + 2 /\ p + 2 \in Nat /\ p < top /\ payload[p] = Netspeed
      BY <2>1
    <3>2. f[p + 2] \in V
      BY <3>1
    <3>3. g[p][f[p + 2]] = {Netspeed} \cup f[p + 2]
      BY <2>1, <3>2
    <3>4. f[p] = g[p][f[next[p]]]
      <4> HIDE DEF goes, g, next, last, V
      <4> QED
        BY <1>7, <2>1
    <3>5. ControlsFrom(f, payload, p) = {Netspeed} \cup f[p + 2]
      <4> HIDE DEF g, goes, next, last, V
      <4> QED
        BY <3>1, AfterNetspeed
    <3> HIDE DEF goes, g, next, last, V
    <3> QED
      BY <3>1, <3>3, <3>4, <3>5
  <2>2. CASE p \notin goes
    <3>1. f[p] = last[p]
      <4> HIDE DEF goes, g, next, last, V
      <4> QED
        BY <1>7, <2>2
    <3>2. CASE payload[p] = Netspeed
      <4>1. ~(p < top)
        BY <2>2, <3>2
      <4>2. last[p] = {}
        BY <3>2
      <4>3. ControlsFrom(f, payload, p) = {}
        <5> HIDE DEF g, goes, next, last, V
        <5> QED
          BY <3>2, <4>1, AfterNetspeed
      <4> QED
        BY <3>1, <4>2, <4>3
    <3>3. CASE payload[p] # Netspeed
      <4>1. last[p] = ControlsFrom(none, payload, p)
        BY <3>3
      <4> HIDE DEF last
      <4> QED
        BY <1>3, <3>1, <3>3, <4>1
    <3> QED
      BY <3>2, <3>3
  <2> QED
    BY <2>1, <2>2
<1>9. f = [p \in Nat |-> ControlsFrom(f, payload, p)]
  <2> HIDE DEF V
  <2> QED
    BY <1>8
<1>10. from = [p \in Nat |-> ControlsFrom(from, payload, p)]
  BY <1>9
<1>11. Controls(payload) = from[1]
  BY DEF Controls, ControlsFrom
<1> HIDE DEF from
<1> QED
  BY <1>10, <1>11

Chain(u, s, t) ==
  /\ u \in Seq(Nat) /\ Len(u) = Len(s) + Len(t)
  /\ \A i \in Nat \ {0} : i <= Len(s) => u[i] = s[i]
  /\ \A i \in Nat \ {0} : i <= Len(t) => u[Len(s) + i] = t[i]

(* Two payloads, one behind the other.                                     *)
LEMMA Chained ==
  ASSUME NEW s \in Seq(Nat), NEW t \in Seq(Nat)
  PROVE  Chain(s \o t, s, t)
<1>1. Len(s) \in Nat /\ Len(t) \in Nat
  OBVIOUS
<1>2. ASSUME NEW i \in Nat \ {0}, i <= Len(s) PROVE (s \o t)[i] = s[i]
  <2>1. i \in 1 .. Len(s) + Len(t)
    BY <1>1, <1>2
  <2> QED
    BY <1>2, <2>1, ConcatProperties
<1>3. ASSUME NEW i \in Nat \ {0}, i <= Len(t) PROVE (s \o t)[Len(s) + i] = t[i]
  <2> DEFINE j == Len(s) + i
  <2>1. j \in 1 .. Len(s) + Len(t) /\ ~(j <= Len(s)) /\ j - Len(s) = i
    BY <1>1, <1>3
  <2> HIDE DEF j
  <2>2. (s \o t)[j] = t[j - Len(s)]
    BY <2>1, ConcatProperties
  <2> QED
    BY <2>1, <2>2 DEF j
<1> QED
  BY <1>2, <1>3, ConcatProperties DEF Chain

(* The game's messages are found in what it sends.                         *)
LEMMA MessageFound ==
  ASSUME NEW m \in {Hello, Login, Join}
  PROVE  m \in Controls(PayloadOf(m))
<1>1. CASE m = Hello
  <2>1. PayloadOf(m) = <<0, 1>>
    BY <1>1 DEF PayloadOf, Hello, Login
  <2>2. <<0, 1>> \in Seq(Nat) /\ Len(<<0, 1>>) = 2
    OBVIOUS
  <2>3. PICK from : /\ Controls(<<0, 1>>) = from[1]
                    /\ \A pos \in Nat : from[pos] = ControlsFrom(from, <<0, 1>>, pos)
    BY <2>2, ControlsAre
  <2>4. from[1] = ControlsFrom(from, <<0, 1>>, 1)
    BY <2>3
  <2>5. ControlsFrom(from, <<0, 1>>, 1) = {0}
    BY DEF ControlsFrom, Netspeed, Login
  <2> QED
    BY <1>1, <2>1, <2>3, <2>4, <2>5 DEF Hello
<1>2. CASE m = Join
  <2>1. PayloadOf(m) = <<9>>
    BY <1>2 DEF PayloadOf, Hello, Login, Join
  <2>2. <<9>> \in Seq(Nat) /\ Len(<<9>>) = 1
    OBVIOUS
  <2>3. PICK from : /\ Controls(<<9>>) = from[1]
                    /\ \A pos \in Nat : from[pos] = ControlsFrom(from, <<9>>, pos)
    BY <2>2, ControlsAre
  <2>4. from[1] = ControlsFrom(from, <<9>>, 1)
    BY <2>3
  <2>5. ControlsFrom(from, <<9>>, 1) = {9}
    BY DEF ControlsFrom, Netspeed, Login
  <2> QED
    BY <1>2, <2>1, <2>3, <2>4, <2>5 DEF Join
<1>3. CASE m = Login
  <2> DEFINE head == <<4, 1, 5>>
             mid == <<1 + 1>>
             name == <<6>>
             zero == <<0>>
             u == head \o zero
             v == mid \o name
             w == v \o zero
             p == u \o w
  <2>0. /\ head \in Seq(Nat) /\ Len(head) = 3 /\ head[1] = 4 /\ head[3] = 5
        /\ mid \in Seq(Nat) /\ Len(mid) = 1 /\ mid[1] = 2
        /\ name \in Seq(Nat) /\ Len(name) = 1 /\ name # <<>>
        /\ zero \in Seq(Nat) /\ Len(zero) = 1 /\ zero[1] = 0
    OBVIOUS
  <2>1. PayloadOf(m) = p
    <3>1. FString(name) = mid \o name \o zero
      BY <2>0 DEF FString
    <3>2. FString(<<>>) = zero
      BY DEF FString
    <3>3. PayloadOf(m) = head \o FString(<<>>) \o FString(name)
      BY <1>3 DEF PayloadOf, Hello, Login, Netspeed
    <3> HIDE DEF head, mid, name, zero
    <3> QED
      BY <3>1, <3>2, <3>3
  <2> HIDE DEF head, mid, name, zero
  <2>a. u \in Seq(Nat) /\ Len(u) = 4 /\ u[1] = 4 /\ u[3] = 5 /\ u[4] = 0
    <3>1. /\ 1 <= Len(head) /\ 3 <= Len(head) /\ 1 <= Len(zero)
          /\ Len(head) + 1 = 4 /\ Len(head) + Len(zero) = 4
      BY <2>0
    <3>a. Chain(u, head, zero)
      BY <2>0, Chained
    <3> HIDE DEF u
    <3>2. /\ u \in Seq(Nat) /\ Len(u) = Len(head) + Len(zero)
          /\ u[1] = head[1] /\ u[3] = head[3] /\ u[Len(head) + 1] = zero[1]
      BY <3>a, <3>1 DEF Chain
    <3> QED
      BY <2>0, <3>1, <3>2
  <2>b. v \in Seq(Nat) /\ Len(v) = 2 /\ v[1] = 2
    <3>1. 1 <= Len(mid) /\ Len(mid) + Len(name) = 2
      BY <2>0
    <3>a. Chain(v, mid, name)
      BY <2>0, Chained
    <3> HIDE DEF v
    <3>2. v \in Seq(Nat) /\ Len(v) = Len(mid) + Len(name) /\ v[1] = mid[1]
      BY <3>a, <3>1 DEF Chain
    <3> QED
      BY <2>0, <3>1, <3>2
  <2> HIDE DEF u, v
  <2>c. w \in Seq(Nat) /\ Len(w) = 3 /\ w[1] = 2
    <3>1. 1 <= Len(v) /\ Len(v) + Len(zero) = 3
      BY <2>0, <2>b
    <3>a. Chain(w, v, zero)
      BY <2>0, <2>b, Chained
    <3> HIDE DEF w
    <3>2. w \in Seq(Nat) /\ Len(w) = Len(v) + Len(zero) /\ w[1] = v[1]
      BY <3>a, <3>1 DEF Chain
    <3> QED
      BY <2>b, <3>1, <3>2
  <2> HIDE DEF w
  <2>2. p \in Seq(Nat) /\ Len(p) = 7 /\ p[1] = 4 /\ p[3] = 5 /\ p[4] = 0 /\ p[5] = 2
    <3>1. /\ 1 <= Len(u) /\ 3 <= Len(u) /\ 4 <= Len(u) /\ 1 <= Len(w)
          /\ Len(u) + 1 = 5 /\ Len(u) + Len(w) = 7
      BY <2>a, <2>c
    <3>a. Chain(p, u, w)
      BY <2>a, <2>c, Chained
    <3> HIDE DEF p
    <3>2. /\ p \in Seq(Nat) /\ Len(p) = Len(u) + Len(w)
          /\ p[1] = u[1] /\ p[3] = u[3] /\ p[4] = u[4] /\ p[Len(u) + 1] = w[1]
      BY <3>a, <3>1 DEF Chain
    <3> QED
      BY <2>a, <2>c, <3>1, <3>2
  <2>3. TwoTo[Byte - 1] > 2 /\ TwoTo[Byte - 1] \in Nat
    <3>1. Byte - 1 \in Nat /\ Byte - 1 > 2
      BY ByteFacts
    <3> QED
      BY <3>1, TwoToStep
  <2> HIDE DEF p
  <2>4. PICK from : /\ Controls(p) = from[1]
                    /\ \A pos \in Nat : from[pos] = ControlsFrom(from, p, pos)
    BY <2>2, ControlsAre
  <2>5. from[1] = ControlsFrom(from, p, 1) /\ from[3] = ControlsFrom(from, p, 3)
    BY <2>4
  <2>6. ControlsFrom(from, p, 1) = {4} \cup from[3]
    BY <2>2 DEF ControlsFrom, Netspeed, Login
  <2>7. AfterFString(p, 4) = 5 /\ AfterFString(p, 5) = 8
    BY <2>2, <2>3 DEF AfterFString, None
  <2>8. ControlsFrom(from, p, 3) = {5}
    BY <2>2, <2>7 DEF ControlsFrom, Netspeed, Login, None
  <2> QED
    BY <1>3, <2>1, <2>4, <2>5, <2>6, <2>8 DEF Login
<1> QED
  BY <1>1, <1>2, <1>3

-----------------------------------------------------------------------------
(* The inductive invariant.  A packet under way is one that the two sides  *)
(* send; an ack in it is of what the server has acknowledged; and those of *)
(* the message the game waits for bear that message, so that the server    *)
(* has handled the message when it has acknowledged one of them.           *)
SidesType ==
  /\ st \in [id : 0 .. Ids - 1, seq : 0 .. Seqs - 1, challenge : BOOLEAN, welcome : BOOLEAN,
             acked : SUBSET (0 .. cli.next - 1), join : BOOLEAN, due : BOOLEAN]
  /\ cli \in [pc : {"hello", "login", "in", "closed", "rejected"},
              out : {None, Hello, Login, Join}, ids : SUBSET (0 .. cli.next - 1),
              next : 0 .. Ids, seq : 1 .. 3, expect : Nat, acked : SUBSET {Hello, Login, Join},
              early : Nat, idle : Nat]
  /\ cli.pc # "closed" => cli.next < Ids
  /\ cli.pc = "closed" => cli.out = None
  /\ cli.pc = "hello" => cli.seq = 1
  /\ cli.pc = "login" => cli.seq = 2

Asks == <<Bunch(IF cli.out = Hello THEN 1 ELSE 0, 0, 1, 0, cli.seq, 1, PayloadOf(cli.out))>>

Travels(d) ==
  /\ d \in [to : {"server", "client"}, pkt : Packet]
  /\ d.to = "server" => d.pkt.id < cli.next
  /\ d.to = "client" => Acks(d.pkt) \subseteq st.acked
  /\ d.to = "server" /\ cli.out # None /\ d.pkt.id \in cli.ids => d.pkt.recs = Asks

NetInv == \A d \in net : Travels(d)

AckInv ==
  /\ cli.out # None /\ cli.ids \cap st.acked # {} => cli.out \in handled
  /\ cli.acked \subseteq handled

StubInv == SidesType /\ NetInv /\ AckInv

(* The packets either side makes.                                          *)
LEMMA PacketMade ==
  ASSUME NEW id \in 0 .. Ids - 1, NEW a \in AtMostOne(Said), NEW b \in AtMostOne(Talk)
  PROVE  [id |-> id, recs |-> a \o b] \in Packet
<1> DEFINE p == [id |-> id, recs |-> a \o b]
<1>1. \E i \in 0 .. Ids - 1, c \in AtMostOne(Said), e \in AtMostOne(Talk) :
        p = [id |-> i, recs |-> c \o e]
  OBVIOUS
<1> HIDE DEF p
<1>2. p \in Packet
  BY <1>1, PacketsAre
<1> QED
  BY <1>2 DEF p

(* A packet without an ack.                                                *)
LEMMA PacketOfOne ==
  ASSUME NEW id \in 0 .. Ids - 1, NEW b \in AtMostOne(Talk)
  PROVE  [id |-> id, recs |-> b] \in Packet
<1>1. <<>> \in AtMostOne(Said) /\ [id |-> id, recs |-> <<>> \o b] \in Packet
  BY PacketMade DEF AtMostOne
<1>2. b \in Seq(Talk)
  BY AtMostOneIs
<1>3. <<>> \o b = b
  BY <1>2, ConcatEmptySeq
<1> QED
  BY <1>1, <1>3

(* The bunches either side makes.                                          *)
LEMMA Talks ==
  /\ \A open \in {0, 1}, seq \in 0 .. Seqs - 1 :
       /\ Bunch(open, 0, 1, 0, seq, 1, ChallengePayload) \in Talk
       /\ Bunch(open, 0, 1, 0, seq, 1, WelcomePayload) \in Talk
       /\ \A m \in {Hello, Login, Join} : Bunch(open, 0, 1, 0, seq, 1, PayloadOf(m)) \in Talk
  /\ \A seq \in 0 .. Seqs - 1 : Bunch(0, 1, 1, 0, seq, 1, <<>>) \in Talk
BY DEF Talk

(* The ack of a reply is the only one in it.                               *)
LEMMA AcksIn ==
  ASSUME NEW id, NEW a \in AtMostOne(Said), NEW b \in AtMostOne(Talk),
         NEW i \in Acks([id |-> id, recs |-> a \o b])
  PROVE  a = <<Ack(i)>>
<1> DEFINE recs == a \o b
           All == Said \cup Talk
<1>1. a \in Seq(All) /\ b \in Seq(All)
  <2>1. Said \subseteq All /\ Talk \subseteq All
    OBVIOUS
  <2> HIDE DEF All
  <2> QED
    BY <2>1, AtMostOneIs
<1>2. \A r \in Talk : r.kind = "bunch"
  BY DEF Talk, Bunch
<1>3. \A n \in 1 .. Len(b) : b[n].kind = "bunch"
  BY <1>2 DEF AtMostOne
<1>4. PICK j \in 1 .. Len(recs) : recs[j].kind = "ack" /\ i = recs[j].id
  BY DEF Acks
<1>5. j \in 1 .. Len(a) + Len(b) /\ Len(a) \in Nat /\ Len(b) \in Nat
  BY <1>1, <1>4, ConcatProperties
<1>6. recs[j] = IF j <= Len(a) THEN a[j] ELSE b[j - Len(a)]
  BY <1>1, <1>5, ConcatProperties
<1> HIDE DEF recs, All
<1>7. j <= Len(a)
  <2>1. SUFFICES ASSUME ~(j <= Len(a)) PROVE FALSE
    OBVIOUS
  <2>2. j - Len(a) \in 1 .. Len(b)
    BY <1>5, <2>1
  <2>3. recs[j].kind = "bunch"
    BY <1>3, <1>6, <2>1, <2>2
  <2> QED
    BY <1>4, <2>3
<1>8. a[j] = recs[j]
  BY <1>6, <1>7
<1>9. PICK r \in Said : a = <<r>>
  <2>1. a # <<>>
    BY <1>5, <1>7
  <2> QED
    BY <2>1 DEF AtMostOne
<1>10. j = 1 /\ r = recs[j]
  BY <1>5, <1>7, <1>8, <1>9
<1>11. PICK k \in 0 .. Ids - 1 : r = Ack(k)
  BY DEF Said
<1>12. Ack(k).id = k
  BY DEF Ack
<1> QED
  BY <1>4, <1>9, <1>10, <1>11, <1>12

(* A keepalive bears no ack.                                               *)
LEMMA NoAcks ==
  ASSUME NEW id
  PROVE  Acks([id |-> id, recs |-> <<>>]) = {}
BY DEF Acks

(* The game's message is among those of its packets.                       *)
LEMMA AskedIsFound ==
  ASSUME NEW pkt, pkt.recs = Asks, cli.out \in {Hello, Login, Join}
  PROVE  cli.out \in Messages(pkt)
<1> DEFINE b == Bunch(IF cli.out = Hello THEN 1 ELSE 0, 0, 1, 0, cli.seq, 1, PayloadOf(cli.out))
<1>1. b.kind = "bunch" /\ b.chan = 0 /\ b.payload = PayloadOf(cli.out)
  BY DEF Bunch
<1>2. pkt.recs = <<b>>
  BY DEF Asks
<1> HIDE DEF b
<1>3. b \in Bunches(pkt)
  BY <1>1, <1>2 DEF Bunches
<1>4. cli.out \in Controls(b.payload)
  BY <1>1, MessageFound
<1> QED
  BY <1>1, <1>3, <1>4 DEF Messages

(* It holds in the beginning.                                              *)
LEMMA StubStarts == StubInit => StubInv
<1> SUFFICES ASSUME StubInit PROVE StubInv
  OBVIOUS
<1>1. Ids \in Nat \ {0} /\ Seqs \in Nat \ {0} /\ Seqs > 4
  BY Widths
<1>2. SidesType
  BY <1>1 DEF StubInit, SidesType, Fresh, Game
<1>3. NetInv /\ AckInv
  BY DEF StubInit, NetInv, AckInv, Game
<1> QED
  BY <1>2, <1>3 DEF StubInv

(* A datagram travels on while the acks it bears stay the server's and the *)
(* game waits for nothing new by it.                                       *)
LEMMA TravelsOn ==
  ASSUME NEW d, Travels(d), st.acked \subseteq st'.acked,
         d.to = "server" => d.pkt.id < cli'.next,
         d.to = "server" /\ cli'.out # None /\ d.pkt.id \in cli'.ids
           => cli.out # None /\ d.pkt.id \in cli.ids /\ Asks' = Asks
  PROVE  Travels(d)'
<1>1. (d \in [to : {"server", "client"}, pkt : Packet])'
  BY DEF Travels
<1>2. d.to = "client" => Acks(d.pkt) \subseteq st'.acked
  BY DEF Travels
<1>3. d.to = "server" /\ cli'.out # None /\ d.pkt.id \in cli'.ids => d.pkt.recs = Asks'
  BY DEF Travels
<1> QED
  BY <1>1, <1>2, <1>3 DEF Travels

(* The ids of what is under way.                                           *)
LEMMA IdsAreNumbers ==
  ASSUME NEW d, Travels(d)
  PROVE  d.pkt.id \in 0 .. Ids - 1 /\ d.pkt.id \in Nat
<1>1. d.pkt \in Packet
  BY DEF Travels
<1>2. d.pkt.id \in 0 .. Ids - 1 /\ Ids \in Nat
  BY <1>1, PacketIs, Widths
<1> QED
  BY <1>2

(* The server: what it acknowledges it has handled.                        *)
LEMMA ReceivesStep == StubInv /\ Receives => StubInv'
<1> SUFFICES ASSUME StubInv, Receives PROVE StubInv'
  OBVIOUS
<1>1. PICK d \in {e \in net : e.to = "server"}, again \in BOOLEAN :
        Answers(d.pkt, IF again THEN net ELSE net \ {d}) /\ UNCHANGED cli
  BY DEF Receives
<1> DEFINE pkt == d.pkt
           rest == IF again THEN net ELSE net \ {d}
           answer == AnswerTo(pkt)
           needs == NeedsAck(pkt)
           after == IF needs \/ answer # <<>> THEN (st.id + 1) % Ids ELSE st.id
           joined == st.join \/ Join \in Messages(pkt)
           alive == joined /\ st.due
<1>2. /\ d \in net /\ rest \subseteq net /\ Travels(d) /\ d.to = "server"
      /\ pkt.id \in 0 .. Ids - 1 /\ pkt.id \in Nat /\ pkt.id < cli.next
  <2>1. d \in net /\ rest \subseteq net /\ Travels(d) /\ d.to = "server"
    BY <1>1 DEF StubInv, NetInv
  <2> QED
    BY <2>1, IdsAreNumbers DEF Travels
<1>3. st' = [id |-> IF alive THEN (after + 1) % Ids ELSE after,
             seq |-> IF answer = <<>> THEN st.seq ELSE (st.seq + 1) % Seqs,
             challenge |-> st.challenge \/ SaysHello(pkt),
             welcome |-> st.welcome \/ answer = WelcomePayload,
             acked |-> IF needs THEN st.acked \cup {pkt.id} ELSE st.acked,
             join |-> joined,
             due |-> st.due /\ ~alive]
  BY <1>1 DEF Answers
<1>4. handled' = handled \cup Messages(pkt)
  BY <1>1 DEF Answers
<1>5. ASSUME NEW e \in net'
      PROVE  \/ e \in rest
             \/ e = Datagram("client", Reply(pkt))
             \/ e = Datagram("client", [id |-> after, recs |-> <<>>])
  BY <1>1 DEF Answers
<1>6. answer \in {ChallengePayload, WelcomePayload, <<>>}
  BY DEF AnswerTo
<1>7. SidesType
  BY DEF StubInv
<1>8. /\ st.id \in Nat /\ st.id \in 0 .. Ids - 1 /\ st.seq \in Nat /\ st.seq \in 0 .. Seqs - 1
      /\ st.challenge \in BOOLEAN /\ st.welcome \in BOOLEAN /\ st.join \in BOOLEAN
      /\ st.due \in BOOLEAN /\ st.acked \in SUBSET (0 .. cli.next - 1) /\ cli.next \in 0 .. Ids
  BY <1>7, Widths DEF SidesType
<1>9. \A x \in Nat : x % Ids \in 0 .. Ids - 1 /\ x % Seqs \in 0 .. Seqs - 1
  BY Widths
<1>10. SaysHello(pkt) \in BOOLEAN /\ needs \in BOOLEAN /\ joined \in BOOLEAN
  BY <1>8 DEF SaysHello, NeedsAck
<1> HIDE DEF rest, answer, needs, joined
<1>11. after \in 0 .. Ids - 1 /\ after \in Nat
  <2>1. st.id + 1 \in Nat /\ \A x \in 0 .. Ids - 1 : x \in Nat
    BY <1>8, Widths
  <2>2. (st.id + 1) % Ids \in 0 .. Ids - 1
    BY <1>9, <2>1
  <2>3. after \in 0 .. Ids - 1
    BY <1>8, <2>2
  <2> HIDE DEF after
  <2> QED
    BY <2>1, <2>3
<1> HIDE DEF after
<1>12. alive \in BOOLEAN
  BY <1>8, <1>10
<1> HIDE DEF alive
<1>13. st'.acked \in SUBSET (0 .. cli.next - 1) /\ st.acked \subseteq st'.acked
  <2>1. Ids \in Nat /\ cli.next \in Nat
    BY <1>8, Widths
  <2>2. pkt.id \in 0 .. cli.next - 1
    BY <1>2, <2>1
  <2>3. st'.acked = IF needs THEN st.acked \cup {pkt.id} ELSE st.acked
    BY <1>3
  <2> HIDE DEF pkt
  <2> QED
    BY <1>8, <2>2, <2>3
<1>14. SidesType'
  <2>1. (IF alive THEN (after + 1) % Ids ELSE after) \in 0 .. Ids - 1
    BY <1>9, <1>11
  <2>2. (IF answer = <<>> THEN st.seq ELSE (st.seq + 1) % Seqs) \in 0 .. Seqs - 1
    <3>1. st.seq + 1 \in Nat
      BY <1>8
    <3>2. (st.seq + 1) % Seqs \in 0 .. Seqs - 1
      BY <1>9, <3>1
    <3> QED
      BY <1>8, <3>2
  <2>3. /\ (st.challenge \/ SaysHello(pkt)) \in BOOLEAN
        /\ (st.welcome \/ answer = WelcomePayload) \in BOOLEAN
        /\ (st.due /\ ~alive) \in BOOLEAN
    BY <1>8, <1>10, <1>12
  <2>4. st'.acked = IF needs THEN st.acked \cup {pkt.id} ELSE st.acked
    BY <1>3
  <2>5. st' \in [id : 0 .. Ids - 1, seq : 0 .. Seqs - 1, challenge : BOOLEAN, welcome : BOOLEAN,
                 acked : SUBSET (0 .. cli.next - 1), join : BOOLEAN, due : BOOLEAN]
    BY <1>3, <1>10, <1>13, <2>1, <2>2, <2>3, <2>4
  <2> QED
    BY <1>1, <1>7, <2>5 DEF SidesType
<1>15. ASSUME NEW e \in net' PROVE Travels(e)'
  <2>1. CASE e \in rest
    <3>1. Travels(e)
      BY <1>2, <2>1 DEF StubInv, NetInv
    <3>2. Asks' = Asks
      BY <1>1 DEF Asks
    <3> QED
      BY <1>1, <1>13, <3>1, <3>2, TravelsOn DEF Travels
  <2>2. CASE e = Datagram("client", Reply(pkt))
    <3> DEFINE a == AckOf(pkt)
               b == IF answer = <<>> THEN <<>> ELSE <<Bunch(0, 0, 1, 0, st.seq, 1, answer)>>
    <3>1. Reply(pkt) = [id |-> st.id, recs |-> a \o b]
      BY DEF Reply, answer
    <3>2. a = IF needs THEN <<Ack(pkt.id)>> ELSE <<>>
      BY DEF AckOf, needs
    <3>3. a \in AtMostOne(Said)
      BY <1>2, <3>2 DEF AtMostOne, Said
    <3>4. b \in AtMostOne(Talk)
      <4>1. CASE answer = <<>>
        BY <4>1 DEF AtMostOne
      <4>2. CASE answer # <<>>
        <5>1. Bunch(0, 0, 1, 0, st.seq, 1, answer) \in Talk
          BY <1>6, <1>8, <4>2, Talks
        <5> QED
          BY <4>2, <5>1 DEF AtMostOne
      <4> QED
        BY <4>1, <4>2
    <3> HIDE DEF a, b
    <3>5. Reply(pkt) \in Packet
      BY <1>8, <3>1, <3>3, <3>4, PacketMade
    <3>6. ASSUME NEW i \in Acks(Reply(pkt)) PROVE i \in st'.acked
      <4>1. a = <<Ack(i)>>
        BY <3>1, <3>3, <3>4, <3>6, AcksIn, ZenonT(60)
      <4>2. needs /\ <<Ack(pkt.id)>> = <<Ack(i)>>
        BY <3>2, <4>1
      <4>3. Ack(pkt.id) = Ack(i)
        BY <4>2
      <4>4. Ack(pkt.id).id = pkt.id /\ Ack(i).id = i
        BY DEF Ack
      <4>5. pkt.id = i
        BY <4>3, <4>4
      <4>6. st'.acked = st.acked \cup {pkt.id}
        BY <1>3, <4>2
      <4> HIDE DEF pkt
      <4> QED
        BY <4>5, <4>6
    <3>7. e.to = "client" /\ e.pkt = Reply(pkt) /\ e \in [to : {"server", "client"}, pkt : Packet]
      BY <2>2, <3>5 DEF Datagram
    <3> HIDE DEF pkt
    <3> QED
      BY <3>6, <3>7 DEF Travels
  <2>3. CASE e = Datagram("client", [id |-> after, recs |-> <<>>])
    <3> DEFINE p == [id |-> after, recs |-> <<>>]
    <3>1. p \in Packet
      <4>1. <<>> \in AtMostOne(Talk)
        BY DEF AtMostOne
      <4> QED
        BY <1>11, <4>1, PacketOfOne
    <3>2. Acks(p) = {}
      BY NoAcks
    <3> HIDE DEF p
    <3>3. e.to = "client" /\ e.pkt = p /\ e \in [to : {"server", "client"}, pkt : Packet]
      BY <2>3, <3>1 DEF Datagram, p
    <3> QED
      BY <3>2, <3>3 DEF Travels
  <2> QED
    BY <1>5, <2>1, <2>2, <2>3
<1>16. AckInv'
  <2>1. ASSUME cli.out # None, NEW i \in cli.ids, i \in st'.acked PROVE cli.out \in handled'
    <3>1. CASE i \in st.acked
      BY <1>4, <2>1, <3>1 DEF StubInv, AckInv
    <3>2. CASE i \notin st.acked
      <4>1. i = pkt.id
        BY <1>3, <2>1, <3>2
      <4>2. pkt.recs = Asks
        BY <1>2, <2>1, <4>1 DEF Travels
      <4>3. cli.out \in {Hello, Login, Join}
        BY <1>7, <2>1 DEF SidesType
      <4> HIDE DEF pkt
      <4> QED
        BY <1>4, <4>2, <4>3, AskedIsFound
    <3> QED
      BY <3>1, <3>2
  <2>2. cli.acked \subseteq handled'
    BY <1>4 DEF StubInv, AckInv
  <2> QED
    BY <1>1, <2>1, <2>2 DEF AckInv
<1> QED
  BY <1>14, <1>15, <1>16 DEF StubInv, NetInv

(* The clock changes nothing that matters.                                 *)
LEMMA SecondStep == StubInv /\ Second => StubInv'
<1> SUFFICES ASSUME StubInv, Second PROVE StubInv'
  OBVIOUS
<1>1. st' = [st EXCEPT !.due = TRUE] /\ UNCHANGED <<handled, cli, net>>
  BY DEF Second
<1>2. SidesType' /\ st'.acked = st.acked
  BY <1>1 DEF StubInv, SidesType
<1>3. NetInv'
  <2> SUFFICES ASSUME NEW d \in net' PROVE Travels(d)'
    BY DEF NetInv
  <2>1. Travels(d) /\ Asks' = Asks
    BY <1>1 DEF StubInv, NetInv, Asks
  <2> QED
    BY <1>1, <1>2, <2>1, TravelsOn DEF Travels
<1>4. AckInv'
  BY <1>1, <1>2 DEF StubInv, AckInv
<1> QED
  BY <1>2, <1>3, <1>4 DEF StubInv

(* A lost datagram is missing, and nothing else.                           *)
LEMMA LosesStep == StubInv /\ Loses => StubInv'
<1> SUFFICES ASSUME StubInv, Loses PROVE StubInv'
  OBVIOUS
<1>1. net' \subseteq net /\ UNCHANGED <<st, handled, cli>>
  BY DEF Loses
<1>2. SidesType' /\ AckInv'
  BY <1>1 DEF StubInv, SidesType, AckInv
<1>3. NetInv'
  <2> SUFFICES ASSUME NEW d \in net' PROVE Travels(d)'
    BY DEF NetInv
  <2>1. Travels(d) /\ Asks' = Asks
    BY <1>1 DEF StubInv, NetInv, Asks
  <2> QED
    BY <1>1, <2>1, TravelsOn DEF Travels
<1> QED
  BY <1>2, <1>3 DEF StubInv

(* The game: what it sends bears the message it waits for, and the server  *)
(* has not acknowledged the new id.                                        *)
LEMMA ClientSendsStep ==
  ASSUME NEW early \in BOOLEAN, StubInv, ClientSends(early)
  PROVE  StubInv'
<1> DEFINE b == Bunch(IF cli.out = Hello THEN 1 ELSE 0, 0, 1, 0, cli.seq, 1, PayloadOf(cli.out))
<1>0. PICK new : new = Put(<<b>>)
  OBVIOUS
<1>1. /\ cli.out # None /\ cli.next < Ids - 1
      /\ net' = net \cup {new}
      /\ cli' = [cli EXCEPT !.ids = @ \cup {cli.next}, !.next = @ + 1,
                            !.early = IF early THEN @ + 1 ELSE @]
      /\ UNCHANGED <<st, handled>>
  BY <1>0 DEF ClientSends
<1>2. /\ st.acked \in SUBSET (0 .. cli.next - 1) /\ cli.ids \in SUBSET (0 .. cli.next - 1)
      /\ cli.next \in Nat /\ cli.next \in 0 .. Ids - 1 /\ cli.next + 1 \in 0 .. Ids - 1
      /\ cli.out \in {Hello, Login, Join} /\ cli.seq \in 1 .. 3 /\ cli.early \in Nat
      /\ cli.pc # "closed"
  BY <1>1, Widths DEF StubInv, SidesType
<1>3. /\ cli'.pc = cli.pc /\ cli'.out = cli.out /\ cli'.seq = cli.seq
      /\ cli'.ids = cli.ids \cup {cli.next} /\ cli'.next = cli.next + 1
      /\ cli'.acked = cli.acked
  BY <1>1 DEF StubInv, SidesType
<1>4. SidesType'
  <2>1. /\ cli.ids \cup {cli.next} \in SUBSET (0 .. (cli.next + 1) - 1)
        /\ st.acked \in SUBSET (0 .. (cli.next + 1) - 1)
    <3>1. /\ 0 .. cli.next - 1 \subseteq 0 .. (cli.next + 1) - 1
          /\ cli.next \in 0 .. (cli.next + 1) - 1
      BY <1>2
    <3> QED
      BY <1>2, <3>1
  <2>2. (IF early THEN cli.early + 1 ELSE cli.early) \in Nat
    BY <1>2
  <2>3. cli' \in [pc : {"hello", "login", "in", "closed", "rejected"},
                  out : {None, Hello, Login, Join}, ids : SUBSET (0 .. (cli.next + 1) - 1),
                  next : 0 .. Ids, seq : 1 .. 3, expect : Nat,
                  acked : SUBSET {Hello, Login, Join}, early : Nat, idle : Nat]
    <3>1. cli.next + 1 \in 0 .. Ids
      BY <1>2, Widths
    <3>2. cli' = [cli EXCEPT !.ids = cli.ids \cup {cli.next}, !.next = cli.next + 1,
                             !.early = IF early THEN cli.early + 1 ELSE cli.early]
      BY <1>1 DEF StubInv, SidesType
    <3> QED
      BY <2>1, <2>2, <3>1, <3>2 DEF StubInv, SidesType
  <2>4. st' \in [id : 0 .. Ids - 1, seq : 0 .. Seqs - 1, challenge : BOOLEAN, welcome : BOOLEAN,
                 acked : SUBSET (0 .. (cli.next + 1) - 1), join : BOOLEAN, due : BOOLEAN]
    BY <1>1, <2>1 DEF StubInv, SidesType
  <2>5. cli'.next < Ids
    BY <1>2, <1>3, Widths
  <2>6. /\ cli'.pc = "closed" => cli'.out = None
        /\ cli'.pc = "hello" => cli'.seq = 1
        /\ cli'.pc = "login" => cli'.seq = 2
    BY <1>3 DEF StubInv, SidesType
  <2> QED
    BY <1>3, <2>3, <2>4, <2>5, <2>6 DEF SidesType
<1>5. Asks' = Asks /\ Asks = <<b>>
  BY <1>3 DEF Asks
<1>6. ASSUME NEW d \in net PROVE Travels(d)'
  <2>1. Travels(d)
    BY DEF StubInv, NetInv
  <2>2. d.pkt.id \in Nat
    BY <2>1, IdsAreNumbers
  <2>3. d.to = "server" => d.pkt.id < cli.next
    BY <2>1 DEF Travels
  <2>4. d.to = "server" => d.pkt.id < cli'.next
    BY <1>2, <1>3, <2>2, <2>3
  <2>5. d.to = "server" /\ d.pkt.id \in cli'.ids => d.pkt.id \in cli.ids
    BY <1>2, <1>3, <2>2, <2>3
  <2> QED
    BY <1>1, <1>5, <2>1, <2>4, <2>5, TravelsOn
<1>7. Travels(new)'
  <2>1. b \in Talk
    <3>1. cli.seq \in 0 .. Seqs - 1
      BY <1>2, Widths
    <3>2. (IF cli.out = Hello THEN 1 ELSE 0) \in {0, 1}
      OBVIOUS
    <3> QED
      BY <1>2, <3>1, <3>2, Talks
  <2> HIDE DEF b
  <2>2. <<b>> \in AtMostOne(Talk)
    BY <2>1 DEF AtMostOne
  <2>3. [id |-> cli.next, recs |-> <<b>>] \in Packet
    BY <1>2, <2>2, PacketOfOne
  <2>4. /\ new \in [to : {"server", "client"}, pkt : Packet] /\ new.to = "server"
        /\ new.pkt.id = cli.next /\ new.pkt.recs = <<b>>
    BY <1>0, <2>3 DEF Put, Datagram
  <2>5. cli.next < cli'.next
    BY <1>2, <1>3
  <2> QED
    BY <1>5, <2>4, <2>5 DEF Travels
<1>8. NetInv'
  BY <1>1, <1>6, <1>7 DEF NetInv
<1>9. AckInv'
  <2>1. ASSUME NEW i \in cli'.ids, i \in st.acked PROVE i \in cli.ids
    BY <1>2, <1>3, <2>1
  <2> QED
    BY <1>1, <1>3, <2>1 DEF StubInv, AckInv
<1> QED
  BY <1>4, <1>8, <1>9 DEF StubInv

(* An empty packet bears nothing the game waits for.                       *)
LEMMA ClientIdlesStep == StubInv /\ ClientIdles => StubInv'
<1> SUFFICES ASSUME StubInv, ClientIdles PROVE StubInv'
  OBVIOUS
<1>0. PICK new : new = Put(<<>>)
  OBVIOUS
<1>1. /\ cli.pc = "in" /\ cli.next < Ids - 1
      /\ net' = net \cup {new}
      /\ cli' = [cli EXCEPT !.next = @ + 1, !.idle = @ + 1]
      /\ UNCHANGED <<st, handled>>
  BY <1>0 DEF ClientIdles
<1>2. /\ st.acked \in SUBSET (0 .. cli.next - 1) /\ cli.ids \in SUBSET (0 .. cli.next - 1)
      /\ cli.next \in Nat /\ cli.next \in 0 .. Ids - 1 /\ cli.next + 1 \in 0 .. Ids - 1
      /\ cli.idle \in Nat
  BY <1>1, Widths DEF StubInv, SidesType
<1>3. /\ cli'.pc = cli.pc /\ cli'.out = cli.out /\ cli'.seq = cli.seq
      /\ cli'.ids = cli.ids /\ cli'.next = cli.next + 1 /\ cli'.acked = cli.acked
  BY <1>1 DEF StubInv, SidesType
<1>4. SidesType'
  <2>1. /\ cli.ids \in SUBSET (0 .. (cli.next + 1) - 1)
        /\ st.acked \in SUBSET (0 .. (cli.next + 1) - 1)
    <3>1. 0 .. cli.next - 1 \subseteq 0 .. (cli.next + 1) - 1
      BY <1>2
    <3> QED
      BY <1>2, <3>1
  <2>2. cli' \in [pc : {"hello", "login", "in", "closed", "rejected"},
                  out : {None, Hello, Login, Join}, ids : SUBSET (0 .. (cli.next + 1) - 1),
                  next : 0 .. Ids, seq : 1 .. 3, expect : Nat,
                  acked : SUBSET {Hello, Login, Join}, early : Nat, idle : Nat]
    <3>1. cli.next + 1 \in 0 .. Ids /\ cli.idle + 1 \in Nat
      BY <1>2, Widths
    <3> QED
      BY <1>1, <2>1, <3>1 DEF StubInv, SidesType
  <2>3. st' \in [id : 0 .. Ids - 1, seq : 0 .. Seqs - 1, challenge : BOOLEAN, welcome : BOOLEAN,
                 acked : SUBSET (0 .. (cli.next + 1) - 1), join : BOOLEAN, due : BOOLEAN]
    BY <1>1, <2>1 DEF StubInv, SidesType
  <2>4. cli'.next < Ids
    BY <1>2, <1>3, Widths
  <2> QED
    BY <1>1, <1>3, <2>2, <2>3, <2>4 DEF SidesType
<1>5. Asks' = Asks
  BY <1>3 DEF Asks
<1>6. ASSUME NEW d \in net PROVE Travels(d)'
  <2>1. Travels(d)
    BY DEF StubInv, NetInv
  <2>2. d.pkt.id \in Nat
    BY <2>1, IdsAreNumbers
  <2>3. d.to = "server" => d.pkt.id < cli'.next
    BY <1>2, <1>3, <2>1, <2>2 DEF Travels
  <2> QED
    BY <1>1, <1>3, <1>5, <2>1, <2>3, TravelsOn
<1>7. Travels(new)'
  <2>1. <<>> \in AtMostOne(Talk)
    BY DEF AtMostOne
  <2>2. [id |-> cli.next, recs |-> <<>>] \in Packet
    BY <1>2, <2>1, PacketOfOne
  <2>3. /\ new \in [to : {"server", "client"}, pkt : Packet] /\ new.to = "server"
        /\ new.pkt.id = cli.next
    BY <1>0, <2>2 DEF Put, Datagram
  <2>4. cli.next < cli'.next /\ cli.next \notin cli'.ids
    BY <1>2, <1>3
  <2> QED
    BY <2>3, <2>4 DEF Travels
<1>8. NetInv'
  BY <1>1, <1>6, <1>7 DEF NetInv
<1>9. AckInv'
  BY <1>1, <1>3 DEF StubInv, AckInv
<1> QED
  BY <1>4, <1>8, <1>9 DEF StubInv

(* Having given up, the game waits for nothing.                            *)
LEMMA ClientClosesStep == StubInv /\ ClientCloses => StubInv'
<1> SUFFICES ASSUME StubInv, ClientCloses PROVE StubInv'
  OBVIOUS
<1> DEFINE b == Bunch(0, 1, 1, 0, SeqOfClose, 1, <<>>)
<1>0. PICK new : new = Put(<<b>>)
  OBVIOUS
<1>1. /\ cli.pc \in {"hello", "login", "in"}
      /\ net' = {new}
      /\ cli' = [cli EXCEPT !.pc = "closed", !.out = None, !.ids = {}, !.next = @ + 1]
      /\ UNCHANGED <<st, handled>>
  BY <1>0 DEF ClientCloses
<1>2. /\ st.acked \in SUBSET (0 .. cli.next - 1) /\ cli.seq \in 1 .. 3
      /\ cli.next \in Nat /\ cli.next \in 0 .. Ids - 1 /\ cli.next + 1 \in 0 .. Ids
  BY <1>1, Widths DEF StubInv, SidesType
<1>3. /\ cli'.pc = "closed" /\ cli'.out = None /\ cli'.next = cli.next + 1
      /\ cli'.acked = cli.acked
  BY <1>1 DEF StubInv, SidesType
<1>4. SidesType'
  <2>1. st.acked \in SUBSET (0 .. (cli.next + 1) - 1)
    <3>1. 0 .. cli.next - 1 \subseteq 0 .. (cli.next + 1) - 1
      BY <1>2
    <3> QED
      BY <1>2, <3>1
  <2>2. cli' \in [pc : {"hello", "login", "in", "closed", "rejected"},
                  out : {None, Hello, Login, Join}, ids : SUBSET (0 .. (cli.next + 1) - 1),
                  next : 0 .. Ids, seq : 1 .. 3, expect : Nat,
                  acked : SUBSET {Hello, Login, Join}, early : Nat, idle : Nat]
    BY <1>1, <1>2 DEF StubInv, SidesType
  <2>3. st' \in [id : 0 .. Ids - 1, seq : 0 .. Seqs - 1, challenge : BOOLEAN, welcome : BOOLEAN,
                 acked : SUBSET (0 .. (cli.next + 1) - 1), join : BOOLEAN, due : BOOLEAN]
    BY <1>1, <2>1 DEF StubInv, SidesType
  <2> QED
    BY <1>3, <2>2, <2>3 DEF SidesType
<1>5. Travels(new)'
  <2>1. SeqOfClose \in 0 .. Seqs - 1
    BY <1>2, Widths DEF SeqOfClose
  <2>2. b \in Talk
    BY <2>1, Talks
  <2> HIDE DEF b
  <2>3. <<b>> \in AtMostOne(Talk)
    BY <2>2 DEF AtMostOne
  <2>4. [id |-> cli.next, recs |-> <<b>>] \in Packet
    BY <1>2, <2>3, PacketOfOne
  <2>5. /\ new \in [to : {"server", "client"}, pkt : Packet] /\ new.to = "server"
        /\ new.pkt.id = cli.next
    BY <1>0, <2>4 DEF Put, Datagram
  <2>6. cli.next < cli'.next
    BY <1>2, <1>3
  <2> QED
    BY <1>3, <2>5, <2>6 DEF Travels
<1>6. NetInv'
  BY <1>1, <1>5 DEF NetInv
<1>7. AckInv'
  BY <1>1, <1>3 DEF StubInv, AckInv
<1> QED
  BY <1>4, <1>6, <1>7 DEF StubInv

(* What a datagram may make of the game: it waits for what it waited for,  *)
(* or has that acknowledged, or goes on to the next message, or stops.     *)
GoesOn(c) ==
  /\ c \in [pc : {"hello", "login", "in", "closed", "rejected"},
            out : {None, Hello, Login, Join}, ids : SUBSET (0 .. cli.next - 1),
            next : 0 .. Ids, seq : 1 .. 3, expect : Nat, acked : SUBSET {Hello, Login, Join},
            early : Nat, idle : Nat]
  /\ c.next = cli.next
  /\ c.pc = "closed" <=> cli.pc = "closed"
  /\ c.pc = "closed" => c.out = None
  /\ c.pc = "hello" => c.seq = 1
  /\ c.pc = "login" => c.seq = 2
  /\ c.acked \subseteq handled
  /\ c.out = None \/ c.ids = {} \/ (c.out = cli.out /\ c.ids = cli.ids /\ c.seq = cli.seq)

(* An ack of what the game waits for is of a message that is handled.      *)
LEMMA ToldGoesOn ==
  ASSUME StubInv, NEW acks, acks \subseteq st.acked, cli.pc \notin {"closed", "rejected"}
  PROVE  GoesOn(Told(cli, acks)) /\ Told(cli, acks).pc = cli.pc /\ Told(cli, acks).seq = cli.seq
<1>1. CASE cli.out # None /\ acks \cap cli.ids # {}
  <2>1. Told(cli, acks) = [cli EXCEPT !.acked = cli.acked \cup {cli.out}, !.out = None, !.ids = {}]
    BY <1>1 DEF Told, StubInv, SidesType
  <2>2. cli.out \in handled /\ cli.out \in {Hello, Login, Join}
    BY <1>1 DEF StubInv, AckInv, SidesType
  <2>3. /\ cli.acked \cup {cli.out} \subseteq handled
        /\ cli.acked \cup {cli.out} \in SUBSET {Hello, Login, Join}
    BY <2>2 DEF StubInv, AckInv, SidesType
  <2> QED
    BY <2>1, <2>3 DEF StubInv, SidesType, GoesOn
<1>2. CASE ~(cli.out # None /\ acks \cap cli.ids # {})
  <2>1. Told(cli, acks) = cli
    BY <1>2 DEF Told
  <2> QED
    BY <2>1 DEF StubInv, SidesType, AckInv, GoesOn
<1> QED
  BY <1>1, <1>2

(* A bunch that the game takes makes it wait for a new message, or for     *)
(* none.                                                                   *)
LEMMA TakesGoesOn ==
  ASSUME StubInv, NEW c, GoesOn(c), c.pc = cli.pc, c.seq = cli.seq,
         cli.pc \notin {"closed", "rejected"}, NEW b
  PROVE  GoesOn(Takes(c, b))
<1> DEFINE says(msg) == [c EXCEPT !.expect = @ + 1, !.seq = @ + 1, !.ids = {}, !.out = msg]
           expected == b.seq = c.expect /\ b.chan = 0
           t == Takes(c, b)
<1>1. \/ c.pc = "hello" /\ t = [says(Login) EXCEPT !.pc = "login"]
      \/ c.pc = "login" /\ t = [says(Join) EXCEPT !.pc = "in"]
      \/ t = [c EXCEPT !.pc = "rejected", !.out = None]
  BY DEF Takes
<1> SUFFICES GoesOn(t)
  OBVIOUS
<1> HIDE DEF t
<1>2. /\ c.expect \in Nat /\ c.expect + 1 \in Nat
      /\ c.pc = "hello" => c.seq + 1 = 2
      /\ c.pc = "login" => c.seq + 1 = 3
  BY DEF GoesOn
<1> DEFINE GameRecord ==
             [pc : {"hello", "login", "in", "closed", "rejected"},
              out : {None, Hello, Login, Join}, ids : SUBSET (0 .. cli.next - 1),
              next : 0 .. Ids, seq : 1 .. 3, expect : Nat, acked : SUBSET {Hello, Login, Join},
              early : Nat, idle : Nat]
<1>a. c \in GameRecord
  BY DEF GoesOn
<1>b. c.next = cli.next /\ c.acked \subseteq handled /\ cli.pc # "closed"
  BY DEF GoesOn
<1> HIDE DEF GameRecord
<1>3. CASE c.pc = "hello" /\ t = [says(Login) EXCEPT !.pc = "login"]
  <2>1. t = [pc |-> "login", out |-> Login, ids |-> {}, next |-> c.next, seq |-> c.seq + 1,
             expect |-> c.expect + 1, acked |-> c.acked, early |-> c.early, idle |-> c.idle]
    BY <1>a, <1>3 DEF GameRecord
  <2>2. c.seq + 1 = 2
    BY <1>2, <1>3
  <2> HIDE DEF says
  <2>3. t \in GameRecord
    BY <1>a, <1>2, <2>1, <2>2 DEF GameRecord
  <2>4. /\ t.pc = "login" /\ t.ids = {} /\ t.seq = 2 /\ t.next = c.next /\ t.acked = c.acked
        /\ c.pc # "closed"
    BY <1>3, <2>1, <2>2
  <2> QED
    BY <1>b, <2>3, <2>4 DEF GoesOn, GameRecord
<1>4. CASE c.pc = "login" /\ t = [says(Join) EXCEPT !.pc = "in"]
  <2>1. t = [pc |-> "in", out |-> Join, ids |-> {}, next |-> c.next, seq |-> c.seq + 1,
             expect |-> c.expect + 1, acked |-> c.acked, early |-> c.early, idle |-> c.idle]
    BY <1>a, <1>4 DEF GameRecord
  <2>2. c.seq + 1 = 3
    BY <1>2, <1>4
  <2> HIDE DEF says
  <2>3. t \in GameRecord
    BY <1>a, <1>2, <2>1, <2>2 DEF GameRecord
  <2>4. /\ t.pc = "in" /\ t.ids = {} /\ t.seq = 3 /\ t.next = c.next /\ t.acked = c.acked
        /\ c.pc # "closed"
    BY <1>4, <2>1, <2>2
  <2> QED
    BY <1>b, <2>3, <2>4 DEF GoesOn, GameRecord
<1>5. CASE t = [c EXCEPT !.pc = "rejected", !.out = None]
  <2>1. t = [pc |-> "rejected", out |-> None, ids |-> c.ids, next |-> c.next, seq |-> c.seq,
             expect |-> c.expect, acked |-> c.acked, early |-> c.early, idle |-> c.idle]
    BY <1>a, <1>5 DEF GameRecord
  <2>2. t \in GameRecord
    BY <1>a, <2>1 DEF GameRecord
  <2>3. t.pc = "rejected" /\ t.out = None /\ t.next = c.next /\ t.acked = c.acked
    BY <2>1
  <2> QED
    BY <1>b, <2>2, <2>3 DEF GoesOn, GameRecord
<1> QED
  BY <1>1, <1>3, <1>4, <1>5

(* A datagram at the game.                                                 *)
LEMMA ClientReceivesStep == StubInv /\ ClientReceives => StubInv'
<1> SUFFICES ASSUME StubInv, ClientReceives PROVE StubInv'
  OBVIOUS
<1>1. PICK d \in {e \in net : e.to = "client"} :
        /\ net' = net \ (Late(d) \cup {d})
        /\ cli' = IF cli.pc \in {"closed", "rejected"} THEN cli
                  ELSE IF Bunches(d.pkt) = {} THEN Told(cli, Acks(d.pkt))
                  ELSE Takes(Told(cli, Acks(d.pkt)), CHOOSE b \in Bunches(d.pkt) : TRUE)
        /\ UNCHANGED <<st, handled>>
  BY DEF ClientReceives
<1>2. Acks(d.pkt) \subseteq st.acked
  BY DEF StubInv, NetInv, Travels
<1>3. GoesOn(cli')
  <2>1. CASE cli.pc \in {"closed", "rejected"}
    <3>1. GoesOn(cli)
      BY DEF StubInv, SidesType, AckInv, GoesOn
    <3> QED
      BY <1>1, <2>1, <3>1
  <2>2. CASE cli.pc \notin {"closed", "rejected"}
    <3> DEFINE c == Told(cli, Acks(d.pkt))
    <3>1. GoesOn(c) /\ c.pc = cli.pc /\ c.seq = cli.seq
      BY <1>2, <2>2, ToldGoesOn
    <3> HIDE DEF c
    <3>2. \A b : GoesOn(Takes(c, b))
      BY <2>2, <3>1, TakesGoesOn
    <3>3. cli' = c \/ \E b : cli' = Takes(c, b)
      BY <1>1, <2>2 DEF c
    <3> QED
      BY <3>1, <3>2, <3>3
  <2> QED
    BY <2>1, <2>2
<1>4. SidesType'
  BY <1>1, <1>3 DEF StubInv, SidesType, GoesOn
<1>5. NetInv'
  <2> SUFFICES ASSUME NEW e \in net' PROVE Travels(e)'
    BY DEF NetInv
  <2>1. Travels(e)
    BY <1>1 DEF StubInv, NetInv
  <2>2. e.to = "server" => e.pkt.id < cli'.next
    BY <1>3, <2>1 DEF Travels, GoesOn
  <2>3. cli'.out # None /\ e.pkt.id \in cli'.ids
          => cli'.out = cli.out /\ cli'.ids = cli.ids /\ cli'.seq = cli.seq
    BY <1>3 DEF GoesOn
  <2>4. cli'.out = cli.out /\ cli'.seq = cli.seq => Asks' = Asks
    BY DEF Asks
  <2> QED
    BY <1>1, <2>1, <2>2, <2>3, <2>4, TravelsOn
<1>6. AckInv'
  BY <1>1, <1>3 DEF StubInv, AckInv, GoesOn
<1> QED
  BY <1>4, <1>5, <1>6 DEF StubInv

(* Every step of the two sides and the network keeps StubInv.              *)
LEMMA StubStep == StubInv /\ [StubNext]_stubVars => StubInv'
<1> SUFFICES ASSUME StubInv, [StubNext]_stubVars PROVE StubInv'
  OBVIOUS
<1>1. CASE UNCHANGED stubVars
  <2>1. UNCHANGED <<st, handled, cli, net>>
    BY <1>1 DEF stubVars
  <2>2. SidesType' /\ AckInv'
    BY <2>1 DEF StubInv, SidesType, AckInv
  <2>3. NetInv'
    BY <2>1 DEF StubInv, NetInv, Travels, Asks
  <2> QED
    BY <2>2, <2>3 DEF StubInv
<1> QED
  BY <1>1, ReceivesStep, SecondStep, LosesStep, ClientSendsStep, ClientIdlesStep,
     ClientClosesStep, ClientReceivesStep DEF StubNext

(* For any widths of the numbers, any number of ids and any bounds on what *)
(* the network does, the packets under way and the two sides fit.          *)
THEOREM StubInvariant == StubSpec => []StubInv
<1> QED
  BY StubStarts, StubStep, PTL DEF StubSpec

(* A message the game sees acknowledged is one the server has handled,     *)
(* however packets are lost, doubled and overtaken.                        *)
THEOREM AckedAlwaysHandled == StubSpec => []AckedIsHandled
<1>1. StubInv => AckedIsHandled
  BY DEF StubInv, AckInv, AckedIsHandled
<1> QED
  BY <1>1, StubInvariant, PTL

(* Every packet under way comes out of the codec as it went in, and the    *)
(* relay reads whatever the server would read, and reads it alike.         *)
THEOREM CodecsAlwaysAgree == StubSpec => []CodecsAgree
<1>1. StubInv => CodecsAgree
  <2>1. ASSUME StubInv, NEW d \in net PROVE d.pkt \in Packet
    BY <2>1 DEF StubInv, NetInv, Travels
  <2> QED
    BY <2>1, PacketsIntact, PacketsReadAlike DEF CodecsAgree
<1> QED
  BY <1>1, StubInvariant, PTL
=============================================================================
