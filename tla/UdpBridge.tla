----------------------------- MODULE UdpBridge -----------------------------
(***************************************************************************)
(* One process of tools/bridge/af_ds_udp_bridge_v9_multi_peer_latch.py in  *)
(* its lazy mode: it listens on the public port of a room, starts the      *)
(* loader of AFDEV on the first valid packet of a client, holds back (the  *)
(* latch) the first packet of every client until AFDEV is ready, sends it, *)
(* retries it, and relays what follows once AFDEV has answered.            *)
(*                                                                         *)
(* The process is a single loop: polling the loader, one retry and one     *)
(* received packet are one action each, times are left open.  Packets are  *)
(* either a client's latched first packet or game traffic; those between   *)
(* bridge and AFDEV may be lost, and answers repeated.  The loader, AFDEV, *)
(* the clients and the spawner's terminate() are the environment.          *)
(***************************************************************************)
EXTENDS Naturals, FiniteSets

CONSTANTS
  Player,        \* the clients
  Port,          \* UDP ports a client's socket may get
  MaxPeers,      \* max(1, --max-players)
  MaxRetries     \* max(1, --first-reply-max-retries)

ASSUME BridgeAssumption ==
  /\ IsFiniteSet(Player) /\ IsFiniteSet(Port)
  /\ MaxPeers \in Nat \ {0} /\ MaxRetries \in Nat \ {0}

VARIABLES
  pc,            \* loop; failing and stopping (in finally); exited; or killed
  state,         \* state["state"]
  file,          \* the same in the state file; a write may be lost
  ready,         \* afdev_ready
  peers,         \* peers: by address
  loader,        \* the loader process, and
  afdev,         \* AFDEV: launched, then its pid file, then its ready file
  report,        \* the ready file: ready once it is there, with a verified key
  heard,         \* what of each address has reached AFDEV
  port           \* the port each client is using

vars == <<pc, state, file, ready, peers, loader, afdev, report, heard, port>>

Addr == Player \X Port

Peer == [is : {"unknown", "waiting", "live"}, sent : 0 .. MaxRetries]
Unknown == [is |-> "unknown", sent |-> 0]
Known == {a \in Addr : peers[a].is # "unknown"}

(* publish() and publish_peers(): a write of the file that does not come   *)
(* off is tolerated, and the next one catches up.                          *)
Publish(s) == state' = s /\ file' \in {file, s}

(* Sending the latched packet of the peers in A; each copy may be lost.    *)
SendLatched(A) ==
  \E got \in SUBSET (IF afdev = "ready" THEN A ELSE {}) :
     heard' = [a \in Addr |-> IF a \in got /\ heard[a] = "nothing"
                              THEN "first" ELSE heard[a]]

(* Any way out of the loop: FAILED is published, then finally runs.        *)
Fail == Publish("FAILED") /\ pc' = "failing"

-----------------------------------------------------------------------------
Init ==
  /\ pc = "loop" /\ state = "BOOTING" /\ file = "" /\ ready = FALSE
  /\ peers = [a \in Addr |-> Unknown]
  /\ loader = "off" /\ afdev = "off" /\ report = "none"
  /\ heard = [a \in Addr |-> "nothing"]
  /\ port \in [Player -> Port]

(* A port that is taken ends the process before it has published anything. *)
Bind ==
  /\ pc = "loop" /\ state = "BOOTING"
  /\ \/ Publish("LISTENING") /\ pc' = pc
     \/ pc' = "exited" /\ UNCHANGED <<state, file>>
  /\ UNCHANGED <<ready, peers, loader, afdev, report, heard, port>>

Looping == pc = "loop" /\ state # "BOOTING"

(* The first valid packet of an address: the peer is registered while      *)
(* there is room.  The first peer of all starts the loader (which may fail *)
(* before the process is there, or after it, at loader_pid_file) ...       *)
FirstPeer(a) ==
  /\ Looping /\ peers[a].is = "unknown" /\ Cardinality(Known) < MaxPeers
  /\ loader = "off"
  /\ peers' = [peers EXCEPT ![a].is = "waiting"]
  /\ \/ loader' = "running" /\ Publish("SPAWNING") /\ pc' = pc
     \/ loader' \in {loader, "running"} /\ Fail
  /\ UNCHANGED <<ready, afdev, report, heard, port>>

(* Mutant: a peer that comes while AFDEV starts is not held back.          *)
LaterPeerUnlatched(a) ==
  /\ Looping /\ peers[a].is = "unknown" /\ Cardinality(Known) < MaxPeers
  /\ loader # "off"
  /\ Publish(state)
  /\ peers' = [peers EXCEPT ![a] = [is |-> "waiting", sent |-> 1]]
  /\ SendLatched({a})
  /\ UNCHANGED <<pc, ready, loader, afdev, report, port>>

(* ... a later one waits for AFDEV, or is sent at once if AFDEV is ready.  *)
LaterPeer(a) ==
  /\ Looping /\ peers[a].is = "unknown" /\ Cardinality(Known) < MaxPeers
  /\ loader # "off"
  /\ Publish(state)
  /\ peers' = [peers EXCEPT ![a] = [is |-> "waiting",
                                    sent |-> IF ready THEN 1 ELSE 0]]
  /\ SendLatched(IF ready THEN {a} ELSE {})
  /\ UNCHANGED <<pc, ready, loader, afdev, report, port>>

(* Until AFDEV has answered a peer, what else the peer sends is dropped    *)
(* (and counted, which rewrites the file).                                 *)
SuppressRepeat(a) ==
  /\ Looping /\ peers[a].is = "waiting"
  /\ Publish(state)
  /\ UNCHANGED <<pc, ready, peers, loader, afdev, report, heard, port>>

RelayToAfdev(a) ==
  /\ Looping /\ peers[a].is = "live" /\ afdev = "ready"
  /\ heard' = [heard EXCEPT ![a] = "game"]
  /\ UNCHANGED <<pc, state, file, ready, peers, loader, afdev, report, port>>

Receive(a) == FirstPeer(a) \/ LaterPeer(a) \/ SuppressRepeat(a) \/ RelayToAfdev(a)

-----------------------------------------------------------------------------
(* poll_lazy_ready.  SESSION_READY, which is looked for in the ready file  *)
(* and not asked of AFDEV, sends every peer that waits ...                 *)
SeesReady ==
  /\ Looping /\ loader = "running" /\ ~ready
  /\ report = "ready"
  /\ ready' = TRUE
  /\ Publish("AFDEV_READY")
  /\ LET waiting == {a \in Known : peers[a].is = "waiting" /\ peers[a].sent = 0}
     IN  /\ peers' = [a \in Addr |-> IF a \in waiting
                                     THEN [peers[a] EXCEPT !.sent = 1]
                                     ELSE peers[a]]
         /\ SendLatched(waiting)
  /\ UNCHANGED <<pc, loader, afdev, report, port>>

(* ... a loader that exited, is too late or reports the wrong key fails.   *)
SeesFailure ==
  /\ Looping /\ loader # "off" /\ ~ready
  /\ Fail
  /\ UNCHANGED <<ready, peers, loader, afdev, report, heard, port>>

(* Mutant: only peers that came before AFDEV was ready are retried.        *)
RetryOnlyUnsent(a) ==
  /\ Looping /\ ready
  /\ peers[a].is = "waiting" /\ peers[a].sent = 0
  /\ peers' = [peers EXCEPT ![a].sent = @ + 1]
  /\ Publish(state)
  /\ SendLatched({a})
  /\ UNCHANGED <<pc, ready, loader, afdev, report, port>>

(* maybe_retry_waiting, for one peer.                                      *)
Retry(a) ==
  /\ Looping /\ ready
  /\ peers[a].is = "waiting" /\ peers[a].sent < MaxRetries
  /\ peers' = [peers EXCEPT ![a].sent = @ + 1]
  /\ Publish(state)
  /\ SendLatched({a})
  /\ UNCHANGED <<pc, ready, loader, afdev, report, port>>

(* AFDEV answers an address it has heard of (the answer may arrive when    *)
(* AFDEV is gone); the first answer opens the relay for that peer.         *)
FirstReply(a) ==
  /\ Looping /\ peers[a].is = "waiting"
  /\ heard[a] # "nothing"
  /\ peers' = [peers EXCEPT ![a].is = "live"]
  /\ Publish("READY")
  /\ UNCHANGED <<pc, ready, loader, afdev, report, heard, port>>

(* A socket call raises something that is not a connection reset.          *)
SocketError ==
  /\ Looping
  /\ Fail
  /\ UNCHANGED <<ready, peers, loader, afdev, report, heard, port>>

(* Ctrl+C: finally runs, and FAILED is not published.                      *)
Interrupted ==
  /\ Looping /\ pc' = "failing"
  /\ UNCHANGED <<state, file, ready, peers, loader, afdev, report, heard, port>>

OnRecord == afdev \in {"pid", "ready"}

(* Mutant: AFDEV is ended only once it has reported.                       *)
EndAfdevOnceReady ==
  /\ pc = "failing" /\ pc' = "stopping"
  /\ afdev' = IF afdev = "ready" THEN "dead" ELSE afdev
  /\ UNCHANGED <<state, file, ready, peers, loader, report, heard, port>>

(* The finally block first kills the AFDEV whose pid file it finds ...     *)
EndAfdev ==
  /\ pc = "failing" /\ pc' = "stopping"
  /\ afdev' = IF OnRecord THEN "dead" ELSE afdev
  /\ UNCHANGED <<state, file, ready, peers, loader, report, heard, port>>

(* ... and then the loader, which runs on in between.                      *)
EndLoader ==
  /\ pc = "stopping" /\ pc' = "exited"
  /\ loader' = IF loader = "running" THEN "gone" ELSE loader
  /\ UNCHANGED <<state, file, ready, peers, afdev, report, heard, port>>

-----------------------------------------------------------------------------
(* The environment.                                                        *)
LoaderLaunches ==
  /\ loader = "running" /\ afdev = "off"
  /\ afdev' = "launched"
  /\ UNCHANGED <<pc, state, file, ready, peers, loader, report, heard, port>>

LoaderWritesPid ==
  /\ loader = "running" /\ afdev = "launched"
  /\ afdev' = "pid"
  /\ UNCHANGED <<pc, state, file, ready, peers, loader, report, heard, port>>

LoaderReports ==
  /\ loader = "running" /\ afdev = "pid"
  /\ afdev' = "ready" /\ report' = "ready"
  /\ UNCHANGED <<pc, state, file, ready, peers, loader, heard, port>>

LoaderExits ==
  /\ loader = "running" /\ loader' = "gone"
  /\ UNCHANGED <<pc, state, file, ready, peers, afdev, report, heard, port>>

AfdevExits ==
  /\ OnRecord /\ afdev' = "dead"
  /\ UNCHANGED <<pc, state, file, ready, peers, loader, report, heard, port>>

(* A client that comes back to the match opens a new socket.               *)
Reconnect(p) ==
  /\ \E q \in Port \ {port[p]} : port' = [port EXCEPT ![p] = q]
  /\ UNCHANGED <<pc, state, file, ready, peers, loader, afdev, report, heard>>

(* The spawner terminates the process, or Ctrl+C comes once more while     *)
(* finally runs: the rest of finally does not.                             *)
Terminated ==
  /\ pc \in {"loop", "failing", "stopping"} /\ pc' = "killed"
  /\ UNCHANGED <<state, file, ready, peers, loader, afdev, report, heard, port>>

-----------------------------------------------------------------------------
Loop == \/ Bind \/ SeesReady \/ SeesFailure \/ EndAfdev \/ EndLoader
        \/ \E a \in Addr : Retry(a)

Environment ==
  \/ \E p \in Player : Receive(<<p, port[p]>>) \/ Reconnect(p)
  \/ \E a \in Addr : FirstReply(a)
  \/ SocketError \/ Interrupted
  \/ LoaderLaunches \/ LoaderWritesPid \/ LoaderReports
  \/ LoaderExits \/ AfdevExits
  \/ Terminated

Next == Loop \/ Environment

Spec == Init /\ [][Next]_vars

(* The loop turns at least every 50 ms; everybody else owes it nothing.    *)
FairSpec ==
  /\ Spec
  /\ WF_vars(Bind) /\ WF_vars(SeesReady \/ SeesFailure)
  /\ WF_vars(EndAfdev) /\ WF_vars(EndLoader)
  /\ \A a \in Addr : WF_vars(Retry(a))

-----------------------------------------------------------------------------
(* Every variable has its type; no peer is sent more than MaxRetries       *)
(* copies, and no more peers than places are taken.                        *)
TypeOK ==
  /\ pc \in {"loop", "failing", "stopping", "exited", "killed"}
  /\ state \in {"BOOTING", "LISTENING", "SPAWNING", "AFDEV_READY", "READY", "FAILED"}
  /\ file \in {"", "LISTENING", "SPAWNING", "AFDEV_READY", "READY", "FAILED"}
  /\ ready \in BOOLEAN
  /\ peers \in [Addr -> Peer]
  /\ loader \in {"off", "running", "gone"}
  /\ afdev \in {"off", "launched", "pid", "ready", "dead"}
  /\ report \in {"none", "ready"}
  /\ heard \in [Addr -> {"nothing", "first", "game"}]
  /\ port \in [Player -> Port]
  /\ Cardinality(Known) <= MaxPeers

(* Through loss, retries and late peers AFDEV never hears game traffic of  *)
(* an address whose first packet has not reached it.                       *)
HandshakeFirst ==
  [][\A a \in Addr : heard'[a] = "game" => heard[a] # "nothing"]_vars

(* A bridge that ends by itself leaves no loader behind, and no AFDEV that *)
(* was on record when finally began, however far the loader gets meanwhile *)
(* (main's finally block).  An AFDEV whose pid the loader writes between   *)
(* the two steps of finally does stay.                                     *)
ExitLeavesNothing ==
  /\ [](pc = "exited" => loader # "running")
  /\ [](pc = "failing" /\ OnRecord => [](pc = "exited" => afdev = "dead"))

Life == INSTANCE BridgeLifecycle WITH state <- state, file <- file

(* However many peers come and go and whichever writes are lost, the state *)
(* file shows the stages of one start-up in order.                         *)
LifecycleImplemented == Life!Spec

Loading == INSTANCE LoaderProtocol WITH loader <- loader, afdev <- afdev

(* The loader and the AFDEV that this bridge reckons with are those that   *)
(* the loader's own module provides: both make the moves of one protocol.  *)
LoaderReckoned == Loading!Spec

(* No peer is left waiting with copies of its packet still to send: it is  *)
(* answered, or has been sent all of them, or the bridge is gone.          *)
PeerSettles ==
  \A a \in Addr :
     peers[a].is = "waiting"
       ~> peers[a].is = "live" \/ peers[a].sent = MaxRetries \/ pc # "loop"

=============================================================================
