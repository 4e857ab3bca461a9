----------------------------- MODULE ChatProofs -----------------------------
(* Theorems about Chat, for any clients, pings, faults and restarts.       *)
EXTENDS Chat, TLAPS

(* A slot is that of a client.                                             *)
LEMMA SlotOwner == \A s \in Slot : s[1] \in Chatter
  BY DEF Slot

(* A client and another peer make a pair.                                  *)
LEMMA PairOf ==
  ASSUME NEW c \in Chatter, NEW p \in Peer \ {c}
  PROVE  {c, p} \in Pair
  BY DEF Pair

(* The types of what the network consists of.                              *)
NetType ==
  /\ links \in SUBSET Pair /\ peerstore \in [Chatter -> SUBSET Chatter]
  /\ introduced \in SUBSET Couple

(* Who is counted.                                                         *)
CountType == restarted \in SUBSET Chatter /\ faults \in 0..MaxFault /\ restarts \in 0..MaxRestart

(* What a connection leaves of the network.                                *)
LEMMA JoinType ==
  ASSUME NetType, NEW c \in Chatter, NEW p \in Peer \ {c}, Join(c, p), UNCHANGED introduced
  PROVE  NetType'
<1>1. links' \in SUBSET Pair
  BY PairOf DEF Join, NetType
<1>2. peerstore' \in [Chatter -> SUBSET Chatter]
  BY ChatAssumption DEF Join, NetType, Peer
<1>. QED
  BY <1>1, <1>2 DEF NetType

(* Who was ready stays so, for all who do not end.                         *)
LEMMA ReadyStays ==
  ASSUME registered \subseteq registered', restarted \subseteq restarted',
         \A d \in Chatter : stage[d] = "dead" => stage'[d] = "dead" \/ d \in restarted',
         NEW p, Ready(p)
  PROVE  Ready(p)'
  BY DEF Ready

(* Pings that hear nothing more stay where they are, but for the reading.  *)
LEMMA DeafenedFrame ==
  ASSUME TypeOK, NEW lost, NEW s \in Slot
  PROVE  /\ Deafened(lost)[s] \in [to : Peer, at : {"none", "open", "read", "deaf", "pong", "write", "clash"}]
         /\ Deafened(lost)[s].to = pinger[s].to
         /\ \/ Deafened(lost)[s].at = pinger[s].at
            \/ pinger[s].at = "read" /\ Deafened(lost)[s].at = "deaf"
  BY DEF TypeOK, Deafened

(* connectToPeers goes on with the same peer.                              *)
LEMMA GoToFrame ==
  ASSUME TypeOK, NEW c \in Chatter, NEW place \in {"none", "dial", "open", "relay", "stream"},
         GoTo(c, place)
  PROVE  /\ trying' \in [Chatter -> [peer : Peer, at : {"none", "dial", "open", "relay", "stream"},
                                     attempt : 0..MaxRetry]]
         /\ trying'[c].peer = trying[c].peer /\ trying'[c].at = place
         /\ \A d \in Chatter \ {c} : trying'[d] = trying[d]
  BY DEF TypeOK, GoTo

(* connectToPeers leaves its peer.                                         *)
LEMMA NextPeerFrame ==
  ASSUME TypeOK, NEW c \in Chatter, NextPeer(c)
  PROVE  /\ trying' \in [Chatter -> [peer : Peer, at : {"none", "dial", "open", "relay", "stream"},
                                     attempt : 0..MaxRetry]]
         /\ trying'[c].at = "none"
         /\ \A d \in Chatter \ {c} : trying'[d] = trying[d]
  BY DEF TypeOK, NextPeer, NoOne, Peer, MaxRetry

(* Before main begins the invariant holds.                                 *)
LEMMA InitChatInv == Init => ChatInv
  BY ChatAssumption
     DEF Init, ChatInv, TypeOK, FoundOK, StageOK, NoOne, Free, Peer, MaxRetry

(* The end of a process keeps it.                                          *)
LEMMA DieChatInv ==
  ASSUME ChatInv, NEW c \in Chatter, Die(c), faults' \in 0..MaxFault
  PROVE  ChatInv'
<1>. USE DEF ChatInv
<1>1. PICK lost \in SUBSET Pair :
        /\ links' = links \ lost
        /\ pinger' = [s \in Slot |-> IF s[1] = c THEN Free ELSE Deafened(lost)[s]]
  BY DEF Die, TypeOK
<1>2. /\ stage' = [stage EXCEPT ![c] = "dead"]
      /\ todo' = [todo EXCEPT ![c] = {}] /\ trying' = [trying EXCEPT ![c] = NoOne]
      /\ online' = online \ {c} /\ registered' = registered \ {c}
      /\ advertising' = advertising \ {c}
      /\ seen' = [seen EXCEPT ![c] = {}] /\ peerstore' = [peerstore EXCEPT ![c] = {}]
      /\ connectedPeers' = [connectedPeers EXCEPT ![c] = {}]
      /\ UNCHANGED <<record, introduced, restarted, restarts>>
  BY DEF Die
<1>3. Free \in [to : Peer, at : {"none", "open", "read", "deaf", "pong", "write", "clash"}]
  BY DEF Free, Peer
<1>4. \A s \in Slot : /\ s[1] = c => pinger'[s] = Free
                      /\ s[1] # c => /\ pinger'[s].to = pinger[s].to
                                     /\ \/ pinger'[s].at = pinger[s].at
                                        \/ pinger[s].at = "read" /\ pinger'[s].at = "deaf"
  BY <1>1, DeafenedFrame
<1>5. TypeOK'
  <2>1. pinger' \in [Slot -> [to : Peer, at : {"none", "open", "read", "deaf", "pong", "write", "clash"}]]
    BY <1>1, <1>3, DeafenedFrame
  <2>2. trying'[c] = NoOne /\ NoOne \in [peer : Peer, at : {"none", "dial", "open", "relay", "stream"},
                                         attempt : 0..MaxRetry]
    BY <1>2 DEF TypeOK, NoOne, Peer, MaxRetry
  <2>. QED
    BY <1>1, <1>2, <2>1, <2>2 DEF TypeOK
<1>6. FoundOK'
  <2>1. \A s \in Slot : pinger'[s].at \in {"read", "pong", "write", "clash"} =>
          /\ pinger[s].at \in {"read", "pong", "write", "clash"}
          /\ pinger'[s].to = pinger[s].to
    BY <1>4 DEF Free
  <2>2. trying'[c].at = "none" /\ \A d \in Chatter \ {c} : trying'[d] = trying[d]
    BY <1>2 DEF TypeOK, NoOne
  <2>3. /\ seen'[c] = {} /\ connectedPeers'[c] = {}
        /\ \A d \in Chatter \ {c} : seen'[d] = seen[d] /\ connectedPeers'[d] = connectedPeers[d]
    BY <1>2 DEF TypeOK
  <2>4. \A p : Ready(p) => Ready(p)'
    BY <1>2 DEF Ready, TypeOK
  <2>. QED
    BY <1>2, <2>1, <2>2, <2>3, <2>4 DEF FoundOK
<1>7. StageOK'
  <2>1. /\ trying'[c].at = "none" /\ todo'[c] = {} /\ stage'[c] = "dead"
        /\ \A d \in Chatter \ {c} :
             trying'[d] = trying[d] /\ todo'[d] = todo[d] /\ stage'[d] = stage[d]
    BY <1>2 DEF TypeOK, NoOne
  <2>2. \A s \in Slot : pinger'[s].at # "none" =>
          pinger[s].at # "none" /\ s[1] # c /\ pinger'[s].to = pinger[s].to
    BY <1>4 DEF Free
  <2>. QED
    BY <1>2, <2>1, <2>2, SlotOwner DEF StageOK
<1>. QED
  BY <1>5, <1>6, <1>7

(* So does main up to the search: nobody announces itself before it has    *)
(* registered handleStream.                                                *)
LEMMA StartChatInv ==
  ASSUME ChatInv, NEW c \in Chatter,
         \/ ConnectToBootstrapPeers(c) \/ ConnectToRelay(c) \/ ConnectToRelayFails(c)
         \/ SetupStreamHandler(c) \/ ReserveRelay(c) \/ AnnounceSelf(c)
  PROVE  ChatInv'
<1>0. \A p : Ready(p) /\ registered \subseteq registered' /\ UNCHANGED restarted
             /\ (\A d \in Chatter : stage[d] = "dead" => stage'[d] = "dead") => Ready(p)'
  BY ReadyStays
<1>. USE SlotOwner
     DEF ChatInv, StageOK, TypeOK, Pass, After, loopVars, netVars, linkVars, historyVars
<1>1. CASE ConnectToBootstrapPeers(c)
  <2>1. FoundOK'
    BY <1>0, <1>1 DEF ConnectToBootstrapPeers, FoundOK
  <2>. QED
    BY <1>1, <2>1 DEF ConnectToBootstrapPeers
<1>2. CASE ConnectToRelay(c)
  <2>1. NetType'
    BY <1>2, JoinType, ChatAssumption DEF ConnectToRelay, Peer, NetType
  <2>2. FoundOK'
    BY <1>0, <1>2 DEF ConnectToRelay, FoundOK
  <2>3. UNCHANGED introduced
    BY <1>2 DEF ConnectToRelay
  <2>4. TypeOK'
    BY <1>2, <2>1 DEF ConnectToRelay, NetType
  <2>5. StageOK'
    BY <1>2 DEF ConnectToRelay
  <2>. QED
    BY <2>2, <2>4, <2>5
<1>3. CASE ConnectToRelayFails(c)
  BY <1>3, DieChatInv DEF ConnectToRelayFails
<1>4. CASE SetupStreamHandler(c)
  <2>1. FoundOK'
    BY <1>0, <1>4 DEF SetupStreamHandler, FoundOK
  <2>. QED
    BY <1>4, <2>1 DEF SetupStreamHandler
<1>5. CASE ReserveRelay(c)
  <2>1. FoundOK'
    BY <1>0, <1>5 DEF ReserveRelay, FoundOK
  <2>. QED
    BY <1>5, <2>1 DEF ReserveRelay
<1>6. CASE AnnounceSelf(c)
  <2>1. FoundOK'
    BY <1>0, <1>6 DEF AnnounceSelf, FoundOK
  <2>. QED
    BY <1>6, <2>1 DEF AnnounceSelf
<1>. QED
  BY <1>1, <1>2, <1>3, <1>4, <1>5, <1>6

(* connectToPeers, between two searches: it tries and marks those that its *)
(* search has found.                                                       *)
LEMMA TryingChatInv ==
  ASSUME ChatInv, NEW c \in Chatter,
         trying' \in [Chatter -> [peer : Peer, at : {"none", "dial", "open", "relay", "stream"},
                                 attempt : 0..MaxRetry]],
         \A d \in Chatter \ {c} : trying'[d] = trying[d],
         trying'[c].at # "none" => stage[c] = "connect" /\ trying'[c].peer \in seen'[c] \ {c},
         \/ UNCHANGED connectedPeers
         \/ Mark(c, trying[c].peer) /\ trying[c].at # "none",
         NetType',
         seen' \in [Chatter -> SUBSET Chatter],
         \A d \in Chatter : seen[d] \subseteq seen'[d] /\ \A p \in seen'[d] : Ready(p),
         UNCHANGED <<stage, online, registered, advertising, record, todo, pinger, historyVars>>
  PROVE  ChatInv'
<1>. USE DEF historyVars
<1>1. /\ connectedPeers' \in [Chatter -> SUBSET Peer]
      /\ \A d \in Chatter : \A p \in connectedPeers'[d] : Ready(p)
  <2>1. trying[c].at # "none" => trying[c].peer \in Peer /\ Ready(trying[c].peer)
    BY DEF ChatInv, TypeOK, FoundOK
  <2>2. CASE UNCHANGED connectedPeers
    BY <2>2 DEF ChatInv, TypeOK, FoundOK
  <2>3. CASE Mark(c, trying[c].peer) /\ trying[c].at # "none"
    BY <2>1, <2>3 DEF ChatInv, TypeOK, FoundOK, Mark
  <2>. QED
    BY <2>2, <2>3
<1>2. \A p : Ready(p)' <=> Ready(p)
  BY DEF Ready
<1>3. TypeOK'
  BY <1>1 DEF ChatInv, TypeOK, NetType
<1>4. FoundOK'
  BY <1>1, <1>2 DEF ChatInv, FoundOK
<1>5. StageOK'
  BY DEF ChatInv, StageOK
<1>. QED
  BY <1>3, <1>4, <1>5 DEF ChatInv

(* connectToPeers keeps the invariant.                                     *)
LEMMA ConnectChatInv ==
  ASSUME ChatInv, NEW c \in Chatter, ConnectToPeers(c)
  PROVE  ChatInv'
<1>0. /\ TypeOK /\ NetType
      /\ trying[c].at # "none" => stage[c] = "connect" /\ trying[c].peer \in seen[c] \ {c}
      /\ seen \in [Chatter -> SUBSET Chatter] /\ \A d \in Chatter : \A p \in seen[d] : Ready(p)
      /\ c # Relay /\ Relay \in Peer /\ Chatter \subseteq Peer
  BY ChatAssumption DEF ChatInv, TypeOK, NetType, FoundOK, StageOK, Peer
<1>. USE DEF loopVars, netVars, linkVars, TryAt
<1>k. UNCHANGED <<links, peerstore, introduced>> => NetType'
  BY <1>0 DEF NetType
<1>1. CASE TakePeer(c)
  <2>1. PICK p \in record \ {c} :
          /\ seen' = [seen EXCEPT ![c] = @ \cup {p}]
          /\ trying' = [trying EXCEPT ![c] = [peer |-> p, at |-> "dial", attempt |-> 0]]
          /\ peerstore' = [peerstore EXCEPT ![c] = @ \cup {p}]
          /\ introduced' = introduced \cup {{c, p}}
    BY <1>1 DEF TakePeer
  <2>p. p \in Chatter /\ Ready(p)
    BY DEF ChatInv, FoundOK, TypeOK
  <2>2. [peer |-> p, at |-> "dial", attempt |-> 0]
          \in [peer : Peer, at : {"none", "dial", "open", "relay", "stream"}, attempt : 0..MaxRetry]
    BY <1>0, <2>p DEF MaxRetry
  <2>3. /\ trying' \in [Chatter -> [peer : Peer, at : {"none", "dial", "open", "relay", "stream"},
                                    attempt : 0..MaxRetry]]
        /\ trying'[c].peer = p /\ \A d \in Chatter \ {c} : trying'[d] = trying[d]
    BY <1>0, <2>1, <2>2 DEF TypeOK
  <2>4. /\ seen' \in [Chatter -> SUBSET Chatter] /\ p \in seen'[c]
        /\ \A d \in Chatter : seen[d] \subseteq seen'[d] /\ \A q \in seen'[d] : Ready(q)
    BY <1>0, <2>1, <2>p
  <2>5. {c, p} \in Couple
    BY <2>p DEF Couple
  <2>6. NetType'
    <3>1. UNCHANGED links
      BY <1>1 DEF TakePeer
    <3>2. peerstore' \in [Chatter -> SUBSET Chatter]
      BY <1>0, <2>1, <2>p DEF NetType
    <3>3. introduced' \in SUBSET Couple
      BY <1>0, <2>1, <2>5 DEF NetType
    <3>. QED
      BY <1>0, <3>1, <3>2, <3>3 DEF NetType
  <2>7. /\ stage[c] = "connect" /\ trying'[c].peer \in seen'[c] \ {c}
        /\ UNCHANGED <<stage, online, registered, advertising, connectedPeers, record, todo,
                       pinger, historyVars>>
    BY <1>1, <2>3, <2>4 DEF TakePeer
  <2>. QED
    BY <2>3, <2>4, <2>6, <2>7, TryingChatInv
<1>2. CASE LookupEnds(c)
  <2>1. /\ stage' = [stage EXCEPT ![c] = "loop"] /\ stage[c] = "connect" /\ trying[c].at = "none"
        /\ UNCHANGED <<online, registered, advertising, record, seen, trying, connectedPeers,
                       todo, pinger, links, peerstore, introduced, restarted, faults, restarts>>
    BY <1>2 DEF LookupEnds, Pass, After, historyVars
  <2>2. TypeOK'
    BY <2>1 DEF ChatInv, TypeOK
  <2>3. \A p : Ready(p) => Ready(p)'
    BY <2>1 DEF Ready, ChatInv, TypeOK
  <2>4. FoundOK'
    BY <2>1, <2>3 DEF ChatInv, FoundOK
  <2>5. StageOK'
    BY <2>1, SlotOwner DEF ChatInv, TypeOK, StageOK
  <2>. QED
    BY <2>2, <2>4, <2>5 DEF ChatInv
<1>3. CASE ConnectDirectly(c)
  <2>1. NetType'
    BY <1>0, <1>3, JoinType DEF ConnectDirectly
  <2>. QED
    BY <1>0, <1>3, <2>1, GoToFrame, TryingChatInv DEF ConnectDirectly
<1>4. CASE DirectFails(c)
  BY <1>0, <1>k, <1>4, GoToFrame, TryingChatInv DEF DirectFails
<1>5. CASE OpenToPeer(c)
  BY <1>0, <1>k, <1>5, NextPeerFrame, TryingChatInv DEF OpenToPeer
<1>6. CASE OpenFails(c)
  BY <1>0, <1>k, <1>6, NextPeerFrame, TryingChatInv DEF OpenFails
<1>7. CASE ConnectRelayed(c)
  <2>1. NetType'
    BY <1>0, <1>7, JoinType DEF ConnectRelayed
  <2>. QED
    BY <1>0, <1>7, <2>1, GoToFrame, TryingChatInv DEF ConnectRelayed
<1>8. CASE RelayedFails(c)
  BY <1>0, <1>k, <1>8, NextPeerFrame, TryingChatInv DEF RelayedFails
<1>9. CASE StreamToRelay(c)
  BY <1>0, <1>k, <1>9, NextPeerFrame, TryingChatInv DEF StreamToRelay
<1>10. CASE StreamFails(c)
  <2>1. CASE trying[c].attempt + 1 < MaxRetry
    <3>1. trying' = [trying EXCEPT ![c].attempt = @ + 1]
      BY <1>10, <2>1 DEF StreamFails
    <3>2. trying[c].attempt + 1 \in 0..MaxRetry
      BY <1>0, <2>1 DEF TypeOK, MaxRetry
    <3>3. /\ trying' \in [Chatter -> [peer : Peer, at : {"none", "dial", "open", "relay", "stream"},
                                      attempt : 0..MaxRetry]]
          /\ trying'[c].peer = trying[c].peer /\ trying'[c].at = trying[c].at
          /\ \A d \in Chatter \ {c} : trying'[d] = trying[d]
      BY <1>0, <3>1, <3>2 DEF TypeOK
    <3>. QED
      BY <1>0, <1>k, <1>10, <3>3, TryingChatInv DEF StreamFails
  <2>2. CASE ~(trying[c].attempt + 1 < MaxRetry)
    BY <1>0, <1>k, <1>10, <2>2, NextPeerFrame, TryingChatInv DEF StreamFails
  <2>. QED
    BY <2>1, <2>2
<1>. QED
  BY <1>1, <1>2, <1>3, <1>4, <1>5, <1>6, <1>7, <1>8, <1>9, <1>10 DEF ConnectToPeers

-----------------------------------------------------------------------------
(* The ticker, its pings and the network.                                  *)

(* What the pings may do: be of a client in its loop, to another peer, and *)
(* be answered only by one that was ready.                                 *)
LEMMA PingingChatInv ==
  ASSUME ChatInv,
         pinger' \in [Slot -> [to : Peer, at : {"none", "open", "read", "deaf", "pong", "write", "clash"}]],
         \A s \in Slot : pinger'[s].at # "none" => stage[s[1]] = "loop" /\ pinger'[s].to # s[1],
         \A s \in Slot : pinger'[s].at \in {"read", "pong", "write", "clash"} => Ready(pinger'[s].to),
         todo' \in [Chatter -> SUBSET Peer],
         \A c \in Chatter : todo'[c] # {} => stage[c] = "loop" /\ c \notin todo'[c],
         connectedPeers' \in [Chatter -> SUBSET Peer],
         \A c \in Chatter : \A p \in connectedPeers'[c] : Ready(p),
         record' \in SUBSET Chatter, \A p \in record' : Ready(p),
         NetType', CountType', UNCHANGED <<mainVars, restarted>>
  PROVE  ChatInv'
<1>1. TypeOK'
  BY DEF ChatInv, TypeOK, NetType, CountType, mainVars
<1>2. \A p : Ready(p)' <=> Ready(p)
  BY DEF Ready, mainVars
<1>3. FoundOK'
  BY <1>2 DEF ChatInv, FoundOK, mainVars
<1>4. StageOK'
  BY DEF ChatInv, StageOK, mainVars
<1>. QED
  BY <1>1, <1>3, <1>4 DEF ChatInv

(* What holds of the pings in any state.                                   *)
LEMMA PingingNow ==
  ASSUME ChatInv
  PROVE  /\ pinger \in [Slot -> [to : Peer, at : {"none", "open", "read", "deaf", "pong", "write", "clash"}]]
         /\ \A s \in Slot : pinger[s].at # "none" => stage[s[1]] = "loop" /\ pinger[s].to # s[1]
         /\ \A s \in Slot : pinger[s].at \in {"read", "pong", "write", "clash"} => Ready(pinger[s].to)
         /\ todo \in [Chatter -> SUBSET Peer]
         /\ \A c \in Chatter : todo[c] # {} => stage[c] = "loop" /\ c \notin todo[c]
         /\ connectedPeers \in [Chatter -> SUBSET Peer]
         /\ \A c \in Chatter : \A p \in connectedPeers[c] : Ready(p)
         /\ record \in SUBSET Chatter /\ \A p \in record : Ready(p)
         /\ NetType /\ CountType /\ TypeOK
  BY DEF ChatInv, TypeOK, FoundOK, StageOK, NetType, CountType

(* A step that leaves the network, or the counts, alone.                   *)
LEMMA NetCountStay ==
  /\ NetType /\ UNCHANGED netVars => NetType'
  /\ CountType /\ UNCHANGED historyVars => CountType'
  BY DEF NetType, CountType, netVars, linkVars, historyVars

(* A fault is counted.                                                     *)
LEMMA FaultType ==
  /\ faults \in 0..MaxFault /\ Fault => faults' \in 0..MaxFault
  /\ CountType /\ (Fault \/ UNCHANGED faults) /\ UNCHANGED <<restarted, restarts>> => CountType'
  BY ChatAssumption DEF Fault, CountType

(* The ticker keeps the invariant: nobody is connected to itself.          *)
LEMMA TickerChatInv ==
  ASSUME ChatInv, NEW c \in Chatter, Ticker(c)
  PROVE  ChatInv'
<1>. USE PingingNow, NetCountStay DEF netVars, linkVars, historyVars
<1>1. CASE Tick(c)
  <2>1. Peers(c) \in SUBSET Peer /\ c \notin Peers(c)
    <3>1. \A p \in Peer : {c, p} \in Pair => p # c
      BY ChatAssumption DEF Pair, Peer
    <3>2. links \subseteq Pair
      BY DEF NetType
    <3>. QED
      BY <3>1, <3>2 DEF Peers
  <2>2. /\ todo' = [todo EXCEPT ![c] = Peers(c)] /\ stage[c] = "loop"
        /\ UNCHANGED <<mainVars, connectedPeers, pinger, netVars, historyVars>>
    BY <1>1 DEF Tick
  <2>. QED
    BY <2>1, <2>2, PingingChatInv DEF mainVars
<1>2. CASE StartPing(c)
  <2>1. PICK p \in todo[c], s \in FreeSlots(c) :
          /\ pinger' = [pinger EXCEPT ![s] = [to |-> p, at |-> "open"]]
          /\ todo' = [todo EXCEPT ![c] = @ \ {p}]
          /\ UNCHANGED <<mainVars, connectedPeers, netVars, historyVars>>
    BY <1>2 DEF StartPing
  <2>2. s \in Slot /\ s[1] = c /\ p \in Peer \ {c} /\ stage[c] = "loop"
    BY DEF FreeSlots
  <2>3. /\ pinger'[s] = [to |-> p, at |-> "open"] /\ \A r \in Slot \ {s} : pinger'[r] = pinger[r]
        /\ pinger' \in [Slot -> [to : Peer, at : {"none", "open", "read", "deaf", "pong", "write", "clash"}]]
    BY <2>1, <2>2
  <2>4. todo' \in [Chatter -> SUBSET Peer] /\ \A d \in Chatter : todo'[d] \subseteq todo[d]
    BY <2>1
  <2>. QED
    BY <2>1, <2>2, <2>3, <2>4, PingingChatInv DEF mainVars
<1>. QED
  BY <1>1, <1>2 DEF Ticker

(* A ping that goes on leaves the others where they are.                   *)
LEMMA PingAtFrame ==
  ASSUME TypeOK, NEW s \in Slot,
         NEW place \in {"none", "open", "read", "deaf", "pong", "write", "clash"},
         PingAt(s, place)
  PROVE  /\ pinger' \in [Slot -> [to : Peer, at : {"none", "open", "read", "deaf", "pong", "write", "clash"}]]
         /\ pinger'[s].to = pinger[s].to /\ pinger'[s].at = place
         /\ \A r \in Slot \ {s} : pinger'[r] = pinger[r]
  BY DEF TypeOK, PingAt

(* So does one that ends.                                                  *)
LEMMA EndedFrame ==
  ASSUME TypeOK, NEW s \in Slot, Ended(s)
  PROVE  /\ pinger' \in [Slot -> [to : Peer, at : {"none", "open", "read", "deaf", "pong", "write", "clash"}]]
         /\ pinger'[s].at = "none" /\ \A r \in Slot \ {s} : pinger'[r] = pinger[r]
  BY DEF TypeOK, Ended, Free, Peer

(* A ping keeps the invariant: one that is answered is to a peer that has  *)
(* registered.                                                             *)
LEMMA PingPeerChatInv ==
  ASSUME ChatInv, NEW s \in Slot, PingPeer(s)
  PROVE  ChatInv'
<1>. USE PingingNow, NetCountStay DEF netVars, linkVars, historyVars
<1>1. CASE OpenPing(s)
  <2>1. PICK place \in {"read", "deaf"} : PingAt(s, place) /\ (place = "read" => Ready(pinger[s].to))
    BY <1>1 DEF OpenPing, Answering, Ready
  <2>2. /\ pinger[s].at = "open"
        /\ UNCHANGED <<mainVars, connectedPeers, todo, netVars, historyVars>>
    BY <1>1 DEF OpenPing
  <2>. QED
    BY <2>1, <2>2, PingAtFrame, PingingChatInv
<1>2. CASE ReadPong(s)
  <2>1. /\ PingAt(s, "pong") /\ pinger[s].at = "read"
        /\ UNCHANGED <<mainVars, connectedPeers, todo, netVars, historyVars>>
    BY <1>2 DEF ReadPong
  <2>. QED
    BY <2>1, PingAtFrame, PingingChatInv
<1>3. CASE PingFails(s)
  <2>1. Ended(s) /\ UNCHANGED <<mainVars, connectedPeers, todo, netVars, restarted>>
    BY <1>3 DEF PingFails
  <2>2. CountType'
    BY <1>3, FaultType DEF PingFails, Fails
  <2>. QED
    BY <2>1, <2>2, EndedFrame, PingingChatInv
<1>4. CASE BeginWrite(s)
  <2>1. /\ pinger[s].at = "pong"
        /\ UNCHANGED <<mainVars, connectedPeers, todo, netVars, historyVars>>
    BY <1>4 DEF BeginWrite
  <2>2. CASE Writers(s[1]) = {}
    <3>1. PingAt(s, "write")
      BY <1>4, <2>2 DEF BeginWrite
    <3>. QED
      BY <2>1, <3>1, PingAtFrame, PingingChatInv
  <2>3. CASE Writers(s[1]) # {}
    <3>1. pinger' = [r \in Slot |-> IF r \in Writers(s[1]) \cup {s}
                                   THEN [pinger[r] EXCEPT !.at = "clash"] ELSE pinger[r]]
      BY <1>4, <2>3 DEF BeginWrite
    <3>2. \A r \in Slot :
            /\ pinger'[r].to = pinger[r].to
            /\ \/ pinger'[r].at = pinger[r].at
               \/ pinger'[r].at = "clash" /\ pinger[r].at \in {"write", "clash", "pong"}
            /\ pinger'[r] \in [to : Peer, at : {"none", "open", "read", "deaf", "pong", "write", "clash"}]
      BY <2>1, <3>1 DEF Writers
    <3>3. pinger' \in [Slot -> [to : Peer, at : {"none", "open", "read", "deaf", "pong", "write", "clash"}]]
      BY <3>1, <3>2
    <3>. QED
      BY <2>1, <3>2, <3>3, PingingChatInv
  <2>. QED
    BY <2>2, <2>3
<1>5. CASE FatalWrite(s)
  BY <1>5, SlotOwner, DieChatInv DEF FatalWrite, CountType
<1>6. CASE EndWrite(s)
  <2>1. /\ pinger[s].at \in {"write", "clash"} /\ Ended(s)
        /\ UNCHANGED <<mainVars, todo, netVars, historyVars>>
        /\ Mark(s[1], pinger[s].to) \/ UNCHANGED connectedPeers
    BY <1>6 DEF EndWrite
  <2>2. pinger[s].to \in Peer /\ Ready(pinger[s].to) /\ s[1] \in Chatter
    BY <2>1, SlotOwner
  <2>3. /\ connectedPeers \in [Chatter -> SUBSET Peer]
        /\ \A c \in Chatter : \A p \in connectedPeers[c] : Ready(p)
    OBVIOUS
  <2>4. connectedPeers' \in [Chatter -> SUBSET Peer]
    BY <2>1, <2>2, <2>3 DEF Mark
  <2>5. \A c \in Chatter : connectedPeers'[c] \subseteq connectedPeers[c] \cup {pinger[s].to}
    BY <2>1, <2>2, <2>3 DEF Mark
  <2>6. \A c \in Chatter : \A p \in connectedPeers'[c] : Ready(p)
    BY <2>2, <2>3, <2>5
  <2>. QED
    BY <2>1, <2>4, <2>6, EndedFrame, PingingChatInv
<1>. QED
  BY <1>1, <1>2, <1>3, <1>4, <1>5, <1>6 DEF PingPeer

(* The network keeps the invariant, and so do those who end or start again *)
(* whatever main has come to.                                              *)
LEMMA NetworkChatInv ==
  ASSUME ChatInv,
         \/ \E c \in Chatter : Advertise(c) \/ Kill(c) \/ Restart(c)
         \/ \E c \in Chatter, p \in Peer : Redial(c, p)
         \/ \E l \in Pair : CutLink(l)
  PROVE  ChatInv'
<1>. USE PingingNow, NetCountStay DEF loopVars, linkVars, historyVars
<1>1. ASSUME NEW c \in Chatter, Advertise(c)
      PROVE  ChatInv'
  <2>1. record' \in SUBSET Chatter /\ \A p \in record' : Ready(p)
    BY <1>1 DEF Advertise, ChatInv, FoundOK, Ready
  <2>2. NetType'
    BY <1>1 DEF Advertise, NetType
  <2>. QED
    BY <1>1, <2>1, <2>2, PingingChatInv DEF Advertise
<1>2. ASSUME NEW c \in Chatter, NEW p \in Peer, Redial(c, p)
      PROVE  ChatInv'
  <2>1. p # c
    BY <1>2, ChatAssumption DEF Redial, Dialling, TryAt, ChatInv, FoundOK
  <2>2. NetType'
    BY <1>2, <2>1, JoinType DEF Redial
  <2>. QED
    BY <1>2, <2>2, PingingChatInv DEF Redial
<1>3. ASSUME NEW l \in Pair, CutLink(l)
      PROVE  ChatInv'
  <2>1. NetType'
    BY <1>3 DEF CutLink, NetType
  <2>2. pinger' \in [Slot -> [to : Peer, at : {"none", "open", "read", "deaf", "pong", "write", "clash"}]]
    BY <1>3, DeafenedFrame DEF CutLink, Deafened
  <2>3. \A s \in Slot : /\ pinger'[s].to = pinger[s].to
                        /\ \/ pinger'[s].at = pinger[s].at
                           \/ pinger[s].at = "read" /\ pinger'[s].at = "deaf"
    BY <1>3, DeafenedFrame DEF CutLink
  <2>4. CountType' /\ UNCHANGED <<mainVars, connectedPeers, todo, record, restarted>>
    BY <1>3, FaultType DEF CutLink
  <2>. QED
    BY <2>1, <2>2, <2>3, <2>4, PingingChatInv
<1>4. ASSUME NEW c \in Chatter, Kill(c)
      PROVE  ChatInv'
  BY <1>4, FaultType, DieChatInv DEF Kill, CountType
<1>5. ASSUME NEW c \in Chatter, Restart(c)
      PROVE  ChatInv'
  <2>1. /\ stage[c] = "dead" /\ stage' = [stage EXCEPT ![c] = "bootstrap"]
        /\ restarted' = restarted \cup {c} /\ restarts' \in 0..MaxRestart
        /\ UNCHANGED <<online, registered, advertising, seen, trying, connectedPeers, todo, pinger,
                       record, links, peerstore, introduced, faults>>
    BY <1>5, ChatAssumption DEF Restart, netVars, CountType
  <2>2. TypeOK'
    BY <2>1 DEF TypeOK
  <2>3. \A p : Ready(p) => Ready(p)'
    BY <2>1 DEF Ready, TypeOK
  <2>4. FoundOK'
    BY <2>1, <2>3 DEF ChatInv, FoundOK
  <2>5. StageOK'
    BY <2>1, SlotOwner DEF ChatInv, StageOK, TypeOK
  <2>. QED
    BY <2>2, <2>4, <2>5 DEF ChatInv
<1>. QED
  BY <1>1, <1>2, <1>3, <1>4, <1>5

-----------------------------------------------------------------------------
(* The theorems.                                                           *)

(* A step of the client or of the network keeps the invariant.             *)
LEMMA StepChatInv == ChatInv /\ [Next]_vars => ChatInv'
<1>1. ChatInv /\ UNCHANGED vars => ChatInv'
  <2>. SUFFICES ASSUME ChatInv, UNCHANGED vars
                PROVE  ChatInv'
    OBVIOUS
  <2>. USE DEF vars, mainVars, loopVars, netVars, linkVars, historyVars
  <2>1. TypeOK'
    BY DEF ChatInv, TypeOK
  <2>2. FoundOK' /\ StageOK'
    BY DEF ChatInv, FoundOK, StageOK, Ready
  <2>. QED
    BY <2>1, <2>2 DEF ChatInv
<1>2. ASSUME ChatInv, NEW c \in Chatter, MainStep(c)
      PROVE  ChatInv'
  BY <1>2, StartChatInv, ConnectChatInv DEF MainStep
<1>. QED
  BY <1>1, <1>2, TickerChatInv, PingPeerChatInv, NetworkChatInv DEF Next

(* Every reachable state satisfies the inductive invariant.                *)
THEOREM ChatInvariance == Spec => []ChatInv
  BY InitChatInv, StepChatInv, PTL DEF Spec

(* connectToPeers writes the map before the first ping can.                *)
THEOREM MainHasMapAloneHolds == Spec => []MainHasMapAlone
<1>1. ChatInv => MainHasMapAlone
  BY DEF ChatInv, StageOK, MainHasMapAlone
<1>. QED
  BY <1>1, ChatInvariance, PTL

(* A client in its loop ends only by two answered pings that write its map *)
(* at once, or is killed.                                                  *)
THEOREM DiesOnlyOfMapHolds == Spec => DiesOnlyOfMap
<1>1. ChatInv /\ [Next]_vars =>
        [\A c \in Chatter : stage[c] = "loop" /\ stage'[c] = "dead" /\ faults' = faults =>
           \E s \in Slot : s[1] = c /\ pinger[s].at = "clash"]_vars
  <2>. SUFFICES ASSUME ChatInv, Next, NEW c \in Chatter, stage[c] = "loop", stage'[c] = "dead",
                       faults' = faults
                PROVE  \E s \in Slot : s[1] = c /\ pinger[s].at = "clash"
    OBVIOUS
  <2>. USE DEF ChatInv, TypeOK, StageOK
  <2>1. ASSUME NEW d \in Chatter, MainStep(d)
        PROVE  FALSE
    BY <2>1 DEF MainStep, ConnectToBootstrapPeers, ConnectToRelay, ConnectToRelayFails,
         SetupStreamHandler, ReserveRelay, AnnounceSelf, Pass, After, Die, ConnectToPeers,
         TakePeer, LookupEnds, ConnectDirectly, DirectFails, OpenToPeer, OpenFails,
         ConnectRelayed, RelayedFails, StreamToRelay, StreamFails, TryAt
  <2>2. ASSUME NEW d \in Chatter, Ticker(d) \/ Advertise(d)
        PROVE  FALSE
    BY <2>2 DEF Ticker, Tick, StartPing, Advertise, mainVars
  <2>3. ASSUME NEW d \in Chatter, NEW p \in Peer, Redial(d, p)
        PROVE  FALSE
    BY <2>3 DEF Redial, mainVars
  <2>4. ASSUME NEW l \in Pair, CutLink(l)
        PROVE  FALSE
    BY <2>4 DEF CutLink, mainVars
  <2>5. ASSUME NEW s \in Slot, PingPeer(s)
        PROVE  s[1] = c /\ pinger[s].at = "clash"
    BY <2>5, SlotOwner
       DEF PingPeer, OpenPing, ReadPong, PingFails, BeginWrite, FatalWrite, EndWrite, Die, mainVars
  <2>6. ASSUME NEW d \in Chatter, Kill(d)
        PROVE  FALSE
    BY <2>6 DEF Kill, Fault
  <2>7. ASSUME NEW d \in Chatter, Restart(d)
        PROVE  FALSE
    BY <2>7 DEF Restart
  <2>. QED
    BY <2>1, <2>2, <2>3, <2>4, <2>5, <2>6, <2>7 DEF Next
<1>. QED
  BY <1>1, ChatInvariance, PTL DEF Spec, DiesOnlyOfMap

-----------------------------------------------------------------------------
(* The abstract Rendezvous.                                                *)

(* The six ways in which a step may touch whom clients know and whom they  *)
(* are connected to.                                                       *)
Quiet == UNCHANGED <<record, peerstore, introduced, links>>
Lists == \E c \in Chatter : record' = record \cup {c} /\ UNCHANGED <<peerstore, introduced, links>>
Finds ==
  \E c \in Chatter, p \in record :
    /\ p # c /\ peerstore' = [peerstore EXCEPT ![c] = @ \cup {p}]
    /\ introduced' = introduced \cup {{c, p}} /\ UNCHANGED <<record, links>>
Joins ==
  \E c \in Chatter : \E p \in Peer \ {c} :
    /\ p \in Chatter => p \in peerstore[c]
    /\ Join(c, p) /\ UNCHANGED <<record, introduced>>
Cuts == \E S \in SUBSET links : links' = links \ S /\ UNCHANGED <<record, peerstore, introduced>>
Leaves == \E c \in Chatter : Die(c)

Ways == Quiet \/ Lists \/ Finds \/ Joins \/ Cuts \/ Leaves

(* main, with connectToPeers, connects to the relay and to the peer it     *)
(* tries.                                                                  *)
LEMMA MainMeets ==
  ASSUME ChatInv, KnowEachOther, NEW c \in Chatter, MainStep(c)
  PROVE  Ways
<1>. USE DEF netVars, linkVars, Ways
<1>1. CASE \/ ConnectToBootstrapPeers(c) \/ SetupStreamHandler(c) \/ ReserveRelay(c)
           \/ AnnounceSelf(c) \/ LookupEnds(c) \/ DirectFails(c) \/ OpenToPeer(c)
           \/ OpenFails(c) \/ RelayedFails(c) \/ StreamToRelay(c) \/ StreamFails(c)
  BY <1>1 DEF Quiet, ConnectToBootstrapPeers, SetupStreamHandler, ReserveRelay, AnnounceSelf,
     LookupEnds, DirectFails, OpenToPeer, OpenFails, RelayedFails, StreamToRelay, StreamFails
<1>2. CASE ConnectToRelay(c) \/ ConnectRelayed(c)
  <2>1. Join(c, Relay) /\ UNCHANGED <<record, introduced>>
    BY <1>2 DEF ConnectToRelay, ConnectRelayed
  <2>. QED
    BY <2>1, ChatAssumption DEF Joins, Peer
<1>3. CASE ConnectToRelayFails(c)
  BY <1>3 DEF ConnectToRelayFails, Leaves
<1>4. CASE TakePeer(c)
  BY <1>4 DEF Finds, TakePeer
<1>5. CASE ConnectDirectly(c)
  <2>. PICK p : p = trying[c].peer
    OBVIOUS
  <2>1. p \in seen[c] /\ p \in Chatter \ {c} /\ p \in Peer
    BY <1>5 DEF ConnectDirectly, TryAt, ChatInv, TypeOK, FoundOK, Peer
  <2>2. p \in peerstore[c]
    BY <2>1 DEF KnowEachOther
  <2>3. Join(c, p) /\ UNCHANGED <<record, introduced>>
    BY <1>5 DEF ConnectDirectly
  <2>. QED
    BY <2>1, <2>2, <2>3 DEF Joins
<1>. QED
  BY <1>1, <1>2, <1>3, <1>4, <1>5 DEF MainStep, ConnectToPeers

(* The ticker and the pings connect nobody; the network dials for them.    *)
LEMMA OthersMeet ==
  ASSUME ChatInv, KnowEachOther,
         \/ \E c \in Chatter : Ticker(c) \/ Advertise(c) \/ Kill(c) \/ Restart(c)
         \/ \E s \in Slot : PingPeer(s)
         \/ \E c \in Chatter, p \in Peer : Redial(c, p)
         \/ \E l \in Pair : CutLink(l)
  PROVE  Ways
<1>. USE DEF netVars, linkVars, mainVars, Ways
<1>1. ASSUME NEW c \in Chatter, Ticker(c) \/ Advertise(c)
      PROVE  Quiet \/ Lists
  BY <1>1 DEF Ticker, Tick, StartPing, Advertise, Quiet, Lists
<1>2. ASSUME NEW s \in Slot, PingPeer(s)
      PROVE  Quiet \/ Leaves
  <2>1. CASE FatalWrite(s)
    BY <2>1, SlotOwner DEF FatalWrite, Leaves
  <2>2. CASE ~FatalWrite(s)
    BY <1>2, <2>2 DEF PingPeer, OpenPing, ReadPong, PingFails, BeginWrite, EndWrite, Quiet
  <2>. QED
    BY <2>1, <2>2
<1>3. ASSUME NEW c \in Chatter, NEW p \in Peer, Redial(c, p)
      PROVE  Joins
  <2>1. Join(c, p) /\ UNCHANGED <<record, introduced>>
    BY <1>3 DEF Redial
  <2>2. p # c /\ (p \in Chatter => p \in peerstore[c])
    <3>1. CASE TryAt(c, "open") /\ trying[c].peer = p
      <4>1. p \in seen[c] /\ p # c
        BY <3>1 DEF TryAt, ChatInv, FoundOK
      <4>. QED
        BY <4>1 DEF KnowEachOther
    <3>2. CASE TryAt(c, "stream") /\ p = Relay
      BY <3>2, ChatAssumption
    <3>3. ASSUME NEW s \in Slot, s[1] = c, pinger[s] = [to |-> p, at |-> "open"]
          PROVE  p # c /\ (p \in Chatter => p \in peerstore[c])
      <4>1. pinger[s].at # "none" /\ pinger[s].to = p
        BY <3>3
      <4>. QED
        BY <3>3, <4>1 DEF KnowEachOther, ChatInv, StageOK
    <3>. QED
      BY <1>3, <3>1, <3>2, <3>3 DEF Redial, Dialling
  <2>. QED
    BY <2>1, <2>2 DEF Joins
<1>4. ASSUME NEW l \in Pair, CutLink(l)
      PROVE  Cuts
  BY <1>4 DEF CutLink, Cuts
<1>5. ASSUME NEW c \in Chatter, Kill(c) \/ Restart(c)
      PROVE  Quiet \/ Leaves
  BY <1>5 DEF Kill, Restart, Quiet, Leaves
<1>. QED
  BY <1>1, <1>2, <1>3, <1>4, <1>5

(* Every step is of one of the six ways.                                   *)
LEMMA StepMeets ==
  ASSUME ChatInv, KnowEachOther, [Next]_vars
  PROVE  Ways
<1>1. CASE UNCHANGED vars
  BY <1>1 DEF vars, netVars, linkVars, Quiet, Ways
<1>. QED
  BY <1>1, MainMeets, OthersMeet DEF Next

(* A process that has gone has nobody to find, to ping or to talk to.      *)
Gone(c) ==
  /\ seen'[c] = {} /\ todo'[c] = {}
  /\ \A s \in Slot : s[1] = c => pinger'[s].at = "none"

(* Clients that are connected know each other, and whoever goes on knows   *)
(* whom it knew.                                                           *)
LEMMA MeetingsKnown ==
  ASSUME ChatInv, KnowEachOther, Ways
  PROVE  /\ \A c, p \in Chatter : {c, p} \in links' => c # p /\ p \in peerstore'[c]
         /\ \A c \in Chatter : peerstore[c] \subseteq peerstore'[c] \/ Gone(c)
<1>1. CASE Quiet \/ Lists \/ Cuts
  BY <1>1 DEF Quiet, Lists, Cuts, KnowEachOther
<1>2. CASE Finds
  <2>1. \A c \in Chatter : peerstore[c] \subseteq peerstore'[c]
    BY <1>2 DEF Finds, ChatInv, TypeOK
  <2>. QED
    BY <1>2, <2>1 DEF Finds, KnowEachOther
<1>3. CASE Joins
  <2>1. PICK c \in Chatter : \E p \in Peer \ {c} : (p \in Chatter => p \in peerstore[c]) /\ Join(c, p)
    BY <1>3 DEF Joins
  <2>2. PICK p \in Peer \ {c} : (p \in Chatter => p \in peerstore[c]) /\ Join(c, p)
    BY <2>1
  <2>3. \A d \in Chatter : peerstore[d] \subseteq peerstore'[d]
    BY <2>2 DEF Join, ChatInv, TypeOK
  <2>4. ASSUME NEW d \in Chatter, NEW q \in Chatter, {d, q} = {c, p}
        PROVE  d # q /\ q \in peerstore'[d]
    <3>1. p # Relay /\ p \in Chatter
      BY <2>4, ChatAssumption DEF Peer
    <3>2. p \in peerstore'[c] /\ c \in peerstore'[p]
      BY <2>2, <3>1 DEF Join, ChatInv, TypeOK
    <3>. QED
      BY <2>2, <2>4, <3>2
  <2>5. links' = links \cup {{c, p}}
    BY <2>2 DEF Join
  <2>. QED
    BY <2>3, <2>4, <2>5 DEF KnowEachOther
<1>4. CASE Leaves
  <2>1. PICK d \in Chatter : Die(d)
    BY <1>4 DEF Leaves
  <2>2. /\ \A l \in links' : l \in links /\ d \notin l
        /\ \A c \in Chatter : c # d => peerstore'[c] = peerstore[c]
    BY <2>1 DEF Die, ChatInv, TypeOK
  <2>3. Gone(d)
    <3>1. /\ seen' = [seen EXCEPT ![d] = {}] /\ todo' = [todo EXCEPT ![d] = {}]
          /\ \A s \in Slot : s[1] = d => pinger'[s] = Free
      BY <2>1 DEF Die
    <3>. QED
      BY <3>1 DEF Gone, Free, ChatInv, TypeOK
  <2>. QED
    BY <2>2, <2>3 DEF KnowEachOther
<1>. QED
  BY <1>1, <1>2, <1>3, <1>4 DEF Ways

(* What is found, is left to ping, and is pinged, comes from the search,   *)
(* the connections and the tick.                                           *)
TargetsKept ==
  /\ \A c \in Chatter : seen'[c] \subseteq seen[c] \cup peerstore'[c]
  /\ \A c \in Chatter : todo'[c] \subseteq todo[c] \/ todo'[c] = Peers(c)
  /\ \A s \in Slot : pinger'[s].at # "none" =>
       \/ pinger[s].at # "none" /\ pinger'[s].to = pinger[s].to
       \/ pinger'[s].to \in todo[s[1]]

(* Nobody who ends has targets, and the pings that lose their connection   *)
(* keep theirs.                                                            *)
LEMMA DieTargets ==
  ASSUME ChatInv, NEW c \in Chatter, Die(c)
  PROVE  TargetsKept
<1>1. PICK lost :
        pinger' = [s \in Slot |-> IF s[1] = c THEN Free ELSE Deafened(lost)[s]]
  BY DEF Die
<1>2. \A s \in Slot : pinger'[s].at # "none" => pinger[s].at # "none" /\ pinger'[s].to = pinger[s].to
  BY <1>1, DeafenedFrame DEF Free, ChatInv
<1>3. \A d \in Chatter : todo'[d] \subseteq todo[d] /\ seen'[d] \subseteq seen[d]
  BY DEF Die, ChatInv, TypeOK
<1>. QED
  BY <1>2, <1>3 DEF TargetsKept

(* main adds to what its search has found, and nothing else.               *)
LEMMA MainTargets ==
  ASSUME ChatInv, NEW c \in Chatter, MainStep(c)
  PROVE  TargetsKept
<1>. USE DEF loopVars
<1>1. CASE ConnectToRelayFails(c)
  BY <1>1, DieTargets DEF ConnectToRelayFails
<1>2. CASE TakePeer(c)
  <2>1. PICK p : /\ seen' = [seen EXCEPT ![c] = @ \cup {p}]
                 /\ peerstore' = [peerstore EXCEPT ![c] = @ \cup {p}]
    BY <1>2 DEF TakePeer
  <2>2. UNCHANGED <<todo, pinger>>
    BY <1>2 DEF TakePeer
  <2>3. \A d \in Chatter : seen'[d] \subseteq seen[d] \cup peerstore'[d]
    BY <2>1 DEF ChatInv, TypeOK
  <2>. QED
    BY <2>2, <2>3 DEF TargetsKept
<1>3. CASE ~(ConnectToRelayFails(c) \/ TakePeer(c))
  <2>1. UNCHANGED <<seen, todo, pinger>>
    BY <1>3 DEF MainStep, ConnectToPeers, ConnectToBootstrapPeers, ConnectToRelay,
       SetupStreamHandler, ReserveRelay, AnnounceSelf, LookupEnds, ConnectDirectly, DirectFails,
       OpenToPeer, OpenFails, ConnectRelayed, RelayedFails, StreamToRelay, StreamFails
  <2>. QED
    BY <2>1 DEF TargetsKept
<1>. QED
  BY <1>1, <1>2, <1>3

(* And the ticker pings whom its process is connected to.                  *)
LEMMA TickerTargets ==
  ASSUME ChatInv, NEW c \in Chatter, Ticker(c)
  PROVE  TargetsKept
<1>0. TypeOK /\ UNCHANGED seen
  BY DEF ChatInv, Ticker, Tick, StartPing, mainVars
<1>1. CASE Tick(c)
  BY <1>0, <1>1 DEF Tick, TargetsKept, TypeOK
<1>2. CASE StartPing(c)
  <2>1. PICK p \in todo[c], s \in FreeSlots(c) :
          /\ pinger' = [pinger EXCEPT ![s] = [to |-> p, at |-> "open"]]
          /\ todo' = [todo EXCEPT ![c] = @ \ {p}]
    BY <1>2 DEF StartPing
  <2>2. s \in Slot /\ s[1] = c
    BY DEF FreeSlots
  <2>3. \A d \in Chatter : todo'[d] \subseteq todo[d]
    BY <1>0, <2>1 DEF TypeOK
  <2>4. pinger'[s].to = p /\ \A r \in Slot \ {s} : pinger'[r] = pinger[r]
    BY <1>0, <2>1, <2>2 DEF TypeOK
  <2>. QED
    BY <1>0, <2>2, <2>3, <2>4 DEF TargetsKept
<1>. QED
  BY <1>1, <1>2 DEF Ticker

(* A ping keeps its target to its end.                                     *)
LEMMA PingTargets ==
  ASSUME ChatInv, NEW s \in Slot, PingPeer(s)
  PROVE  TargetsKept
<1>1. CASE FatalWrite(s)
  BY <1>1, DieTargets, SlotOwner DEF FatalWrite
<1>2. CASE ~FatalWrite(s)
  <2>0. TypeOK /\ UNCHANGED <<todo, seen>>
    BY <1>2 DEF ChatInv, PingPeer, OpenPing, ReadPong, PingFails, BeginWrite, EndWrite, mainVars
  <2>1. \A r \in Slot : pinger'[r].at # "none" => pinger[r].at # "none" /\ pinger'[r].to = pinger[r].to
    <3>1. ASSUME NEW place \in {"read", "deaf", "pong", "write"}, PingAt(s, place),
                 pinger[s].at # "none"
          PROVE  \A r \in Slot : pinger'[r].at # "none" =>
                   pinger[r].at # "none" /\ pinger'[r].to = pinger[r].to
      BY <2>0, <3>1, PingAtFrame
    <3>2. CASE OpenPing(s)
      <4>1. PICK place \in {"read", "deaf"} : PingAt(s, place)
        BY <3>2 DEF OpenPing
      <4>. QED
        BY <3>1, <3>2, <4>1 DEF OpenPing
    <3>3. CASE ReadPong(s)
      BY <3>1, <3>3 DEF ReadPong
    <3>4. CASE Ended(s)
      BY <2>0, <3>4, EndedFrame
    <3>5. CASE BeginWrite(s)
      <4>1. CASE Writers(s[1]) = {}
        BY <3>1, <3>5, <4>1 DEF BeginWrite
      <4>2. CASE Writers(s[1]) # {}
        BY <2>0, <3>5, <4>2 DEF BeginWrite, Writers, TypeOK
      <4>. QED
        BY <4>1, <4>2
    <3>. QED
      BY <1>2, <3>2, <3>3, <3>4, <3>5 DEF PingPeer, PingFails, EndWrite
  <2>. QED
    BY <2>0, <2>1 DEF TargetsKept
<1>. QED
  BY <1>1, <1>2

(* Every step is of that kind.                                             *)
LEMMA StepTargets ==
  ASSUME ChatInv, [Next]_vars
  PROVE  TargetsKept
<1>. USE DEF mainVars, loopVars
<1>1. CASE UNCHANGED <<todo, pinger, seen>>
  BY <1>1 DEF TargetsKept
<1>2. ASSUME NEW l \in Pair, CutLink(l)
      PROVE  TargetsKept
  <2>1. /\ pinger' = Deafened({l}) /\ UNCHANGED <<todo, seen>>
    BY <1>2 DEF CutLink
  <2>2. \A s \in Slot : pinger'[s].at # "none" =>
          pinger[s].at # "none" /\ pinger'[s].to = pinger[s].to
    BY <2>1, DeafenedFrame DEF ChatInv
  <2>. QED
    BY <2>1, <2>2 DEF TargetsKept
<1>3. ASSUME NEW c \in Chatter, Advertise(c) \/ Kill(c) \/ Restart(c)
      PROVE  TargetsKept
  BY <1>1, <1>3, DieTargets DEF Advertise, Kill, Restart
<1>4. ASSUME NEW c \in Chatter, NEW p \in Peer, Redial(c, p)
      PROVE  TargetsKept
  BY <1>1, <1>4 DEF Redial
<1>5. CASE UNCHANGED vars
  BY <1>1, <1>5 DEF vars
<1>. QED
  BY <1>2, <1>3, <1>4, <1>5, MainTargets, TickerTargets, PingTargets DEF Next

(* Everybody whom a client is connected to, is left to ping or pings, it   *)
(* knows, in its present life.                                             *)
THEOREM KnowEachOtherHolds == Spec => []KnowEachOther
<1>1. Init => KnowEachOther
  BY DEF Init, KnowEachOther, Free
<1>2. ChatInv /\ KnowEachOther /\ [Next]_vars => KnowEachOther'
  <2>. SUFFICES ASSUME ChatInv, KnowEachOther, [Next]_vars
                PROVE  KnowEachOther'
    OBVIOUS
  <2>1. /\ \A c, p \in Chatter : {c, p} \in links' => c # p /\ p \in peerstore'[c]
        /\ \A c \in Chatter : peerstore[c] \subseteq peerstore'[c] \/ Gone(c)
    BY StepMeets, MeetingsKnown
  <2>2. TargetsKept
    BY StepTargets
  <2>. SUFFICES ASSUME NEW c \in Chatter, NEW p \in Chatter
                PROVE  /\ p \in seen'[c] \cup todo'[c] => p \in peerstore'[c]
                       /\ \A s \in Slot : s[1] = c /\ pinger'[s].at # "none" /\ pinger'[s].to = p =>
                            p \in peerstore'[c]
    BY <2>1 DEF KnowEachOther
  <2>3. CASE Gone(c)
    BY <2>3 DEF Gone
  <2>4. CASE peerstore[c] \subseteq peerstore'[c]
    <3>1. p \in seen[c] \cup todo[c] => p \in peerstore'[c]
      BY <2>4 DEF KnowEachOther
    <3>2. p \in Peers(c) => p \in peerstore'[c]
      BY <2>4 DEF KnowEachOther, Peers
    <3>3. p \in seen'[c] \cup todo'[c] => p \in peerstore'[c]
      BY <2>2, <3>1, <3>2 DEF TargetsKept
    <3>4. ASSUME NEW s \in Slot, s[1] = c, pinger'[s].at # "none", pinger'[s].to = p
          PROVE  p \in peerstore'[c]
      <4>1. \/ pinger[s].at # "none" /\ pinger[s].to = p
            \/ p \in todo[c]
        BY <2>2, <3>4 DEF TargetsKept
      <4>. QED
        BY <2>4, <3>1, <3>4, <4>1 DEF KnowEachOther
    <3>. QED
      BY <3>3, <3>4
  <2>. QED
    BY <2>1, <2>3, <2>4
<1>. QED
  BY <1>1, <1>2, ChatInvariance, PTL DEF Spec

(* The chat client implements Rendezvous: no dial, redial or ping connects
   two clients of whom none has found the other while it was listed, or was
   connected to it before in its present life.                             *)
THEOREM PromiseHolds == Spec => Promise
<1>1. Init => Met!RendezvousInit
  BY DEF Init, Met!RendezvousInit, Connections
<1>2. ChatInv /\ KnowEachOther /\ [Next]_vars => [Met!RendezvousNext]_(Met!rendezvousVars)
  <2>. SUFFICES ASSUME ChatInv, KnowEachOther, Ways
                PROVE  [Met!RendezvousNext]_(Met!rendezvousVars)
    BY StepMeets
  <2>1. CASE Quiet
    BY <2>1 DEF Quiet, Met!rendezvousVars, Connections
  <2>2. CASE Lists
    BY <2>2 DEF Lists, Met!RendezvousNext, Met!Enlist, Connections
  <2>3. CASE Finds
    <3>1. PICK c \in Chatter, p \in record :
            /\ peerstore' = [peerstore EXCEPT ![c] = @ \cup {p}]
            /\ introduced' = introduced \cup {{c, p}} /\ UNCHANGED <<record, links>>
      BY <2>3 DEF Finds
    <3>2. p \in Chatter
      BY DEF ChatInv, TypeOK
    <3>3. Met!Find(c, p)
      BY <3>1 DEF Met!Find, Connections
    <3>. QED
      BY <3>2, <3>3 DEF Met!RendezvousNext
  <2>4. CASE Joins
    <3>1. PICK c \in Chatter : \E p \in Peer \ {c} :
            /\ p \in Chatter => p \in peerstore[c]
            /\ Join(c, p) /\ UNCHANGED <<record, introduced>>
      BY <2>4 DEF Joins
    <3>2. PICK p \in Peer \ {c} :
            /\ p \in Chatter => p \in peerstore[c]
            /\ Join(c, p) /\ UNCHANGED <<record, introduced>>
      BY <3>1
    <3>3. CASE p = Relay
      BY <3>2, <3>3 DEF Join, Connections, Met!rendezvousVars
    <3>4. CASE p # Relay
      <4>1. p \in Chatter /\ Relay \notin {c, p}
        BY <3>4, ChatAssumption DEF Peer
      <4>2. Connections' = Connections \cup {{c, p}}
        BY <3>2, <4>1 DEF Join, Connections
      <4>3. Met!Meet(c, p)
        BY <3>2, <3>4, <4>1, <4>2 DEF Met!Meet, Join
      <4>. QED
        BY <4>1, <4>3 DEF Met!RendezvousNext
    <3>. QED
      BY <3>3, <3>4
  <2>5. CASE Cuts
    <3>1. PICK S \in SUBSET links : links' = links \ S /\ UNCHANGED <<record, peerstore, introduced>>
      BY <2>5 DEF Cuts
    <3>2. Connections' = Connections \ (S \cap Connections)
      BY <3>1 DEF Connections
    <3>3. Met!Part(S \cap Connections)
      BY <3>1, <3>2 DEF Met!Part
    <3>. QED
      BY <3>3 DEF Met!RendezvousNext
  <2>6. CASE Leaves
    <3>1. PICK c \in Chatter : Die(c)
      BY <2>6 DEF Leaves
    <3>2. Connections' = {l \in Connections : c \notin l}
      BY <3>1 DEF Die, Connections
    <3>3. Met!Leave(c)
      BY <3>1, <3>2 DEF Met!Leave, Die
    <3>. QED
      BY <3>3 DEF Met!RendezvousNext
  <2>. QED
    BY <2>1, <2>2, <2>3, <2>4, <2>5, <2>6 DEF Ways
<1>. QED
  BY <1>1, <1>2, ChatInvariance, KnowEachOtherHolds, PTL DEF Spec, Promise, Met!RendezvousSpec

(* What every Rendezvous has: of two clients that are connected one has once
   found the other in the DHT.                                             *)
THEOREM ConnectedWereFound == Spec => []Met!MetWereFound
  BY PromiseHolds, Met!MetWereFoundHolds, PTL DEF Promise
=============================================================================
