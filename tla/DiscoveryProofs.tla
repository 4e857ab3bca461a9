-------------------------- MODULE DiscoveryProofs --------------------------
(* Theorems about Discovery, for any number of runners, clients and        *)
(* servers, and any number of faults.                                      *)
EXTENDS Discovery, TLAPS

(* The start satisfies the invariant: nobody is known or connected.        *)
LEMMA InitDiscoveryInv == Init => DiscoveryInv
  BY PeerAssumption, FaultAssumption
     DEF Init, DiscoveryInv, TypeOK, Stage, StagesOfProgram, DeadAreGone,
         FoundAreReady, SendersServe,
         Ready, ServesInTime, ServedUnlessStale, SearchInv, SearchOK, OnTheWay, At,
         Linked, Node, Server

(* A connection to a server changes no other connection.                   *)
LEMMA ServerLink ==
  ASSUME NEW n \in Node, NEW s \in Server, links' = links \cup {{n, s}}
  PROVE  /\ \A a, b \in Node : Linked(a, b)' <=> Linked(a, b)
         /\ \A a \in Node, t \in Server :
              Linked(a, t)' <=> Linked(a, t) \/ (a = n /\ t = s)
  BY PeerAssumption DEF Linked, Node, Server

(* A connection between processes changes no other connection.             *)
LEMMA NodeLink ==
  ASSUME NEW n \in Node, NEW p \in Node, links' = links \cup {{n, p}}
  PROVE  /\ \A a, b \in Node : Linked(a, b)' <=>
              Linked(a, b) \/ (a = n /\ b = p) \/ (a = p /\ b = n)
         /\ \A a \in Node, t \in Server : Linked(a, t)' <=> Linked(a, t)
  BY PeerAssumption DEF Linked, Node, Server

(* The connection over the relay is one to the peer and one to the relay.  *)
LEMMA RelayedLink ==
  ASSUME NEW n \in Node, NEW p \in Node, links' = links \cup {{n, p}, {n, Relay}}
  PROVE  /\ \A a, b \in Node : Linked(a, b)' <=>
              Linked(a, b) \/ (a = n /\ b = p) \/ (a = p /\ b = n)
         /\ \A a \in Node, t \in Server :
              Linked(a, t)' <=> Linked(a, t) \/ (a = n /\ t = Relay)
<1>1. Relay \in Server
  BY DEF Server
<1>2. \A a, b \in Node : {a, b} # {n, Relay}
  BY <1>1, PeerAssumption
<1>3. \A a \in Node, t \in Server : {a, t} # {n, p}
  BY PeerAssumption
<1>4. \A a \in Node, t \in Server : {a, t} = {n, Relay} <=> a = n /\ t = Relay
  BY <1>1, PeerAssumption
<1>5. \A a, b \in Node : {a, b} = {n, p} <=> (a = n /\ b = p) \/ (a = p /\ b = n)
  OBVIOUS
<1>. QED
  BY <1>2, <1>3, <1>4, <1>5 DEF Linked

(* The end of a process takes all its connections, and no other.           *)
LEMMA DieLink ==
  ASSUME NEW n \in Node, Die(n)
  PROVE  \A a \in Node, b \in Node \cup Server :
           Linked(a, b)' <=> Linked(a, b) /\ n \notin {a, b}
  BY DEF Linked, Die

(* The pairs that the actions connect are of the type of links.            *)
LEMMA PairType ==
  ASSUME NEW n \in Node, NEW p \in Node \cup Server
  PROVE  {n, p} \in Pair
  BY DEF Pair

(* The next stage of each.                                                 *)
LEMMA AdvanceStage ==
  ASSUME NEW n \in Node, Advance(n)
  PROVE  /\ At(n, "bootstrap") => stage' = [stage EXCEPT ![n] = "relay"]
         /\ At(n, "relay") =>
              stage' = [stage EXCEPT ![n] = IF n \in Runner THEN "reserve" ELSE "announce"]
         /\ n \in Runner /\ At(n, "reserve") => stage' = [stage EXCEPT ![n] = "register"]
         /\ At(n, "register") =>
              stage' = [stage EXCEPT ![n] = IF n \in Runner THEN "announce" ELSE "search"]
         /\ At(n, "announce") =>
              stage' = [stage EXCEPT ![n] = IF n \in Runner THEN "loop" ELSE "register"]
         /\ n \in Client /\ At(n, "search") => stage' = [stage EXCEPT ![n] = "connect"]
         /\ n \in Client /\ At(n, "connect") => stage' = [stage EXCEPT ![n] = "loop"]
<1>1. /\ RunnerNext["bootstrap"] = "relay" /\ RunnerNext["relay"] = "reserve"
      /\ RunnerNext["reserve"] = "register" /\ RunnerNext["register"] = "announce"
      /\ RunnerNext["announce"] = "loop"
  BY DEF RunnerNext
<1>2. /\ ClientNext["bootstrap"] = "relay" /\ ClientNext["relay"] = "announce"
      /\ ClientNext["announce"] = "register" /\ ClientNext["register"] = "search"
      /\ ClientNext["search"] = "connect" /\ ClientNext["connect"] = "loop"
  BY DEF ClientNext
<1>3. n \in Client => n \notin Runner
  BY PeerAssumption
<1>. QED
  BY <1>1, <1>2, <1>3 DEF Advance, At

(* The end of a process keeps the invariant: it takes its connections      *)
(* along.                                                                  *)
LEMMA DieInv ==
  ASSUME DiscoveryInv, NEW n \in Node, Die(n), faults' \in 0..MaxFault
  PROVE  DiscoveryInv'
<1>. USE PeerAssumption DEF DiscoveryInv, At, Node, Server, peerVars, searchVars, historyVars,
         worldVars, mainVars
<1>1. \A a \in Node, b \in Node \cup Server :
        Linked(a, b)' <=> Linked(a, b) /\ n \notin {a, b}
  BY DieLink
<1>type. TypeOK'
  BY <1>1 DEF TypeOK, Stage, Die
<1>stages. (StagesOfProgram /\ ServesInTime)'
  BY <1>1 DEF TypeOK, Stage, StagesOfProgram, ServesInTime, Die
<1>found. FoundAreReady'
  BY <1>1 DEF TypeOK, StagesOfProgram, ServesInTime, FoundAreReady, Ready, Die
<1>served. (DeadAreGone /\ SendersServe /\ ServedUnlessStale)'
  BY <1>1
     DEF TypeOK, StagesOfProgram, ServesInTime, FoundAreReady, Ready,
         DeadAreGone, SendersServe, ServedUnlessStale, Die
<1>search. SearchInv'
  <2>1. Relay # n
    BY DEF Server
  <2>. SUFFICES ASSUME NEW c \in Client
                PROVE  SearchOK(c)'
    BY DEF SearchInv
  <2>2. CASE c = n
    BY <2>2, <1>1 DEF TypeOK, Die, SearchOK
  <2>3. CASE c # n
    <3>1. /\ stage'[c] = stage[c] /\ found'[c] = found[c] /\ yielded'[c] = yielded[c]
          /\ owed'[c] = owed[c] /\ dialling'[c] = dialling[c] /\ missed'[c] = missed[c]
          /\ c \in lookup' <=> c \in lookup
          /\ c \in troubled' <=> c \in troubled
      BY <2>3 DEF TypeOK, Die
    <3>2. Linked(c, Relay)' <=> Linked(c, Relay)
      BY <1>1, <2>1, <2>3
    <3>3. ASSUME NEW p \in owed[c], p \notin troubled'
          PROVE  /\ p \notin troubled
                 /\ Linked(c, p)' <=> Linked(c, p)
                 /\ record' = record /\ (p \in reserved => p \in reserved')
      <4>1. p \in Node /\ p # n /\ p \notin troubled
        BY <3>3 DEF Die, TypeOK
      <4>. QED
        BY <1>1, <2>3, <4>1 DEF Die
    <3>. QED
      BY <3>1, <3>2, <3>3 DEF SearchInv, SearchOK, OnTheWay
  <2>. QED
    BY <2>2, <2>3
<1>. QED
  BY <1>type, <1>stages, <1>found, <1>served, <1>search DEF DiscoveryInv

(* The calls of the two main functions before the search keep it.          *)
LEMMA MainStepInv ==
  ASSUME DiscoveryInv, NEW n \in Node, MainStep(n)
  PROVE  DiscoveryInv'
<1>. USE PeerAssumption DEF DiscoveryInv, At, Node, Server, peerVars, searchVars, historyVars,
         worldVars, mainVars
<1>1. CASE DialBootstrap(n)
  <2>1. CASE UNCHANGED links
    <3>1. \A a \in Node, b \in Node \cup Server : Linked(a, b)' <=> Linked(a, b)
      BY <2>1 DEF Linked
    <3>type. TypeOK'
      BY <1>1, <2>1, <3>1 DEF TypeOK, Stage, DialBootstrap
    <3>stages. (StagesOfProgram /\ ServesInTime)'
      BY <1>1, <2>1, <3>1
         DEF TypeOK, Stage, StagesOfProgram, ServesInTime, DialBootstrap
    <3>found. FoundAreReady'
      BY <1>1, <2>1, <3>1
         DEF TypeOK, StagesOfProgram, ServesInTime, FoundAreReady, Ready,
             DialBootstrap
    <3>served. (DeadAreGone /\ SendersServe /\ ServedUnlessStale)'
      BY <1>1, <2>1, <3>1
         DEF TypeOK, StagesOfProgram, ServesInTime, FoundAreReady, Ready,
             DeadAreGone, SendersServe, ServedUnlessStale, DialBootstrap
    <3>search. SearchInv'
      BY <1>1, <2>1, <3>1
         DEF TypeOK, StagesOfProgram, DeadAreGone, SearchInv, SearchOK,
             OnTheWay, DialBootstrap
    <3>. QED
      BY <3>type, <3>stages, <3>found, <3>served, <3>search DEF DiscoveryInv
  <2>2. ASSUME NEW b \in Bootstrap, links' = links \cup {{n, b}}
        PROVE  DiscoveryInv'
    <3>1. /\ {n, b} \in Pair
          /\ \A a, p \in Node : Linked(a, p)' <=> Linked(a, p)
          /\ \A a \in Node, t \in Server : Linked(a, t)' <=> Linked(a, t) \/ (a = n /\ t = b)
      BY <2>2, ServerLink, PairType DEF Server
    <3>links. links' \in SUBSET Pair
      BY <2>2, <3>1 DEF TypeOK
    <3>type. TypeOK'
      BY <1>1, <2>2, <3>1, <3>links DEF TypeOK, Stage, DialBootstrap
    <3>stages. (StagesOfProgram /\ ServesInTime)'
      BY <1>1, <2>2, <3>1
         DEF TypeOK, Stage, StagesOfProgram, ServesInTime, DialBootstrap
    <3>found. FoundAreReady'
      BY <1>1, <2>2, <3>1
         DEF TypeOK, StagesOfProgram, ServesInTime, FoundAreReady, Ready,
             DialBootstrap
    <3>served. (DeadAreGone /\ SendersServe /\ ServedUnlessStale)'
      BY <1>1, <2>2, <3>1
         DEF TypeOK, StagesOfProgram, ServesInTime, FoundAreReady, Ready,
             DeadAreGone, SendersServe, ServedUnlessStale, DialBootstrap
    <3>search. SearchInv'
      BY <1>1, <2>2, <3>1
         DEF TypeOK, StagesOfProgram, DeadAreGone, SearchInv, SearchOK,
             OnTheWay, DialBootstrap
    <3>. QED
      BY <3>type, <3>stages, <3>found, <3>served, <3>search DEF DiscoveryInv
  <2>. QED
    BY <1>1, <2>1, <2>2 DEF DialBootstrap, TypeOK
<1>2. CASE BootstrapDHT(n)
  <2>1. \A a \in Node, b \in Node \cup Server : Linked(a, b)' <=> Linked(a, b)
    BY <1>2 DEF BootstrapDHT, Linked, worldVars
  <2>2. Advance(n)
    BY <1>2 DEF BootstrapDHT
  <2>type. TypeOK'
    BY <1>2, <2>1, <2>2, AdvanceStage DEF TypeOK, Stage, BootstrapDHT
  <2>stages. (StagesOfProgram /\ ServesInTime)'
    BY <1>2, <2>1, <2>2, AdvanceStage
       DEF TypeOK, Stage, StagesOfProgram, ServesInTime, BootstrapDHT
  <2>found. FoundAreReady'
    BY <1>2, <2>1, <2>2, AdvanceStage
       DEF TypeOK, StagesOfProgram, ServesInTime, FoundAreReady, Ready, BootstrapDHT
  <2>served. (DeadAreGone /\ SendersServe /\ ServedUnlessStale)'
    BY <1>2, <2>1, <2>2, AdvanceStage
       DEF TypeOK, StagesOfProgram, ServesInTime, FoundAreReady, Ready,
           DeadAreGone, SendersServe, ServedUnlessStale, BootstrapDHT
  <2>search. SearchInv'
    BY <1>2, <2>1, <2>2, AdvanceStage
       DEF TypeOK, StagesOfProgram, DeadAreGone, SearchInv, SearchOK, OnTheWay,
           BootstrapDHT
  <2>. QED
    BY <2>type, <2>stages, <2>found, <2>served, <2>search DEF DiscoveryInv
<1>3. CASE BootstrapDHTFails(n)
  BY <1>3, DieInv DEF BootstrapDHTFails, TypeOK
<1>4. CASE ConnectToRelay(n)
  <2>1. /\ {n, Relay} \in Pair
        /\ \A a, p \in Node : Linked(a, p)' <=> Linked(a, p)
        /\ \A a \in Node, b \in Server : Linked(a, b)' <=> Linked(a, b) \/ (a = n /\ b = Relay)
    BY <1>4, ServerLink, PairType DEF ConnectToRelay, Server
  <2>2. Advance(n)
    BY <1>4 DEF ConnectToRelay
  <2>links. links' \in SUBSET Pair
    BY <1>4, <2>1, <2>2, AdvanceStage DEF TypeOK, ConnectToRelay
  <2>type. TypeOK'
    BY <1>4, <2>1, <2>2, AdvanceStage, <2>links DEF TypeOK, Stage, ConnectToRelay
  <2>stages. (StagesOfProgram /\ ServesInTime)'
    BY <1>4, <2>1, <2>2, AdvanceStage
       DEF TypeOK, Stage, StagesOfProgram, ServesInTime, ConnectToRelay
  <2>found. FoundAreReady'
    BY <1>4, <2>1, <2>2, AdvanceStage
       DEF TypeOK, StagesOfProgram, ServesInTime, FoundAreReady, Ready, ConnectToRelay
  <2>served. (DeadAreGone /\ SendersServe /\ ServedUnlessStale)'
    BY <1>4, <2>1, <2>2, AdvanceStage
       DEF TypeOK, StagesOfProgram, ServesInTime, FoundAreReady, Ready,
           DeadAreGone, SendersServe, ServedUnlessStale, ConnectToRelay
  <2>search. SearchInv'
    BY <1>4, <2>1, <2>2, AdvanceStage
       DEF TypeOK, StagesOfProgram, DeadAreGone, SearchInv, SearchOK, OnTheWay,
           ConnectToRelay
  <2>. QED
    BY <2>type, <2>stages, <2>found, <2>served, <2>search DEF DiscoveryInv
<1>5. CASE ConnectToRelayFails(n)
  BY <1>5, DieInv DEF ConnectToRelayFails, TypeOK
<1>6. CASE ReserveRelay(n)
  <2>. Advance(n) /\ n \in Runner
    BY <1>6 DEF ReserveRelay, StagesOfProgram, At, Node
  <2>1. CASE UNCHANGED <<reserved, links>>
    <3>1. \A a \in Node, b \in Node \cup Server : Linked(a, b)' <=> Linked(a, b)
      BY <2>1 DEF Linked
    <3>type. TypeOK'
      BY <1>6, <2>1, <3>1, AdvanceStage DEF TypeOK, Stage, ReserveRelay
    <3>stages. (StagesOfProgram /\ ServesInTime)'
      BY <1>6, <2>1, <3>1, AdvanceStage
         DEF TypeOK, Stage, StagesOfProgram, ServesInTime, ReserveRelay
    <3>found. FoundAreReady'
      BY <1>6, <2>1, <3>1, AdvanceStage
         DEF TypeOK, StagesOfProgram, ServesInTime, FoundAreReady, Ready, ReserveRelay
    <3>served. (DeadAreGone /\ SendersServe /\ ServedUnlessStale)'
      BY <1>6, <2>1, <3>1, AdvanceStage
         DEF TypeOK, StagesOfProgram, ServesInTime, FoundAreReady, Ready,
             DeadAreGone, SendersServe, ServedUnlessStale, ReserveRelay
    <3>search. SearchInv'
      BY <1>6, <2>1, <3>1, AdvanceStage
         DEF TypeOK, StagesOfProgram, DeadAreGone, SearchInv, SearchOK,
             OnTheWay, ReserveRelay
    <3>. QED
      BY <3>type, <3>stages, <3>found, <3>served, <3>search DEF DiscoveryInv
  <2>2. CASE reserved' = reserved \cup {n} /\ links' = links \cup {{n, Relay}}
    <3>1. /\ {n, Relay} \in Pair
          /\ \A a, p \in Node : Linked(a, p)' <=> Linked(a, p)
          /\ \A a \in Node, t \in Server : Linked(a, t)' <=> Linked(a, t) \/ (a = n /\ t = Relay)
      BY <2>2, ServerLink, PairType DEF Server
    <3>links. links' \in SUBSET Pair
      BY <1>6, <2>2, <3>1, AdvanceStage DEF TypeOK, ReserveRelay
    <3>type. TypeOK'
      BY <1>6, <2>2, <3>1, AdvanceStage, <3>links DEF TypeOK, Stage, ReserveRelay
    <3>stages. (StagesOfProgram /\ ServesInTime)'
      BY <1>6, <2>2, <3>1, AdvanceStage
         DEF TypeOK, Stage, StagesOfProgram, ServesInTime, ReserveRelay
    <3>found. FoundAreReady'
      BY <1>6, <2>2, <3>1, AdvanceStage
         DEF TypeOK, StagesOfProgram, ServesInTime, FoundAreReady, Ready, ReserveRelay
    <3>served. (DeadAreGone /\ SendersServe /\ ServedUnlessStale)'
      BY <1>6, <2>2, <3>1, AdvanceStage
         DEF TypeOK, StagesOfProgram, ServesInTime, FoundAreReady, Ready,
             DeadAreGone, SendersServe, ServedUnlessStale, ReserveRelay
    <3>search. SearchInv'
      BY <1>6, <2>2, <3>1, AdvanceStage
         DEF TypeOK, StagesOfProgram, DeadAreGone, SearchInv, SearchOK,
             OnTheWay, ReserveRelay
    <3>. QED
      BY <3>type, <3>stages, <3>found, <3>served, <3>search DEF DiscoveryInv
  <2>. QED
    BY <1>6, <2>1, <2>2 DEF ReserveRelay
<1>7. CASE NewPingProtocol(n)
  <2>1. \A a \in Node, b \in Node \cup Server : Linked(a, b)' <=> Linked(a, b)
    BY <1>7 DEF NewPingProtocol, Linked, worldVars
  <2>2. Advance(n)
    BY <1>7 DEF NewPingProtocol
  <2>type. TypeOK'
    BY <1>7, <2>1, <2>2, AdvanceStage DEF TypeOK, Stage, NewPingProtocol
  <2>stages. (StagesOfProgram /\ ServesInTime)'
    BY <1>7, <2>1, <2>2, AdvanceStage
       DEF TypeOK, Stage, StagesOfProgram, ServesInTime, NewPingProtocol
  <2>found. FoundAreReady'
    BY <1>7, <2>1, <2>2, AdvanceStage
       DEF TypeOK, StagesOfProgram, ServesInTime, FoundAreReady, Ready,
           NewPingProtocol
  <2>served. (DeadAreGone /\ SendersServe /\ ServedUnlessStale)'
    BY <1>7, <2>1, <2>2, AdvanceStage
       DEF TypeOK, StagesOfProgram, ServesInTime, FoundAreReady, Ready,
           DeadAreGone, SendersServe, ServedUnlessStale, NewPingProtocol
  <2>search. SearchInv'
    BY <1>7, <2>1, <2>2, AdvanceStage
       DEF TypeOK, StagesOfProgram, DeadAreGone, SearchInv, SearchOK, OnTheWay,
           NewPingProtocol
  <2>. QED
    BY <2>type, <2>stages, <2>found, <2>served, <2>search DEF DiscoveryInv
<1>8. CASE AnnounceSelf(n)
  <2>1. \A a \in Node, b \in Node \cup Server : Linked(a, b)' <=> Linked(a, b)
    BY <1>8 DEF AnnounceSelf, Linked, worldVars
  <2>2. Advance(n)
    BY <1>8 DEF AnnounceSelf
  <2>type. TypeOK'
    BY <1>8, <2>1, <2>2, AdvanceStage DEF TypeOK, Stage, AnnounceSelf
  <2>stages. (StagesOfProgram /\ ServesInTime)'
    BY <1>8, <2>1, <2>2, AdvanceStage
       DEF TypeOK, Stage, StagesOfProgram, ServesInTime, AnnounceSelf
  <2>found. FoundAreReady'
    BY <1>8, <2>1, <2>2, AdvanceStage
       DEF TypeOK, StagesOfProgram, ServesInTime, FoundAreReady, Ready, AnnounceSelf
  <2>served. (DeadAreGone /\ SendersServe /\ ServedUnlessStale)'
    BY <1>8, <2>1, <2>2, AdvanceStage
       DEF TypeOK, StagesOfProgram, ServesInTime, FoundAreReady, Ready,
           DeadAreGone, SendersServe, ServedUnlessStale, AnnounceSelf
  <2>search. SearchInv'
    BY <1>8, <2>1, <2>2, AdvanceStage
       DEF TypeOK, StagesOfProgram, DeadAreGone, SearchInv, SearchOK, OnTheWay,
           AnnounceSelf
  <2>. QED
    BY <2>type, <2>stages, <2>found, <2>served, <2>search DEF DiscoveryInv
<1>. QED
  BY <1>1, <1>2, <1>3, <1>4, <1>5, <1>6, <1>7, <1>8 DEF MainStep

(* So do the search and connectToPeers: whoever is read is dialled, and    *)
(* whoever is not connected directly is tried over the relay.              *)
LEMMA ConnectStepInv ==
  ASSUME DiscoveryInv, NEW c \in Client, ConnectStep(c)
  PROVE  DiscoveryInv'
<1>. USE PeerAssumption DEF DiscoveryInv, At, Node, Server, peerVars, searchVars, historyVars,
         worldVars, mainVars
<1>. c \in Node
  BY DEF Node
<1>1. CASE SearchForPeers(c)
  <2>1. \A a \in Node, b \in Node \cup Server : Linked(a, b)' <=> Linked(a, b)
    BY <1>1 DEF SearchForPeers, Linked, worldVars
  <2>2. Advance(c)
    BY <1>1 DEF SearchForPeers
  <2>3. stage' \in [Node -> Stage]
    BY <1>1, <2>2, AdvanceStage DEF SearchForPeers, TypeOK, Stage
  <2>4. lookup' \subseteq Client /\ owed' \in [Client -> SUBSET Node]
    BY <1>1 DEF SearchForPeers, TypeOK
  <2>type. TypeOK'
    BY <1>1, <2>3, <2>4 DEF TypeOK, SearchForPeers
  <2>stages. (StagesOfProgram /\ ServesInTime)'
    BY <1>1, <2>1, <2>2, AdvanceStage
       DEF TypeOK, Stage, StagesOfProgram, ServesInTime, SearchForPeers, KnowsServer
  <2>found. FoundAreReady'
    BY <1>1, <2>1, <2>2, AdvanceStage
       DEF TypeOK, StagesOfProgram, ServesInTime, FoundAreReady, Ready,
           SearchForPeers, KnowsServer
  <2>served. (DeadAreGone /\ SendersServe /\ ServedUnlessStale)'
    BY <1>1, <2>1, <2>2, AdvanceStage
       DEF TypeOK, StagesOfProgram, ServesInTime, FoundAreReady, Ready,
           DeadAreGone, SendersServe, ServedUnlessStale, SearchForPeers, KnowsServer
  <2>search. SearchInv'
    BY <1>1, <2>1, <2>2, AdvanceStage
       DEF TypeOK, StagesOfProgram, DeadAreGone, SearchInv, SearchOK, OnTheWay,
           SearchForPeers, KnowsServer
  <2>. QED
    BY <2>type, <2>stages, <2>found, <2>served, <2>search DEF DiscoveryInv
<1>2. CASE TakePeer(c)
  <2>1. \A a \in Node, b \in Node \cup Server : Linked(a, b)' <=> Linked(a, b)
    BY <1>2 DEF TakePeer, Linked, worldVars
  <2>type. TypeOK'
    BY <1>2, <2>1
       DEF TypeOK, Stage, TakePeer, IsInvalidTarget, relayAddresses
  <2>stages. (StagesOfProgram /\ ServesInTime)'
    BY <1>2, <2>1
       DEF TypeOK, Stage, StagesOfProgram, ServesInTime, TakePeer,
           IsInvalidTarget, relayAddresses
  <2>found. FoundAreReady'
    BY <1>2, <2>1
       DEF TypeOK, StagesOfProgram, ServesInTime, FoundAreReady, Ready,
           TakePeer, IsInvalidTarget, relayAddresses
  <2>served. (DeadAreGone /\ SendersServe /\ ServedUnlessStale)'
    BY <1>2, <2>1
       DEF TypeOK, StagesOfProgram, ServesInTime, FoundAreReady, Ready,
           DeadAreGone, SendersServe, ServedUnlessStale, TakePeer, IsInvalidTarget,
           relayAddresses
  <2>search. SearchInv'
    BY <1>2, <2>1
       DEF TypeOK, StagesOfProgram, DeadAreGone, SearchInv, SearchOK, OnTheWay,
           TakePeer, IsInvalidTarget, relayAddresses
  <2>. QED
    BY <2>type, <2>stages, <2>found, <2>served, <2>search DEF DiscoveryInv
<1>3. CASE ConnectDirectly(c)
  <2>1. dialling[c] \in Node /\ {c, dialling[c]} \in Pair
    BY <1>3, PairType DEF ConnectDirectly, TypeOK, StagesOfProgram, At
  <2>2. /\ \A a, b \in Node : Linked(a, b)' <=>
             Linked(a, b) \/ (a = c /\ b = dialling[c]) \/ (a = dialling[c] /\ b = c)
        /\ \A a \in Node, t \in Server : Linked(a, t)' <=> Linked(a, t)
    BY <1>3, <2>1, NodeLink DEF ConnectDirectly
  <2>3. links \in SUBSET Pair /\ links' = links \cup {{c, dialling[c]}}
    BY <1>3 DEF TypeOK, ConnectDirectly
  <2>links. links' \in SUBSET Pair
    BY <2>1, <2>3
  <2>4. peerstore' \in [Node -> SUBSET Node]
    BY <1>3, <2>1 DEF TypeOK, ConnectDirectly, Acquaint
  <2>5. /\ connectedPeers' \in [Client -> SUBSET Node]
        /\ dialling' \in [Client -> Node \cup {NoPeer}]
    BY <1>3, <2>1 DEF TypeOK, ConnectDirectly
  <2>type. TypeOK'
    BY <1>3, <2>4, <2>5, <2>links DEF TypeOK, ConnectDirectly
  <2>stages. (StagesOfProgram /\ ServesInTime)'
    BY <1>3, <2>1, <2>2
       DEF TypeOK, Stage, StagesOfProgram, ServesInTime, ConnectDirectly, Alive
  <2>found. FoundAreReady'
    BY <1>3, <2>1, <2>2
       DEF TypeOK, StagesOfProgram, ServesInTime, FoundAreReady, Ready,
           ConnectDirectly, Alive
  <2>served. (DeadAreGone /\ SendersServe /\ ServedUnlessStale)'
    BY <1>3, <2>1, <2>2
       DEF TypeOK, StagesOfProgram, ServesInTime, FoundAreReady, Ready,
           DeadAreGone, SendersServe, ServedUnlessStale, ConnectDirectly, Alive
  <2>search. SearchInv'
    BY <1>3, <2>1, <2>2
       DEF TypeOK, StagesOfProgram, DeadAreGone, SearchInv, SearchOK, OnTheWay,
           ConnectDirectly, Alive
  <2>. QED
    BY <2>type, <2>stages, <2>found, <2>served, <2>search DEF DiscoveryInv
<1>4. CASE DirectFails(c)
  <2>1. \A a \in Node, b \in Node \cup Server : Linked(a, b)' <=> Linked(a, b)
    BY <1>4 DEF DirectFails, Linked, worldVars
  <2>type. TypeOK'
    BY <1>4, <2>1 DEF TypeOK, Stage, DirectFails
  <2>stages. (StagesOfProgram /\ ServesInTime)'
    BY <1>4, <2>1 DEF TypeOK, Stage, StagesOfProgram, ServesInTime, DirectFails
  <2>found. FoundAreReady'
    BY <1>4, <2>1
       DEF TypeOK, StagesOfProgram, ServesInTime, FoundAreReady, Ready, DirectFails
  <2>served. (DeadAreGone /\ SendersServe /\ ServedUnlessStale)'
    BY <1>4, <2>1
       DEF TypeOK, StagesOfProgram, ServesInTime, FoundAreReady, Ready,
           DeadAreGone, SendersServe, ServedUnlessStale, DirectFails
  <2>search. SearchInv'
    BY <1>4, <2>1
       DEF TypeOK, StagesOfProgram, DeadAreGone, SearchInv, SearchOK, OnTheWay,
           DirectFails
  <2>. QED
    BY <2>type, <2>stages, <2>found, <2>served, <2>search DEF DiscoveryInv
<1>5. CASE ConnectRelayed(c)
  <2>1. dialling[c] \in Node /\ {c, dialling[c]} \in Pair
    BY <1>5, PairType DEF ConnectRelayed, TypeOK, StagesOfProgram, At
  <2>2. /\ \A a, b \in Node : Linked(a, b)' <=>
             Linked(a, b) \/ (a = c /\ b = dialling[c]) \/ (a = dialling[c] /\ b = c)
        /\ \A a \in Node, t \in Server :
             /\ Linked(a, t) => Linked(a, t)'
             /\ Linked(a, t)' => Linked(a, t) \/ (a = c /\ t = Relay)
    <3>1. \/ Linked(c, dialling[c]) /\ links' = links
          \/ links' = links \cup {{c, dialling[c]}, {c, Relay}}
      BY <1>5 DEF ConnectRelayed
    <3>2. \A a, b \in Node : {a, b} = {b, a}
      OBVIOUS
    <3>. HIDE DEF DiscoveryInv, At, Node, Server, peerVars, searchVars, historyVars, worldVars, mainVars
    <3>3. CASE Linked(c, dialling[c]) /\ links' = links
      BY <3>2, <3>3 DEF Linked
    <3>4. CASE links' = links \cup {{c, dialling[c]}, {c, Relay}}
      <4>1. /\ \A a, b \in Node : Linked(a, b)' <=>
                 Linked(a, b) \/ (a = c /\ b = dialling[c]) \/ (a = dialling[c] /\ b = c)
            /\ \A a \in Node, t \in Server :
                 Linked(a, t)' <=> Linked(a, t) \/ (a = c /\ t = Relay)
        BY <2>1, <3>4, RelayedLink
      <4>. QED
        BY <4>1
    <3>. QED
      BY <3>1, <3>3, <3>4
  <2>3. {c, Relay} \in Pair
    BY PairType
  <2>4. links \in SUBSET Pair /\ links' \subseteq links \cup {{c, dialling[c]}, {c, Relay}}
    BY <1>5 DEF TypeOK, ConnectRelayed
  <2>links. links' \in SUBSET Pair
    BY <2>1, <2>3, <2>4
  <2>5. peerstore' \in [Node -> SUBSET Node]
    BY <1>5, <2>1 DEF TypeOK, ConnectRelayed, Acquaint
  <2>6. Linked(c, dialling[c]) \/ dialling[c] \in reserved
    BY <1>5 DEF ConnectRelayed
  <2>9. /\ connectedPeers' \in [Client -> SUBSET Node] /\ stage' \in [Node -> Stage]
        /\ dialling' \in [Client -> Node \cup {NoPeer}]
    BY <1>5, <2>1 DEF TypeOK, Stage, ConnectRelayed
  <2>type. TypeOK'
    BY <1>5, <2>5, <2>9, <2>links DEF TypeOK, ConnectRelayed
  <2>stages. (StagesOfProgram /\ ServesInTime)'
    BY <1>5, <2>1, <2>2
       DEF TypeOK, Stage, StagesOfProgram, ServesInTime, ConnectRelayed
  <2>found. FoundAreReady'
    BY <1>5, <2>1, <2>2
       DEF TypeOK, StagesOfProgram, ServesInTime, FoundAreReady, Ready, ConnectRelayed
  <2>7. ~At(dialling[c], "dead") /\ ~At(c, "dead")
    BY <1>5, <2>1, <2>6 DEF DeadAreGone, Linked, ConnectRelayed
  <2>8. \A n \in Node : At(n, "dead")' <=> At(n, "dead")
    BY <1>5 DEF TypeOK, ConnectRelayed
  <2>dead. DeadAreGone'
    BY <1>5, <2>2, <2>7, <2>8 DEF DeadAreGone, ConnectRelayed
  <2>senders. SendersServe'
    BY <1>5, <2>8 DEF TypeOK, SendersServe, Ready, ConnectRelayed
  <2>served. ServedUnlessStale'
    <3>. SUFFICES ASSUME NEW r \in Runner, NEW k \in Client, Linked(r, k)'
                  PROVE  \A n \in {r, k} : n \in serving \/ n \in restarted
      BY <1>5 DEF ServedUnlessStale, ConnectRelayed
    <3>1. CASE Linked(r, k)
      BY <3>1 DEF ServedUnlessStale
    <3>2. CASE r = dialling[c] /\ k = c
      BY <1>5, <2>7, <3>2 DEF FoundAreReady, ServesInTime, Ready, ConnectRelayed
    <3>. QED
      BY <2>2, <3>1, <3>2
  <2>search. SearchInv'
    BY <1>5, <2>1, <2>2
       DEF TypeOK, StagesOfProgram, DeadAreGone, SearchInv, SearchOK, OnTheWay,
           ConnectRelayed
  <2>. QED
    BY <2>type, <2>stages, <2>found, <2>dead, <2>senders, <2>served, <2>search DEF DiscoveryInv
<1>6. CASE RelayedFails(c)
  <2>1. \A a \in Node, b \in Node \cup Server : Linked(a, b)' <=> Linked(a, b)
    BY <1>6 DEF RelayedFails, Linked, worldVars
  <2>2. dialling[c] \in Node
    BY <1>6 DEF RelayedFails, StagesOfProgram, TypeOK
  <2>3. missed' \in [Client -> SUBSET Node] /\ stage' \in [Node -> Stage]
    BY <1>6, <2>2 DEF TypeOK, Stage, RelayedFails
  <2>type. TypeOK'
    BY <1>6, <2>3 DEF TypeOK, RelayedFails
  <2>stages. (StagesOfProgram /\ ServesInTime)'
    BY <1>6, <2>1 DEF TypeOK, Stage, StagesOfProgram, ServesInTime, RelayedFails
  <2>found. FoundAreReady'
    BY <1>6, <2>1
       DEF TypeOK, StagesOfProgram, ServesInTime, FoundAreReady, Ready, RelayedFails
  <2>served. (DeadAreGone /\ SendersServe /\ ServedUnlessStale)'
    BY <1>6, <2>1
       DEF TypeOK, StagesOfProgram, ServesInTime, FoundAreReady, Ready,
           DeadAreGone, SendersServe, ServedUnlessStale, RelayedFails
  <2>search. SearchInv'
    BY <1>6, <2>1
       DEF TypeOK, StagesOfProgram, DeadAreGone, SearchInv, SearchOK, OnTheWay,
           RelayedFails
  <2>. QED
    BY <2>type, <2>stages, <2>found, <2>served, <2>search DEF DiscoveryInv
<1>7. CASE StartLoop(c)
  <2>1. \A a \in Node, b \in Node \cup Server : Linked(a, b)' <=> Linked(a, b)
    BY <1>7 DEF StartLoop, Linked, worldVars
  <2>2. Advance(c)
    BY <1>7 DEF StartLoop
  <2>type. TypeOK'
    BY <1>7, <2>1, <2>2, AdvanceStage DEF TypeOK, Stage, StartLoop
  <2>stages. (StagesOfProgram /\ ServesInTime)'
    BY <1>7, <2>1, <2>2, AdvanceStage
       DEF TypeOK, Stage, StagesOfProgram, ServesInTime, StartLoop
  <2>found. FoundAreReady'
    BY <1>7, <2>1, <2>2, AdvanceStage
       DEF TypeOK, StagesOfProgram, ServesInTime, FoundAreReady, Ready, StartLoop
  <2>served. (DeadAreGone /\ SendersServe /\ ServedUnlessStale)'
    BY <1>7, <2>1, <2>2, AdvanceStage
       DEF TypeOK, StagesOfProgram, ServesInTime, FoundAreReady, Ready,
           DeadAreGone, SendersServe, ServedUnlessStale, StartLoop
  <2>search. SearchInv'
    BY <1>7, <2>1, <2>2, AdvanceStage
       DEF TypeOK, StagesOfProgram, DeadAreGone, SearchInv, SearchOK, OnTheWay,
           StartLoop
  <2>. QED
    BY <2>type, <2>stages, <2>found, <2>served, <2>search DEF DiscoveryInv
<1>. QED
  BY <1>1, <1>2, <1>3, <1>4, <1>5, <1>6, <1>7 DEF ConnectStep

(* So do contexts, advertisers, AutoRelay and lookups: only who has        *)
(* announced itself gets a record, and a lookup brings all it owes.        *)
LEMMA ServiceStepInv ==
  ASSUME DiscoveryInv, NEW n \in Node,
         \/ n \in Runner /\ ContextEnds(n)
         \/ Advertise(n) \/ AdvertiseAgain(n) \/ AdvertiserEnds(n) \/ AutoRelay(n)
         \/ n \in Client /\ (Yield(n) \/ LookupEnds(n))
  PROVE  DiscoveryInv'
<1>. USE PeerAssumption DEF DiscoveryInv, At, Node, Server, peerVars, searchVars, historyVars,
         worldVars, mainVars
<1>1. CASE ContextEnds(n)
  <2>1. \A a \in Node, b \in Node \cup Server : Linked(a, b)' <=> Linked(a, b)
    BY <1>1 DEF ContextEnds, Linked, worldVars
  <2>type. TypeOK'
    BY <1>1, <2>1 DEF TypeOK, Stage, ContextEnds
  <2>stages. (StagesOfProgram /\ ServesInTime)'
    BY <1>1, <2>1 DEF TypeOK, Stage, StagesOfProgram, ServesInTime, ContextEnds
  <2>found. FoundAreReady'
    BY <1>1, <2>1
       DEF TypeOK, StagesOfProgram, ServesInTime, FoundAreReady, Ready, ContextEnds
  <2>served. (DeadAreGone /\ SendersServe /\ ServedUnlessStale)'
    BY <1>1, <2>1
       DEF TypeOK, StagesOfProgram, ServesInTime, FoundAreReady, Ready,
           DeadAreGone, SendersServe, ServedUnlessStale, ContextEnds
  <2>search. SearchInv'
    BY <1>1, <2>1
       DEF TypeOK, StagesOfProgram, DeadAreGone, SearchInv, SearchOK, OnTheWay,
           ContextEnds
  <2>. QED
    BY <2>type, <2>stages, <2>found, <2>served, <2>search DEF DiscoveryInv
<1>2. CASE Advertise(n)
  <2>1. \A a \in Node, b \in Node \cup Server : Linked(a, b)' <=> Linked(a, b)
    BY <1>2 DEF Advertise, Linked, worldVars
  <2>type. TypeOK'
    BY <1>2, <2>1 DEF TypeOK, Stage, Advertise
  <2>stages. (StagesOfProgram /\ ServesInTime)'
    BY <1>2, <2>1 DEF TypeOK, Stage, StagesOfProgram, ServesInTime, Advertise
  <2>found. FoundAreReady'
    BY <1>2, <2>1
       DEF TypeOK, StagesOfProgram, ServesInTime, FoundAreReady, Ready, Advertise
  <2>served. (DeadAreGone /\ SendersServe /\ ServedUnlessStale)'
    BY <1>2, <2>1
       DEF TypeOK, StagesOfProgram, ServesInTime, FoundAreReady, Ready,
           DeadAreGone, SendersServe, ServedUnlessStale, Advertise
  <2>search. SearchInv'
    BY <1>2, <2>1
       DEF TypeOK, StagesOfProgram, DeadAreGone, SearchInv, SearchOK, OnTheWay,
           Advertise
  <2>. QED
    BY <2>type, <2>stages, <2>found, <2>served, <2>search DEF DiscoveryInv
<1>3. CASE AdvertiseAgain(n)
  <2>1. \A a \in Node, b \in Node \cup Server : Linked(a, b)' <=> Linked(a, b)
    BY <1>3 DEF AdvertiseAgain, Linked, worldVars
  <2>type. TypeOK'
    BY <1>3, <2>1 DEF TypeOK, Stage, AdvertiseAgain
  <2>stages. (StagesOfProgram /\ ServesInTime)'
    BY <1>3, <2>1 DEF TypeOK, Stage, StagesOfProgram, ServesInTime, AdvertiseAgain
  <2>found. FoundAreReady'
    BY <1>3, <2>1
       DEF TypeOK, StagesOfProgram, ServesInTime, FoundAreReady, Ready, AdvertiseAgain
  <2>served. (DeadAreGone /\ SendersServe /\ ServedUnlessStale)'
    BY <1>3, <2>1
       DEF TypeOK, StagesOfProgram, ServesInTime, FoundAreReady, Ready,
           DeadAreGone, SendersServe, ServedUnlessStale, AdvertiseAgain
  <2>search. SearchInv'
    BY <1>3, <2>1
       DEF TypeOK, StagesOfProgram, DeadAreGone, SearchInv, SearchOK, OnTheWay,
           AdvertiseAgain
  <2>. QED
    BY <2>type, <2>stages, <2>found, <2>served, <2>search DEF DiscoveryInv
<1>4. CASE AdvertiserEnds(n)
  <2>1. \A a \in Node, b \in Node \cup Server : Linked(a, b)' <=> Linked(a, b)
    BY <1>4 DEF AdvertiserEnds, Linked, worldVars
  <2>type. TypeOK'
    BY <1>4, <2>1 DEF TypeOK, Stage, AdvertiserEnds
  <2>stages. (StagesOfProgram /\ ServesInTime)'
    BY <1>4, <2>1 DEF TypeOK, Stage, StagesOfProgram, ServesInTime, AdvertiserEnds
  <2>found. FoundAreReady'
    BY <1>4, <2>1
       DEF TypeOK, StagesOfProgram, ServesInTime, FoundAreReady, Ready, AdvertiserEnds
  <2>served. (DeadAreGone /\ SendersServe /\ ServedUnlessStale)'
    BY <1>4, <2>1
       DEF TypeOK, StagesOfProgram, ServesInTime, FoundAreReady, Ready,
           DeadAreGone, SendersServe, ServedUnlessStale, AdvertiserEnds
  <2>search. SearchInv'
    BY <1>4, <2>1
       DEF TypeOK, StagesOfProgram, DeadAreGone, SearchInv, SearchOK, OnTheWay,
           AdvertiserEnds
  <2>. QED
    BY <2>type, <2>stages, <2>found, <2>served, <2>search DEF DiscoveryInv
<1>5. CASE AutoRelay(n)
  <2>1. /\ {n, Relay} \in Pair
        /\ \A a, p \in Node : Linked(a, p)' <=> Linked(a, p)
        /\ \A a \in Node, b \in Server : Linked(a, b)' <=> Linked(a, b) \/ (a = n /\ b = Relay)
    BY <1>5, ServerLink, PairType DEF AutoRelay, Server
  <2>links. links' \in SUBSET Pair
    BY <1>5, <2>1 DEF TypeOK, AutoRelay
  <2>type. TypeOK'
    BY <1>5, <2>1, <2>links DEF TypeOK, Stage, AutoRelay, Alive
  <2>stages. (StagesOfProgram /\ ServesInTime)'
    BY <1>5, <2>1 DEF TypeOK, Stage, StagesOfProgram, ServesInTime, AutoRelay, Alive
  <2>found. FoundAreReady'
    BY <1>5, <2>1
       DEF TypeOK, StagesOfProgram, ServesInTime, FoundAreReady, Ready,
           AutoRelay, Alive
  <2>served. (DeadAreGone /\ SendersServe /\ ServedUnlessStale)'
    BY <1>5, <2>1
       DEF TypeOK, StagesOfProgram, ServesInTime, FoundAreReady, Ready,
           DeadAreGone, SendersServe, ServedUnlessStale, AutoRelay, Alive
  <2>search. SearchInv'
    BY <1>5, <2>1
       DEF TypeOK, StagesOfProgram, DeadAreGone, SearchInv, SearchOK, OnTheWay,
           AutoRelay, Alive
  <2>. QED
    BY <2>type, <2>stages, <2>found, <2>served, <2>search DEF DiscoveryInv
<1>6. CASE n \in Client /\ Yield(n)
  <2>1. \A a \in Node, b \in Node \cup Server : Linked(a, b)' <=> Linked(a, b)
    BY <1>6 DEF Yield, Linked, worldVars
  <2>2. PICK p \in record \ yielded[n] :
               /\ yielded' = [yielded EXCEPT ![n] = @ \cup {p}]
               /\ found' = [found EXCEPT ![n] = @ \cup {p}]
               /\ peerstore' = [peerstore EXCEPT ![n] = @ \cup {p}]
               /\ introduced' = introduced \cup {{n, p}}
    BY <1>6 DEF Yield
  <2>3. p \in Node /\ {n, p} \in NodePair
    BY DEF TypeOK, NodePair
  <2>4. introduced' \in SUBSET NodePair
    BY <2>2, <2>3 DEF TypeOK
  <2>5. /\ yielded' \in [Client -> SUBSET Node] /\ found' \in [Client -> SUBSET Node]
        /\ peerstore' \in [Node -> SUBSET Node]
    BY <1>6, <2>2, <2>3 DEF TypeOK
  <2>type. TypeOK'
    BY <1>6, <2>4, <2>5 DEF TypeOK, Yield
  <2>stages. (StagesOfProgram /\ ServesInTime)'
    BY <1>6, <2>1 DEF TypeOK, Stage, StagesOfProgram, ServesInTime, Yield
  <2>found. FoundAreReady'
    BY <1>6, <2>1
       DEF TypeOK, StagesOfProgram, ServesInTime, FoundAreReady, Ready, Yield
  <2>served. (DeadAreGone /\ SendersServe /\ ServedUnlessStale)'
    BY <1>6, <2>1
       DEF TypeOK, StagesOfProgram, ServesInTime, FoundAreReady, Ready,
           DeadAreGone, SendersServe, ServedUnlessStale, Yield
  <2>search. SearchInv'
    BY <1>6, <2>1
       DEF TypeOK, StagesOfProgram, DeadAreGone, SearchInv, SearchOK, OnTheWay, Yield
  <2>. QED
    BY <2>type, <2>stages, <2>found, <2>served, <2>search DEF DiscoveryInv
<1>7. CASE n \in Client /\ LookupEnds(n)
  <2>1. \A a \in Node, b \in Node \cup Server : Linked(a, b)' <=> Linked(a, b)
    BY <1>7 DEF LookupEnds, Linked, worldVars
  <2>type. TypeOK'
    BY <1>7, <2>1 DEF TypeOK, Stage, LookupEnds, KnowsServer
  <2>stages. (StagesOfProgram /\ ServesInTime)'
    BY <1>7, <2>1
       DEF TypeOK, Stage, StagesOfProgram, ServesInTime, LookupEnds, KnowsServer
  <2>found. FoundAreReady'
    BY <1>7, <2>1
       DEF TypeOK, StagesOfProgram, ServesInTime, FoundAreReady, Ready,
           LookupEnds, KnowsServer
  <2>served. (DeadAreGone /\ SendersServe /\ ServedUnlessStale)'
    BY <1>7, <2>1
       DEF TypeOK, StagesOfProgram, ServesInTime, FoundAreReady, Ready,
           DeadAreGone, SendersServe, ServedUnlessStale, LookupEnds, KnowsServer
  <2>search. SearchInv'
    BY <1>7, <2>1
       DEF TypeOK, StagesOfProgram, DeadAreGone, SearchInv, SearchOK, OnTheWay,
           LookupEnds, KnowsServer
  <2>. QED
    BY <2>type, <2>stages, <2>found, <2>served, <2>search DEF DiscoveryInv
<1>. QED
  BY <1>1, <1>2, <1>3, <1>4, <1>5, <1>6, <1>7

(* So do sends: who is dialled again was connected before.                 *)
LEMMA SendStepInv ==
  ASSUME DiscoveryInv, NEW n \in Node, NEW p \in Node,
         FindConnected(n, p) \/ Redial(n, p) \/ SendReturns(n, p)
  PROVE  DiscoveryInv'
<1>. USE PeerAssumption DEF DiscoveryInv, At, Node, Server, peerVars, searchVars, historyVars,
         worldVars, mainVars
<1>1. CASE FindConnected(n, p) \/ SendReturns(n, p)
  <2>1. \A a \in Node, b \in Node \cup Server : Linked(a, b)' <=> Linked(a, b)
    BY <1>1 DEF FindConnected, SendReturns, Linked
  <2>2. sending' \subseteq sending \cup (IF n \in serving /\ Linked(n, p) THEN {<<n, p>>} ELSE {})
    BY <1>1 DEF FindConnected, SendReturns
  <2>3. UNCHANGED <<mainVars, worldVars, searchVars, peerstore, historyVars>>
    BY <1>1 DEF FindConnected, SendReturns
  <2>type. TypeOK'
    BY <2>2, <2>3 DEF TypeOK
  <2>served. (DeadAreGone /\ SendersServe /\ ServedUnlessStale)'
    BY <2>1, <2>2, <2>3 DEF TypeOK, DeadAreGone, SendersServe, Ready, ServedUnlessStale, Linked
  <2>others. (StagesOfProgram /\ ServesInTime /\ FoundAreReady)'
    BY <2>3 DEF StagesOfProgram, ServesInTime, FoundAreReady, Ready
  <2>search. SearchInv'
    BY <2>1, <2>3 DEF SearchInv, SearchOK, OnTheWay, TypeOK
  <2>. QED
    BY <2>type, <2>served, <2>others, <2>search DEF DiscoveryInv
<1>2. CASE Redial(n, p)
  <2>1. /\ \A a, b \in Node : Linked(a, b)' <=>
             Linked(a, b) \/ (a = n /\ b = p) \/ (a = p /\ b = n)
        /\ \A a \in Node, t \in Server : Linked(a, t)' <=> Linked(a, t)
    BY <1>2, NodeLink DEF Redial
  <2>2. UNCHANGED <<mainVars, context, advertiser, record, reserved, searchVars, sending, historyVars>>
    BY <1>2 DEF Redial
  <2>type. TypeOK'
    <3>1. links' \in SUBSET Pair
      BY <1>2, PairType DEF TypeOK, Redial
    <3>2. peerstore' \in [Node -> SUBSET Node]
      BY <1>2 DEF TypeOK, Redial, Acquaint
    <3>. QED
      BY <2>2, <3>1, <3>2 DEF TypeOK
  <2>3. ~At(n, "dead") /\ ~At(p, "dead")
    BY <1>2 DEF Redial, Alive, SendersServe, DeadAreGone
  <2>served. (DeadAreGone /\ SendersServe /\ ServedUnlessStale)'
    BY <1>2, <2>1, <2>2, <2>3 DEF TypeOK, DeadAreGone, SendersServe, Ready, ServedUnlessStale, Redial
  <2>others. (StagesOfProgram /\ ServesInTime /\ FoundAreReady)'
    BY <2>2 DEF StagesOfProgram, ServesInTime, FoundAreReady, Ready
  <2>search. SearchInv'
    BY <2>1, <2>2 DEF SearchInv, SearchOK, OnTheWay, TypeOK
  <2>. QED
    BY <2>type, <2>served, <2>others, <2>search DEF DiscoveryInv
<1>. QED
  BY <1>1, <1>2

(* So do faults, which are written down in troubled and restarted.         *)
LEMMA FaultInv ==
  ASSUME DiscoveryInv, NEW n \in Node, NodeFault(n)
  PROVE  DiscoveryInv'
<1>. USE PeerAssumption, FaultAssumption DEF DiscoveryInv, At, Node, Server,
    peerVars, searchVars, historyVars,
         worldVars, mainVars
<1>1. CASE Crash(n)
  BY <1>1, DieInv DEF Crash, TypeOK
<1>2. CASE Restart(n)
  <2>1. \A a \in Node, b \in Node \cup Server : Linked(a, b)' <=> Linked(a, b)
    BY <1>2 DEF Restart, Linked, worldVars
  <2>type. TypeOK'
    BY <1>2, <2>1 DEF TypeOK, Stage, Restart, Fault
  <2>stages. (StagesOfProgram /\ ServesInTime)'
    BY <1>2, <2>1 DEF TypeOK, Stage, StagesOfProgram, ServesInTime, Restart, Fault
  <2>found. FoundAreReady'
    BY <1>2, <2>1
       DEF TypeOK, StagesOfProgram, ServesInTime, FoundAreReady, Ready, Restart, Fault
  <2>served. (DeadAreGone /\ SendersServe /\ ServedUnlessStale)'
    BY <1>2, <2>1
       DEF TypeOK, StagesOfProgram, ServesInTime, FoundAreReady, Ready,
           DeadAreGone, SendersServe, ServedUnlessStale, Restart, Fault
  <2>search. SearchInv'
    BY <1>2, <2>1
       DEF TypeOK, StagesOfProgram, DeadAreGone, SearchInv, SearchOK, OnTheWay,
           Restart, Fault
  <2>. QED
    BY <2>type, <2>stages, <2>found, <2>served, <2>search DEF DiscoveryInv
<1>3. CASE Expire(n)
  <2>1. \A a \in Node, b \in Node \cup Server : Linked(a, b)' <=> Linked(a, b)
    BY <1>3 DEF Expire, Linked, worldVars
  <2>type. TypeOK'
    BY <1>3, <2>1 DEF TypeOK, Stage, Expire, Fault
  <2>stages. (StagesOfProgram /\ ServesInTime)'
    BY <1>3, <2>1 DEF TypeOK, Stage, StagesOfProgram, ServesInTime, Expire, Fault
  <2>found. FoundAreReady'
    BY <1>3, <2>1
       DEF TypeOK, StagesOfProgram, ServesInTime, FoundAreReady, Ready, Expire, Fault
  <2>served. (DeadAreGone /\ SendersServe /\ ServedUnlessStale)'
    BY <1>3, <2>1
       DEF TypeOK, StagesOfProgram, ServesInTime, FoundAreReady, Ready,
           DeadAreGone, SendersServe, ServedUnlessStale, Expire, Fault
  <2>search. SearchInv'
    <3>. SUFFICES ASSUME NEW c \in Client
                  PROVE  SearchOK(c)'
      BY DEF SearchInv
    <3>1. /\ UNCHANGED <<stage, owed, yielded, found, dialling, missed, lookup>>
          /\ c \in troubled => c \in troubled'
          /\ Linked(c, Relay)' <=> Linked(c, Relay)
      BY <1>3, <2>1 DEF Expire
    <3>2. \A q \in owed[c] : q \notin troubled' =>
            q \notin troubled /\ (q \in record => q \in record') /\ (Linked(c, q)' <=> Linked(c, q))
      BY <1>3, <2>1 DEF Expire, TypeOK
    <3>. QED
      BY <3>1, <3>2 DEF SearchInv, SearchOK, OnTheWay
  <2>. QED
    BY <2>type, <2>stages, <2>found, <2>served, <2>search DEF DiscoveryInv
<1>4. ASSUME NEW p \in Node \cup Server, CutLink(n, p)
      PROVE  DiscoveryInv'
  <2>1. \A a \in Node, b \in Node \cup Server :
          Linked(a, b)' <=> Linked(a, b) /\ {a, b} # {n, p}
    BY <1>4 DEF CutLink, Linked
  <2>type. TypeOK'
    BY <1>4, <2>1 DEF TypeOK, Stage, CutLink, Fault
  <2>stages. (StagesOfProgram /\ ServesInTime)'
    BY <1>4, <2>1 DEF TypeOK, Stage, StagesOfProgram, ServesInTime, CutLink, Fault
  <2>found. FoundAreReady'
    BY <1>4, <2>1
       DEF TypeOK, StagesOfProgram, ServesInTime, FoundAreReady, Ready, CutLink, Fault
  <2>served. (DeadAreGone /\ SendersServe /\ ServedUnlessStale)'
    BY <1>4, <2>1
       DEF TypeOK, StagesOfProgram, ServesInTime, FoundAreReady, Ready,
           DeadAreGone, SendersServe, ServedUnlessStale, CutLink, Fault
  <2>2. \A a \in Node, b \in Node \cup Server :
          a \notin troubled' => (Linked(a, b)' <=> Linked(a, b))
    BY <1>4, <2>1 DEF CutLink
  <2>3. \A a \in Node : a \notin troubled' =>
          a \notin troubled /\ (a \in reserved => a \in reserved')
    BY <1>4 DEF CutLink
  <2>search. SearchInv'
    BY <1>4, <2>2, <2>3
       DEF TypeOK, StagesOfProgram, DeadAreGone, SearchInv, SearchOK, OnTheWay,
           CutLink, Fault
  <2>. QED
    BY <2>type, <2>stages, <2>found, <2>served, <2>search DEF DiscoveryInv
<1>. QED
  BY <1>1, <1>2, <1>3, <1>4 DEF NodeFault

(* Every step keeps it.                                                    *)
LEMMA NextInv ==
  ASSUME DiscoveryInv, [Next]_vars
  PROVE  DiscoveryInv'
<1>1. CASE UNCHANGED vars
  <2>. USE <1>1 DEF vars, mainVars, worldVars, peerVars, searchVars, historyVars
  <2>1. TypeOK'
    BY DEF DiscoveryInv, TypeOK
  <2>2. (StagesOfProgram /\ DeadAreGone /\ ServesInTime /\ ServedUnlessStale)'
    BY DEF DiscoveryInv, StagesOfProgram, DeadAreGone, ServesInTime, ServedUnlessStale, At, Linked
  <2>3. (FoundAreReady /\ SendersServe)'
    BY DEF DiscoveryInv, FoundAreReady, SendersServe, Ready, At
  <2>4. SearchInv'
    BY DEF DiscoveryInv, SearchInv, SearchOK, OnTheWay, At, Linked
  <2>. QED
    BY <2>1, <2>2, <2>3, <2>4 DEF DiscoveryInv
<1>2. CASE Next
  BY <1>2, MainStepInv, ConnectStepInv, ServiceStepInv, SendStepInv, FaultInv DEF Next, Node
<1>. QED
  BY <1>1, <1>2

(* DiscoveryInv is an invariant of the start-up and the search, with crashes,
   restarts, cut links and expired records at any moment.                  *)
THEOREM DiscoveryInvariance == Spec => []DiscoveryInv
<1>1. DiscoveryInv /\ [Next]_vars => DiscoveryInv'
  BY NextInv
<1>. QED
  BY <1>1, InitDiscoveryInv, PTL DEF Spec

(* A runner and a client that are connected have both registered the protocols
   of src/ping, save for a process that has started again: its old record, or
   the peerstore of one that was about to send to it, brings a connection early. *)
THEOREM ServedUnlessStaleHolds == Spec => []ServedUnlessStale
<1>1. DiscoveryInv => ServedUnlessStale
  BY DEF DiscoveryInv
<1>. QED
  BY <1>1, DiscoveryInvariance, PTL

(* connectToPeers passes over nobody who was announced in time, unless a fault
   struck: every such peer is on its way from the DHT to a connection, or to a
   dial over the relay that failed, until the channel is closed and empty. *)
THEOREM NobodyPassedOverHolds == Spec => []NobodyPassedOver
<1>1. DiscoveryInv => NobodyPassedOver
  <2>. SUFFICES ASSUME DiscoveryInv, NEW c \in Client, At(c, "loop"), NEW p \in owed[c],
                       p \notin troubled, c \notin troubled
                PROVE  Linked(c, p) \/ p \in missed[c]
    BY DEF NobodyPassedOver
  <2>1. SearchOK(c) /\ dialling[c] = NoPeer /\ p # NoPeer
    BY PeerAssumption DEF DiscoveryInv, SearchInv, StagesOfProgram, At, TypeOK
  <2>. QED
    BY <2>1 DEF SearchOK, OnTheWay
<1>. QED
  BY <1>1, DiscoveryInvariance, PTL

-----------------------------------------------------------------------------
(* The abstract Rendezvous.                                                *)

(* connectToPeers dials what it takes from the channel, and not itself.    *)
LEMMA ConnectDials ==
  ASSUME DiscoveryInv, DialsWhatItFound, NEW n \in Client, ConnectStep(n)
  PROVE  DialsWhatItFound'
<1>. USE PeerAssumption DEF DiscoveryInv, TypeOK, DialsWhatItFound, At, Node, peerVars, searchVars
<1>1. CASE TakePeer(n)
  BY <1>1 DEF TakePeer
<1>2. CASE SearchForPeers(n) \/ DirectFails(n) \/ StartLoop(n)
  BY <1>2 DEF SearchForPeers, DirectFails, StartLoop
<1>3. CASE ConnectDirectly(n)
  BY <1>3 DEF ConnectDirectly
<1>4. CASE ConnectRelayed(n)
  BY <1>4 DEF ConnectRelayed
<1>5. CASE RelayedFails(n)
  BY <1>5 DEF RelayedFails
<1>. QED
  BY <1>1, <1>2, <1>3, <1>4, <1>5 DEF ConnectStep

(* A process that ends dials nobody.                                       *)
LEMMA DieDials ==
  ASSUME DialsWhatItFound, NEW n \in Node, Die(n)
  PROVE  DialsWhatItFound'
<1>. SUFFICES ASSUME NEW c \in Client
              PROVE  /\ found'[c] \subseteq yielded'[c]
                     /\ dialling'[c] # NoPeer => dialling'[c] \in yielded'[c] \ {c}
  BY DEF DialsWhatItFound
<1>1. /\ yielded'[c] = IF c = n THEN {} ELSE yielded[c]
      /\ found'[c] = IF c = n THEN {} ELSE found[c]
      /\ dialling'[c] = IF c = n THEN NoPeer ELSE dialling[c]
  BY DEF Die
<1>. QED
  BY <1>1 DEF DialsWhatItFound

(* Nothing else but the lookup changes what was found and is dialled.      *)
LEMMA StepDials ==
  ASSUME DiscoveryInv, DialsWhatItFound, [Next]_vars
  PROVE  DialsWhatItFound'
<1>. USE DEF mainVars, worldVars, peerVars, searchVars, historyVars
<1>1. CASE UNCHANGED <<yielded, found, dialling>>
  BY <1>1 DEF DialsWhatItFound
<1>2. ASSUME NEW n \in Node, MainStep(n)
      PROVE  DialsWhatItFound'
  <2>1. CASE BootstrapDHTFails(n) \/ ConnectToRelayFails(n)
    BY <2>1, DieDials DEF BootstrapDHTFails, ConnectToRelayFails
  <2>2. CASE ~(BootstrapDHTFails(n) \/ ConnectToRelayFails(n))
    BY <1>1, <1>2, <2>2 DEF MainStep, DialBootstrap, BootstrapDHT, ConnectToRelay,
       ReserveRelay, NewPingProtocol, AnnounceSelf
  <2>. QED
    BY <2>1, <2>2
<1>3. ASSUME NEW n \in Node, ContextEnds(n) \/ Advertise(n) \/ AdvertiseAgain(n)
                             \/ AdvertiserEnds(n) \/ AutoRelay(n)
      PROVE  DialsWhatItFound'
  BY <1>1, <1>3 DEF ContextEnds, Advertise, AdvertiseAgain, AdvertiserEnds, AutoRelay
<1>4. ASSUME NEW c \in Client, Yield(c) \/ LookupEnds(c)
      PROVE  DialsWhatItFound'
  <2>1. CASE LookupEnds(c)
    BY <1>1, <2>1 DEF LookupEnds
  <2>2. CASE Yield(c)
    BY <2>2 DEF Yield, DialsWhatItFound, DiscoveryInv, TypeOK
  <2>. QED
    BY <1>4, <2>1, <2>2
<1>5. ASSUME NEW n \in Node, NodeFault(n)
      PROVE  DialsWhatItFound'
  <2>1. CASE Crash(n)
    BY <2>1, DieDials DEF Crash
  <2>2. CASE ~Crash(n)
    BY <1>1, <1>5, <2>2 DEF NodeFault, Restart, Expire, CutLink
  <2>. QED
    BY <2>1, <2>2
<1>6. CASE UNCHANGED vars
  BY <1>1, <1>6 DEF vars
<1>7. ASSUME NEW n \in Node, NEW p \in Node,
             FindConnected(n, p) \/ Redial(n, p) \/ SendReturns(n, p)
      PROVE  DialsWhatItFound'
  BY <1>1, <1>7 DEF FindConnected, Redial, SendReturns
<1>. QED
  BY <1>2, <1>3, <1>4, <1>5, <1>6, <1>7, ConnectDials DEF Next, Node

(* A client dials only what its search came up with, and never itself.     *)
THEOREM DialsWhatItFoundHolds == Spec => []DialsWhatItFound
<1>1. Init => DialsWhatItFound
  BY DEF Init, DialsWhatItFound
<1>2. DiscoveryInv /\ DialsWhatItFound /\ [Next]_vars => DialsWhatItFound'
  BY StepDials
<1>. QED
  BY <1>1, <1>2, DiscoveryInvariance, PTL DEF Spec

(* Who knows more, without finding, dialling or sending, keeps KnownWereMet. *)
LEMMA KnowsStill ==
  ASSUME DiscoveryInv, KnownWereMet, sending' \subseteq sending,
         \A c \in Client : yielded'[c] \subseteq yielded[c],
         \A n \in Node : peerstore[n] \subseteq peerstore'[n],
         \A a, b \in Node : Linked(a, b)' => Linked(a, b)
  PROVE  KnownWereMet'
<1>1. \A c \in Client : yielded'[c] \subseteq peerstore'[c]
  BY DEF KnownWereMet, Node
<1>2. \A a, b \in Node : Linked(a, b)' => a # b /\ b \in peerstore'[a]
  BY DEF KnownWereMet
<1>3. \A s \in sending' : s[1] # s[2] /\ s[2] \in peerstore'[s[1]]
  <2>1. \A s \in sending : s[1] \in Node
    BY DEF DiscoveryInv, TypeOK
  <2>. QED
    BY <2>1 DEF KnownWereMet
<1>. QED
  BY <1>1, <1>2, <1>3 DEF KnownWereMet

(* Two processes that get connected know each other then.                  *)
LEMMA MeetKnows ==
  ASSUME DiscoveryInv, KnownWereMet, NEW n \in Node, NEW p \in Node, n # p, Acquaint(n, p),
         UNCHANGED <<yielded, sending>>,
         \A a, b \in Node : Linked(a, b)' =>
           Linked(a, b) \/ (a = n /\ b = p) \/ (a = p /\ b = n)
  PROVE  KnownWereMet'
<1>1. /\ \A a \in Node : peerstore[a] \subseteq peerstore'[a]
      /\ p \in peerstore'[n] /\ n \in peerstore'[p]
  BY DEF Acquaint, DiscoveryInv, TypeOK
<1>2. \A c \in Client : yielded'[c] \subseteq peerstore'[c]
  BY <1>1 DEF KnownWereMet, Node
<1>3. \A a, b \in Node : Linked(a, b)' => a # b /\ b \in peerstore'[a]
  BY <1>1 DEF KnownWereMet
<1>4. \A s \in sending : s[1] \in Node
  BY DEF DiscoveryInv, TypeOK
<1>5. \A s \in sending' : s[1] # s[2] /\ s[2] \in peerstore'[s[1]]
  BY <1>1, <1>4 DEF KnownWereMet
<1>. QED
  BY <1>2, <1>3, <1>5 DEF KnownWereMet

(* A process that ends forgets, and nobody is connected to it.             *)
LEMMA DieKnows ==
  ASSUME DiscoveryInv, KnownWereMet, NEW n \in Node, Die(n)
  PROVE  KnownWereMet'
<1>1. \A a, b \in Node : Linked(a, b)' => Linked(a, b) /\ a # n
  BY DieLink
<1>2. \A a \in Node : a # n => peerstore'[a] = peerstore[a]
  BY DEF Die, DiscoveryInv, TypeOK
<1>3. \A c \in Client : yielded'[c] = IF c = n THEN {} ELSE yielded[c]
  BY DEF Die
<1>4. \A s \in sending' : s \in sending /\ s[1] # n /\ s[1] \in Node
  BY DEF Die, DiscoveryInv, TypeOK
<1>. QED
  BY <1>1, <1>2, <1>3, <1>4 DEF KnownWereMet, Node

(* Each step of the start-up keeps it.                                     *)
LEMMA MainKnows ==
  ASSUME DiscoveryInv, KnownWereMet, NEW n \in Node, MainStep(n)
  PROVE  KnownWereMet'
<1>. USE DEF mainVars, worldVars, peerVars, searchVars, historyVars
<1>1. CASE BootstrapDHTFails(n) \/ ConnectToRelayFails(n)
  BY <1>1, DieKnows DEF BootstrapDHTFails, ConnectToRelayFails
<1>2. CASE BootstrapDHT(n) \/ NewPingProtocol(n) \/ AnnounceSelf(n)
  BY <1>2, KnowsStill DEF BootstrapDHT, NewPingProtocol, AnnounceSelf, Linked
<1>3. CASE DialBootstrap(n) \/ ConnectToRelay(n) \/ ReserveRelay(n)
  <2>1. PICK s \in Server : UNCHANGED links \/ links' = links \cup {{n, s}}
    BY <1>3 DEF DialBootstrap, ConnectToRelay, ReserveRelay, DiscoveryInv, TypeOK, Server
  <2>2. \A a, b \in Node : Linked(a, b)' => Linked(a, b)
    BY <2>1, ServerLink DEF Linked
  <2>3. UNCHANGED <<yielded, peerstore, sending>>
    BY <1>3 DEF DialBootstrap, ConnectToRelay, ReserveRelay
  <2>. QED
    BY <2>2, <2>3, KnowsStill
<1>. QED
  BY <1>1, <1>2, <1>3 DEF MainStep

(* So does each step of connectToPeers: a dial makes both ends know each   *)
(* other.                                                                  *)
LEMMA ConnectKnows ==
  ASSUME DiscoveryInv, KnownWereMet, DialsWhatItFound, NEW c \in Client, ConnectStep(c)
  PROVE  KnownWereMet'
<1>. USE DEF mainVars, worldVars, peerVars, searchVars, historyVars
<1>1. CASE SearchForPeers(c) \/ TakePeer(c) \/ DirectFails(c) \/ RelayedFails(c)
           \/ StartLoop(c)
  BY <1>1, KnowsStill
     DEF SearchForPeers, TakePeer, DirectFails, RelayedFails, StartLoop, Linked
<1>2. CASE ConnectDirectly(c) \/ ConnectRelayed(c)
  <2>. PICK p : p = dialling[c]
    OBVIOUS
  <2>1. p \in Node /\ c \in Node /\ p # c
    BY <1>2, PeerAssumption DEF ConnectDirectly, ConnectRelayed, DiscoveryInv, TypeOK,
       StagesOfProgram, DialsWhatItFound, At, Node
  <2>2. UNCHANGED <<yielded, sending>>
    BY <1>2 DEF ConnectDirectly, ConnectRelayed
  <2>3. CASE UNCHANGED <<links, peerstore>>
    BY <2>2, <2>3, KnowsStill DEF Linked
  <2>4. CASE links' = links \cup {{c, p}} /\ Acquaint(c, p)
    <3>1. \A a, b \in Node : Linked(a, b)' =>
            Linked(a, b) \/ (a = c /\ b = p) \/ (a = p /\ b = c)
      BY <2>1, <2>4, NodeLink
    <3>. QED
      BY <2>1, <2>2, <2>4, <3>1, MeetKnows
  <2>5. CASE links' = links \cup {{c, p}, {c, Relay}} /\ Acquaint(c, p)
    <3>1. \A a, b \in Node : Linked(a, b)' =>
            Linked(a, b) \/ (a = c /\ b = p) \/ (a = p /\ b = c)
      BY <2>1, <2>5, RelayedLink
    <3>. QED
      BY <2>1, <2>2, <2>5, <3>1, MeetKnows
  <2>. QED
    BY <1>2, <2>3, <2>4, <2>5 DEF ConnectDirectly, ConnectRelayed
<1>. QED
  BY <1>1, <1>2 DEF ConnectStep

(* So do all others: a send dials again whom it was connected to.          *)
LEMMA StepKnows ==
  ASSUME DiscoveryInv, KnownWereMet, DialsWhatItFound, [Next]_vars
  PROVE  KnownWereMet'
<1>. USE DEF mainVars, worldVars, peerVars, searchVars, historyVars
<1>1. ASSUME NEW n \in Node, ContextEnds(n) \/ Advertise(n) \/ AdvertiseAgain(n)
                             \/ AdvertiserEnds(n)
      PROVE  KnownWereMet'
  BY <1>1, KnowsStill DEF ContextEnds, Advertise, AdvertiseAgain, AdvertiserEnds, Linked
<1>2. ASSUME NEW n \in Node, AutoRelay(n)
      PROVE  KnownWereMet'
  <2>1. \A a, b \in Node : Linked(a, b)' => Linked(a, b)
    BY <1>2, ServerLink DEF AutoRelay, Server
  <2>. QED
    BY <1>2, <2>1, KnowsStill DEF AutoRelay
<1>3. ASSUME NEW c \in Client, LookupEnds(c)
      PROVE  KnownWereMet'
  BY <1>3, KnowsStill DEF LookupEnds, Linked
<1>4. ASSUME NEW c \in Client, Yield(c)
      PROVE  KnownWereMet'
  <2>1. PICK p : /\ yielded' = [yielded EXCEPT ![c] = @ \cup {p}]
                 /\ peerstore' = [peerstore EXCEPT ![c] = @ \cup {p}]
    BY <1>4 DEF Yield
  <2>2. UNCHANGED <<links, sending>>
    BY <1>4 DEF Yield
  <2>3. \A k \in Client : yielded'[k] \subseteq peerstore'[k]
    BY <2>1 DEF KnownWereMet, DiscoveryInv, TypeOK, Node
  <2>4. \A n \in Node : peerstore[n] \subseteq peerstore'[n]
    BY <2>1 DEF DiscoveryInv, TypeOK
  <2>5. \A s \in sending : s[1] \in Node
    BY DEF DiscoveryInv, TypeOK
  <2>6. \A a, b \in Node : Linked(a, b)' => a # b /\ b \in peerstore'[a]
    BY <2>2, <2>4 DEF KnownWereMet, Linked
  <2>7. \A s \in sending' : s[1] # s[2] /\ s[2] \in peerstore'[s[1]]
    BY <2>2, <2>4, <2>5 DEF KnownWereMet
  <2>. QED
    BY <2>3, <2>6, <2>7 DEF KnownWereMet
<1>5. ASSUME NEW n \in Node, NEW p \in Node, SendReturns(n, p)
      PROVE  KnownWereMet'
  BY <1>5, KnowsStill DEF SendReturns, Linked
<1>6. ASSUME NEW n \in Node, NEW p \in Node, FindConnected(n, p)
      PROVE  KnownWereMet'
  BY <1>6 DEF FindConnected, KnownWereMet, Linked
<1>7. ASSUME NEW n \in Node, NEW p \in Node, Redial(n, p)
      PROVE  KnownWereMet'
  <2>1. n # p
    BY <1>7 DEF Redial, KnownWereMet
  <2>2. links' = links \cup {{n, p}} /\ Acquaint(n, p) /\ UNCHANGED <<yielded, sending>>
    BY <1>7 DEF Redial
  <2>3. \A a, b \in Node : Linked(a, b)' =>
          Linked(a, b) \/ (a = n /\ b = p) \/ (a = p /\ b = n)
    BY <2>2, NodeLink
  <2>. QED
    BY <2>1, <2>2, <2>3, MeetKnows
<1>8. ASSUME NEW n \in Node, NodeFault(n)
      PROVE  KnownWereMet'
  <2>1. CASE Crash(n)
    BY <2>1, DieKnows DEF Crash
  <2>2. CASE ~Crash(n)
    BY <1>8, <2>2, KnowsStill DEF NodeFault, Restart, Expire, CutLink, Linked
  <2>. QED
    BY <2>1, <2>2
<1>9. CASE UNCHANGED vars
  BY <1>9, KnowsStill DEF vars, Linked
<1>. QED
  BY <1>1, <1>2, <1>3, <1>4, <1>5, <1>6, <1>7, <1>8, <1>9, MainKnows, ConnectKnows
     DEF Next, Node

(* Whom a process has in its peerstore, by the search or by a connection,  *)
(* it knows: what it has found, whom it is connected to and whom it sends  *)
(* to is there.                                                            *)
THEOREM KnownWereMetHolds == Spec => []KnownWereMet
<1>1. Init => KnownWereMet
  BY DEF Init, KnownWereMet, Linked
<1>2. DiscoveryInv /\ KnownWereMet /\ DialsWhatItFound /\ [Next]_vars => KnownWereMet'
  BY StepKnows
<1>. QED
  BY <1>1, <1>2, DiscoveryInvariance, DialsWhatItFoundHolds, PTL DEF Spec

(* Connections to servers are not meetings.                                *)
LEMMA ServerIsNoParty ==
  ASSUME NEW n \in Node, NEW s \in Server, links' = links \cup {{n, s}}
  PROVE  UNCHANGED Connections
<1>1. ~({n, s} \subseteq Node)
  BY PeerAssumption
<1>. QED
  BY <1>1 DEF Connections

(* A step that lists, finds and connects nobody is none of Rendezvous.     *)
LEMMA QuietStep ==
  ASSUME UNCHANGED <<record, peerstore, introduced, Connections>>
  PROVE  UNCHANGED Met!rendezvousVars
BY DEF Met!rendezvousVars

(* Two processes are connected by one that knows the other.                *)
LEMMA DialMeets ==
  ASSUME NEW n \in Node, NEW p \in Node, n # p, p \in peerstore[n],
         UNCHANGED <<record, introduced>>, Acquaint(n, p),
         links' = links \cup {{n, p}} \/ links' = links \cup {{n, p}, {n, Relay}}
  PROVE  Met!RendezvousNext
<1>1. {n, p} \subseteq Node /\ ~({n, Relay} \subseteq Node)
  BY PeerAssumption DEF Server
<1>2. Connections' = Connections \cup {{n, p}}
  BY <1>1 DEF Connections
<1>3. Met!Meet(n, p)
  BY <1>2 DEF Met!Meet, Acquaint
<1>. QED
  BY <1>3 DEF Met!RendezvousNext

(* A process that ends leaves.                                             *)
LEMMA DieLeaves ==
  ASSUME NEW n \in Node, Die(n)
  PROVE  Met!RendezvousNext
<1>1. Connections' = {l \in Connections : n \notin l}
  BY DEF Connections, Die
<1>2. Met!Leave(n)
  BY <1>1 DEF Met!Leave, Die
<1>. QED
  BY <1>2 DEF Met!RendezvousNext

(* Each step of the start-up is one of Rendezvous, or none.                *)
LEMMA MainRefines ==
  ASSUME DiscoveryInv, NEW n \in Node, MainStep(n)
  PROVE  [Met!RendezvousNext]_(Met!rendezvousVars)
<1>. USE DEF mainVars, worldVars, peerVars, searchVars, historyVars
<1>1. CASE BootstrapDHTFails(n) \/ ConnectToRelayFails(n)
  BY <1>1, DieLeaves DEF BootstrapDHTFails, ConnectToRelayFails
<1>2. CASE BootstrapDHT(n) \/ NewPingProtocol(n) \/ AnnounceSelf(n)
  BY <1>2, QuietStep DEF BootstrapDHT, NewPingProtocol, AnnounceSelf, Connections
<1>3. CASE DialBootstrap(n) \/ ConnectToRelay(n) \/ ReserveRelay(n)
  <2>1. PICK s \in Server : UNCHANGED links \/ links' = links \cup {{n, s}}
    BY <1>3 DEF DialBootstrap, ConnectToRelay, ReserveRelay, DiscoveryInv, TypeOK, Server
  <2>2. UNCHANGED Connections
    BY <2>1, ServerIsNoParty DEF Connections
  <2>. QED
    BY <1>3, <2>2, QuietStep DEF DialBootstrap, ConnectToRelay, ReserveRelay
<1>. QED
  BY <1>1, <1>2, <1>3 DEF MainStep

(* Each step of connectToPeers is.                                         *)
LEMMA ConnectRefines ==
  ASSUME DiscoveryInv, DialsWhatItFound, KnownWereMet, NEW c \in Client, ConnectStep(c)
  PROVE  [Met!RendezvousNext]_(Met!rendezvousVars)
<1>. USE DEF mainVars, worldVars, peerVars, searchVars, historyVars
<1>1. CASE SearchForPeers(c) \/ TakePeer(c) \/ DirectFails(c) \/ RelayedFails(c)
           \/ StartLoop(c)
  BY <1>1, QuietStep
     DEF SearchForPeers, TakePeer, DirectFails, RelayedFails, StartLoop, Connections
<1>2. CASE ConnectDirectly(c) \/ ConnectRelayed(c)
  <2>. PICK p : p = dialling[c]
    OBVIOUS
  <2>1. p \in Node /\ c \in Node /\ p # c /\ p \in peerstore[c]
    BY <1>2, PeerAssumption DEF ConnectDirectly, ConnectRelayed, DiscoveryInv, TypeOK,
       StagesOfProgram, DialsWhatItFound, KnownWereMet, At, Node
  <2>2. UNCHANGED <<record, introduced>>
    BY <1>2 DEF ConnectDirectly, ConnectRelayed
  <2>3. \/ UNCHANGED <<links, peerstore>>
        \/ Acquaint(c, p) /\ (links' = links \cup {{c, p}}
                              \/ links' = links \cup {{c, p}, {c, Relay}})
    BY <1>2 DEF ConnectDirectly, ConnectRelayed
  <2>. QED
    BY <2>1, <2>2, <2>3, DialMeets, QuietStep DEF Connections
<1>. QED
  BY <1>1, <1>2 DEF ConnectStep

(* The advertiser lists its process, the lookup finds those that are       *)
(* listed.                                                                 *)
LEMMA ServiceRefines ==
  ASSUME DiscoveryInv, NEW n \in Node
  PROVE  /\ ContextEnds(n) \/ Advertise(n) \/ AdvertiseAgain(n) \/ AdvertiserEnds(n)
            \/ AutoRelay(n) => [Met!RendezvousNext]_(Met!rendezvousVars)
         /\ n \in Client /\ (Yield(n) \/ LookupEnds(n)) =>
              [Met!RendezvousNext]_(Met!rendezvousVars)
<1>. USE DEF mainVars, worldVars, peerVars, searchVars, historyVars
<1>1. CASE ContextEnds(n) \/ AdvertiseAgain(n) \/ AdvertiserEnds(n) \/ LookupEnds(n)
  BY <1>1, QuietStep
     DEF ContextEnds, AdvertiseAgain, AdvertiserEnds, LookupEnds, Connections
<1>2. CASE AutoRelay(n)
  <2>1. UNCHANGED Connections
    BY <1>2, ServerIsNoParty DEF AutoRelay, Server
  <2>. QED
    BY <1>2, <2>1, QuietStep DEF AutoRelay
<1>3. CASE Advertise(n)
  <2>1. Met!Enlist(n)
    BY <1>3 DEF Advertise, Met!Enlist, Connections
  <2>. QED
    BY <2>1 DEF Met!RendezvousNext
<1>4. CASE n \in Client /\ Yield(n)
  <2>1. PICK p \in record : /\ peerstore' = [peerstore EXCEPT ![n] = @ \cup {p}]
                            /\ introduced' = introduced \cup {{n, p}}
    BY <1>4 DEF Yield
  <2>2. p \in Node
    BY DEF DiscoveryInv, TypeOK
  <2>3. Met!Find(n, p)
    BY <1>4, <2>1 DEF Met!Find, Yield, Connections
  <2>. QED
    BY <2>2, <2>3 DEF Met!RendezvousNext
<1>. QED
  BY <1>1, <1>2, <1>3, <1>4

(* A send is none, unless it dials a peer it has lost: then it meets it    *)
(* again.                                                                  *)
LEMMA SendRefines ==
  ASSUME DiscoveryInv, KnownWereMet, NEW n \in Node, NEW p \in Node,
         FindConnected(n, p) \/ Redial(n, p) \/ SendReturns(n, p)
  PROVE  [Met!RendezvousNext]_(Met!rendezvousVars)
<1>. USE DEF mainVars, worldVars, peerVars, searchVars, historyVars
<1>1. CASE FindConnected(n, p) \/ SendReturns(n, p)
  BY <1>1, QuietStep DEF FindConnected, SendReturns, Connections
<1>2. CASE Redial(n, p)
  <2>1. n # p /\ p \in peerstore[n]
    BY <1>2 DEF Redial, KnownWereMet
  <2>. QED
    BY <1>2, <2>1, DialMeets DEF Redial
<1>. QED
  BY <1>1, <1>2

(* Faults part processes, and drop their records.                          *)
LEMMA FaultRefines ==
  ASSUME DiscoveryInv, NEW n \in Node, NodeFault(n)
  PROVE  [Met!RendezvousNext]_(Met!rendezvousVars)
<1>. USE DEF mainVars, worldVars, peerVars, searchVars, historyVars
<1>1. CASE Crash(n)
  BY <1>1, DieLeaves DEF Crash
<1>2. CASE Restart(n)
  BY <1>2, QuietStep DEF Restart, Connections
<1>3. CASE Expire(n)
  <2>1. Met!Unlist(n)
    BY <1>3 DEF Expire, Met!Unlist, Connections
  <2>. QED
    BY <2>1 DEF Met!RendezvousNext
<1>4. ASSUME NEW p \in Node \cup Server, CutLink(n, p)
      PROVE  [Met!RendezvousNext]_(Met!rendezvousVars)
  <2>1. links' = links \ {{n, p}} /\ UNCHANGED <<record, peerstore, introduced>>
    BY <1>4 DEF CutLink
  <2>2. Connections' = Connections \ ({{n, p}} \cap Connections)
    BY <2>1 DEF Connections
  <2>3. Met!Part({{n, p}} \cap Connections)
    BY <2>1, <2>2 DEF Met!Part
  <2>. QED
    BY <2>3 DEF Met!RendezvousNext
<1>. QED
  BY <1>1, <1>2, <1>3, <1>4 DEF NodeFault

(* Start-up, search and sends implement Rendezvous: whatever is dialled,
   whatever fails, and whoever starts again, two processes are connected only
   when one has found the other while it was listed, or they were connected
   before in the life of the one that dials.                               *)
THEOREM PromiseHolds == Spec => Promise
<1>1. Init => Met!RendezvousInit
  BY DEF Init, Met!RendezvousInit, Connections
<1>2. DiscoveryInv /\ DialsWhatItFound /\ KnownWereMet /\ [Next]_vars =>
        [Met!RendezvousNext]_(Met!rendezvousVars)
  <2>1. UNCHANGED vars => UNCHANGED Met!rendezvousVars
    BY QuietStep DEF vars, worldVars, peerVars, searchVars, Connections
  <2>. QED
    BY <2>1, MainRefines, ConnectRefines, ServiceRefines, SendRefines, FaultRefines
       DEF Next, Node
<1>. QED
  BY <1>1, <1>2, DiscoveryInvariance, DialsWhatItFoundHolds, KnownWereMetHolds, PTL
     DEF Spec, Promise, Met!RendezvousSpec

(* What every Rendezvous has: of two that are connected one has once found
   the other in the DHT, however often connections were lost and made again. *)
THEOREM ConnectedWereFound == Spec => []Met!MetWereFound
  BY PromiseHolds, Met!MetWereFoundHolds, PTL DEF Promise
=============================================================================
