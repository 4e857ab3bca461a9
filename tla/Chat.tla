-------------------------------- MODULE Chat --------------------------------
(***************************************************************************)
(* The chat client (src/chat/main.go): its main function up to the search, *)
(* connectToPeers, and the ticker that starts a goroutine of pingPeer for  *)
(* every connected peer each five seconds. All of these write the map      *)
(* connectedPeers, which has no lock: two writes at once may end the       *)
(* process ("fatal error: concurrent map writes").                         *)
(*                                                                         *)
(* Its protocol is that of libp2p's own ping service, which therefore      *)
(* accepts the streams of the relay, and of a client until it registers    *)
(* handleStream, but never says PONG. What becomes of a ping's stream is   *)
(* in StreamPing; here a ping is answered or fails. Time is left out.      *)
(*                                                                         *)
(* Streams open over any connection: that of src/relay sets no limit to    *)
(* those it carries, so it does not matter which go over the relay. A      *)
(* process that ended may start again under its peer ID; its record in the *)
(* DHT has stayed.                                                         *)
(***************************************************************************)
EXTENDS Naturals, FiniteSets

CONSTANTS
  Chatter,                      \* the processes that run the client
  Relay,                        \* the relay they are given
  Pings,                        \* bound: the pings of each at a time
  MaxFault,                     \* bound: failed pings, cut connections, kills
  MaxRestart                    \* bound: processes that start again

ASSUME ChatAssumption ==
  /\ Relay \notin Chatter
  /\ Pings \in [Chatter -> Nat] /\ MaxFault \in Nat /\ MaxRestart \in Nat

MaxRetry == 5                   \* attempts to open a stream to the relay

VARIABLES
  stage,                        \* where main is, in each process
  online,                       \* those connected to a bootstrap server
  registered,                   \* those that have registered handleStream
  advertising, record,          \* who announces itself; whom the DHT lists
  seen,                         \* the peers that each search has yielded
  trying,                       \* the peer that connectToPeers is at
  connectedPeers,               \* the map of each process
  links,                        \* connected pairs
  peerstore,                    \* the clients whose addresses each has
  todo,                         \* the peers left to ping in a tick
  pinger,                       \* the goroutines of pingPeer
  introduced, restarted,        \* [history] who found each other; who started again
  faults, restarts              \* how many of each

mainVars == <<stage, online, registered, advertising, seen, trying>>
loopVars == <<todo, pinger>>
linkVars == <<links, peerstore>>
netVars == <<record, linkVars, introduced>>
historyVars == <<restarted, faults, restarts>>
vars == <<mainVars, connectedPeers, loopVars, netVars, historyVars>>

Slot == UNION {{c} \X (1..Pings[c]) : c \in Chatter}
Peer == Chatter \cup {Relay}
Pair == {{c, p} : c \in Chatter, p \in Peer} \ {{c} : c \in Chatter}
Couple == {{c, p} : c \in Chatter, p \in Chatter}

NoOne == [peer |-> Relay, at |-> "none", attempt |-> 0]
Free == [to |-> Relay, at |-> "none"]

\* "deaf" is a ping whose stream brings no answer any more: it is with libp2p's
\* own handler, or lost.
TypeOK ==
  /\ stage \in [Chatter -> {"bootstrap", "relay", "register", "reserve", "announce",
                            "connect", "loop", "dead"}]
  /\ online \in SUBSET Chatter
  /\ registered \in SUBSET Chatter
  /\ advertising \in SUBSET Chatter
  /\ record \in SUBSET Chatter
  /\ seen \in [Chatter -> SUBSET Chatter]
  /\ trying \in [Chatter -> [peer : Peer, at : {"none", "dial", "open", "relay", "stream"},
                             attempt : 0..MaxRetry]]
  /\ connectedPeers \in [Chatter -> SUBSET Peer]
  /\ links \in SUBSET Pair
  /\ peerstore \in [Chatter -> SUBSET Chatter]
  /\ todo \in [Chatter -> SUBSET Peer]
  /\ pinger \in [Slot -> [to : Peer, at : {"none", "open", "read", "deaf", "pong", "write", "clash"}]]
  /\ introduced \in SUBSET Couple
  /\ restarted \in SUBSET Chatter
  /\ faults \in 0..MaxFault
  /\ restarts \in 0..MaxRestart

Init ==
  /\ stage = [c \in Chatter |-> "bootstrap"]
  /\ online = {} /\ registered = {} /\ advertising = {} /\ record = {}
  /\ seen = [c \in Chatter |-> {}]
  /\ trying = [c \in Chatter |-> NoOne]
  /\ connectedPeers = [c \in Chatter |-> {}]
  /\ links = {} /\ peerstore = [c \in Chatter |-> {}]
  /\ introduced = {} /\ restarted = {}
  /\ todo = [c \in Chatter |-> {}]
  /\ pinger = [s \in Slot |-> Free]
  /\ faults = 0 /\ restarts = 0

-----------------------------------------------------------------------------

Fault == faults < MaxFault /\ faults' = faults + 1
Alive(p) == p \in Chatter => stage[p] # "dead"

\* A connection, and two clients that it acquaints with each other.
Join(c, p) ==
  /\ links' = links \cup {{c, p}}
  /\ IF p = Relay THEN UNCHANGED peerstore
     ELSE peerstore' = [peerstore EXCEPT ![c] = @ \cup {p}, ![p] = @ \cup {c}]

\* The pings over a lost connection hear nothing more.
Deafened(lost) == [s \in Slot |->
  IF {s[1], pinger[s].to} \in lost /\ pinger[s].at = "read"
  THEN [pinger[s] EXCEPT !.at = "deaf"] ELSE pinger[s]]

\* A process goes down with its memory, its connections and goroutines.
Die(c) ==
  /\ stage' = [stage EXCEPT ![c] = "dead"]
  /\ LET lost == {l \in links : c \in l}
     IN /\ links' = links \ lost
        /\ pinger' = [s \in Slot |-> IF s[1] = c THEN Free ELSE Deafened(lost)[s]]
  /\ todo' = [todo EXCEPT ![c] = {}]
  /\ trying' = [trying EXCEPT ![c] = NoOne]
  /\ online' = online \ {c}
  /\ registered' = registered \ {c}
  /\ advertising' = advertising \ {c}
  /\ seen' = [seen EXCEPT ![c] = {}]
  /\ connectedPeers' = [connectedPeers EXCEPT ![c] = {}]
  /\ peerstore' = [peerstore EXCEPT ![c] = {}]
  /\ UNCHANGED <<record, introduced, restarted, restarts>>

-----------------------------------------------------------------------------
(* main, up to the search.                                                 *)

\* [A bug it must not have: the handler is registered after the announcement.]
AfterLate == [bootstrap |-> "relay", relay |-> "reserve", reserve |-> "announce",
  announce |-> "register", register |-> "connect", connect |-> "loop"]

After == [bootstrap |-> "relay", relay |-> "register", register |-> "reserve",
  reserve |-> "announce", announce |-> "connect", connect |-> "loop"]

\* main is done with a stage.
Pass(c, place) == stage[c] = place /\ stage' = [stage EXCEPT ![c] = After[place]]

\* Bootstrap servers that cannot be reached are passed over.
ConnectToBootstrapPeers(c) ==
  /\ Pass(c, "bootstrap")
  /\ online' \in {online, online \cup {c}}
  /\ UNCHANGED <<registered, advertising, seen, trying, connectedPeers, loopVars, netVars, historyVars>>

ConnectToRelay(c) ==
  /\ Pass(c, "relay")
  /\ Join(c, Relay)
  /\ UNCHANGED <<online, registered, advertising, seen, trying, connectedPeers, loopVars,
                 record, introduced, historyVars>>

\* log.Fatalf
ConnectToRelayFails(c) == stage[c] = "relay" /\ Die(c) /\ UNCHANGED faults

SetupStreamHandler(c) ==
  /\ Pass(c, "register")
  /\ registered' = registered \cup {c}
  /\ UNCHANGED <<online, advertising, seen, trying, connectedPeers, loopVars, netVars, historyVars>>

\* Whether the relay grants the reservation or not; the peerstore knows of it.
ReserveRelay(c) ==
  /\ Pass(c, "reserve")
  /\ UNCHANGED <<online, registered, advertising, seen, trying, connectedPeers, loopVars,
                 netVars, historyVars>>

\* The search begins as soon as dutil.Advertise has started its goroutine.
AnnounceSelf(c) ==
  /\ Pass(c, "announce")
  /\ advertising' = advertising \cup {c}
  /\ UNCHANGED <<online, registered, seen, trying, connectedPeers, loopVars, netVars, historyVars>>

-----------------------------------------------------------------------------
(* connectToPeers.                                                         *)

TryAt(c, place) == stage[c] = "connect" /\ trying[c].at = place
GoTo(c, place) == trying' = [trying EXCEPT ![c].at = place]
NextPeer(c) == trying' = [trying EXCEPT ![c] = NoOne]
Mark(c, p) == connectedPeers' = [connectedPeers EXCEPT ![c] = @ \cup {p}]

\* One more peer comes through the channel. The client passes over itself, but a
\* peer that it is connected to is tried again.
TakePeer(c) ==
  /\ TryAt(c, "none") /\ c \in online
  /\ \E p \in record \ (seen[c] \cup {c}) :
       /\ seen' = [seen EXCEPT ![c] = @ \cup {p}]
       /\ trying' = [trying EXCEPT ![c] = [peer |-> p, at |-> "dial", attempt |-> 0]]
       /\ peerstore' = [peerstore EXCEPT ![c] = @ \cup {p}]
       /\ introduced' = introduced \cup {{c, p}}
  /\ UNCHANGED <<stage, online, registered, advertising, connectedPeers, loopVars, record,
                 links, historyVars>>

\* The channel is closed: main goes on, and never searches again.
LookupEnds(c) ==
  /\ TryAt(c, "none")
  /\ Pass(c, "connect")
  /\ UNCHANGED <<online, registered, advertising, seen, trying, connectedPeers, loopVars,
                 netVars, historyVars>>

\* host.Connect succeeds, over whichever of the peer's addresses.
ConnectDirectly(c) ==
  /\ TryAt(c, "dial") /\ Alive(trying[c].peer)
  /\ Join(c, trying[c].peer)
  /\ GoTo(c, "open")
  /\ UNCHANGED <<stage, online, registered, advertising, seen, connectedPeers, loopVars,
                 record, introduced, historyVars>>

DirectFails(c) ==
  /\ TryAt(c, "dial")
  /\ GoTo(c, "relay")
  /\ UNCHANGED <<stage, online, registered, advertising, seen, connectedPeers, loopVars,
                 netVars, historyVars>>

\* A stream to the peer, over whatever connection there is: whichever handler of
\* the protocol the peer has by now takes it.
OpenToPeer(c) ==
  /\ TryAt(c, "open") /\ {c, trying[c].peer} \in links
  /\ Mark(c, trying[c].peer)
  /\ NextPeer(c)
  /\ UNCHANGED <<stage, online, registered, advertising, seen, loopVars, netVars, historyVars>>

OpenFails(c) ==
  /\ TryAt(c, "open")
  /\ NextPeer(c)
  /\ UNCHANGED <<stage, online, registered, advertising, seen, connectedPeers, loopVars,
                 netVars, historyVars>>

\* relayAddresses holds one address, and that of the relay itself: host.Connect
\* connects to the relay, again perhaps, not through it to the peer.
ConnectRelayed(c) ==
  /\ TryAt(c, "relay")
  /\ Join(c, Relay)
  /\ GoTo(c, "stream")
  /\ UNCHANGED <<stage, online, registered, advertising, seen, connectedPeers, loopVars,
                 record, introduced, historyVars>>

RelayedFails(c) ==
  /\ TryAt(c, "relay")
  /\ NextPeer(c)
  /\ UNCHANGED <<stage, online, registered, advertising, seen, connectedPeers, loopVars,
                 netVars, historyVars>>

\* The stream, too, is one to the relay; the peer is marked for it.
StreamToRelay(c) ==
  /\ TryAt(c, "stream") /\ {c, Relay} \in links
  /\ Mark(c, trying[c].peer)
  /\ NextPeer(c)
  /\ UNCHANGED <<stage, online, registered, advertising, seen, loopVars, netVars, historyVars>>

\* [A bug it must not have: the attempts are not counted.]
StreamFailsForEver(c) == TryAt(c, "stream") /\ UNCHANGED vars

StreamFails(c) ==
  /\ TryAt(c, "stream")
  /\ IF trying[c].attempt + 1 < MaxRetry
     THEN trying' = [trying EXCEPT ![c].attempt = @ + 1]
     ELSE NextPeer(c)
  /\ UNCHANGED <<stage, online, registered, advertising, seen, connectedPeers, loopVars,
                 netVars, historyVars>>

ConnectToPeers(c) ==
  \/ TakePeer(c) \/ LookupEnds(c) \/ ConnectDirectly(c) \/ DirectFails(c)
  \/ OpenToPeer(c) \/ OpenFails(c) \/ ConnectRelayed(c) \/ RelayedFails(c)
  \/ StreamToRelay(c) \/ StreamFails(c)

MainStep(c) ==
  \/ ConnectToBootstrapPeers(c) \/ ConnectToRelay(c) \/ ConnectToRelayFails(c)
  \/ SetupStreamHandler(c) \/ ReserveRelay(c) \/ AnnounceSelf(c)
  \/ ConnectToPeers(c)

-----------------------------------------------------------------------------
(* The ticker and its pings.                                               *)

\* [A bug it must not have: only those that the search has found are pinged.]
PeersFound(c) == {p \in seen[c] : {c, p} \in links}

\* [A bug it must not have: all those in the peerstore are pinged.]
PeersKnown(c) == Peer \ {c}

\* The peers that host.Network() lists, the relay too; not the servers.
Peers(c) == {p \in Peer : {c, p} \in links}

\* The bound on pings: the first of the slots that are free.
FreeSlots(c) == {s \in Slot : /\ s[1] = c /\ pinger[s].at = "none"
                              /\ \A r \in Slot : r[1] = c /\ r[2] < s[2] => pinger[r].at # "none"}

Tick(c) ==
  /\ stage[c] = "loop" /\ todo[c] = {} /\ FreeSlots(c) # {}
  /\ todo' = [todo EXCEPT ![c] = Peers(c)]
  /\ UNCHANGED <<mainVars, connectedPeers, pinger, netVars, historyVars>>

\* go pingPeer
StartPing(c) == \E p \in todo[c], s \in FreeSlots(c) :
  /\ pinger' = [pinger EXCEPT ![s] = [to |-> p, at |-> "open"]]
  /\ todo' = [todo EXCEPT ![c] = @ \ {p}]
  /\ UNCHANGED <<mainVars, connectedPeers, netVars, historyVars>>

Ticker(c) == Tick(c) \/ StartPing(c)

PingAt(s, place) == pinger' = [pinger EXCEPT ![s].at = place]
Ended(s) == pinger' = [pinger EXCEPT ![s] = Free]
Answering(s) == {s[1], pinger[s].to} \in links /\ pinger[s].to \in registered

\* The stream is with the handler that the peer has at that time.
OpenPing(s) ==
  /\ pinger[s].at = "open" /\ {s[1], pinger[s].to} \in links
  /\ PingAt(s, IF Answering(s) THEN "read" ELSE "deaf")
  /\ UNCHANGED <<mainVars, connectedPeers, todo, netVars, historyVars>>

ReadPong(s) ==
  /\ pinger[s].at = "read"
  /\ PingAt(s, "pong")
  /\ UNCHANGED <<mainVars, connectedPeers, todo, netVars, historyVars>>

Fails(s) ==
  \/ pinger[s].at = "deaf" /\ UNCHANGED faults
  \/ pinger[s].at = "open" /\ IF Answering(s) THEN Fault ELSE UNCHANGED faults
  \/ pinger[s].at = "read" /\ Fault

\* [A bug it must not have: the ping is tried again.]
PingFailsAgain(s) ==
  /\ Fails(s)
  /\ PingAt(s, "open")
  /\ UNCHANGED <<mainVars, connectedPeers, todo, netVars, restarted, restarts>>

\* [A bug it must not have: the error is fatal, as those of main are.]
PingFailsFatally(s) == Fails(s) /\ Die(s[1])

\* The error, or the answer that is no PONG, is logged.
PingFails(s) ==
  /\ Fails(s)
  /\ Ended(s)
  /\ UNCHANGED <<mainVars, connectedPeers, todo, netVars, restarted, restarts>>

\* connectedPeers[pid] = true: while another writes, the writes of both clash.
Writers(c) == {r \in Slot : r[1] = c /\ pinger[r].at \in {"write", "clash"}}
BeginWrite(s) ==
  /\ pinger[s].at = "pong"
  /\ IF Writers(s[1]) = {} THEN PingAt(s, "write")
     ELSE pinger' = [r \in Slot |-> IF r \in Writers(s[1]) \cup {s}
                                    THEN [pinger[r] EXCEPT !.at = "clash"] ELSE pinger[r]]
  /\ UNCHANGED <<mainVars, connectedPeers, todo, netVars, historyVars>>

\* The Go runtime sees the clash, at the latest when the write ends.
FatalWrite(s) == pinger[s].at = "clash" /\ Die(s[1]) /\ UNCHANGED faults

\* It does not see it, and one of the writes may be lost.
EndWrite(s) ==
  /\ pinger[s].at \in {"write", "clash"}
  /\ \/ Mark(s[1], pinger[s].to)
     \/ pinger[s].at = "clash" /\ UNCHANGED connectedPeers
  /\ Ended(s)
  /\ UNCHANGED <<mainVars, todo, netVars, historyVars>>

PingPeer(s) ==
  \/ OpenPing(s) \/ ReadPong(s) \/ PingFails(s)
  \/ BeginWrite(s) \/ FatalWrite(s) \/ EndWrite(s)

-----------------------------------------------------------------------------
(* The network.                                                            *)

Advertise(c) ==
  /\ c \in advertising /\ c \in online /\ c \notin record
  /\ record' = record \cup {c}
  /\ UNCHANGED <<mainVars, connectedPeers, loopVars, linkVars, introduced, historyVars>>

\* NewStream dials a peer that is not connected any more.
Dialling(c, p) ==
  \/ TryAt(c, "open") /\ trying[c].peer = p
  \/ TryAt(c, "stream") /\ p = Relay
  \/ \E s \in Slot : s[1] = c /\ pinger[s] = [to |-> p, at |-> "open"]
Redial(c, p) ==
  /\ {c, p} \notin links /\ Dialling(c, p) /\ Alive(p)
  /\ Join(c, p)
  /\ UNCHANGED <<mainVars, connectedPeers, loopVars, record, introduced, historyVars>>

CutLink(l) ==
  /\ l \in links
  /\ Fault
  /\ links' = links \ {l}
  /\ pinger' = Deafened({l})
  /\ UNCHANGED <<mainVars, connectedPeers, todo, record, peerstore, introduced, restarted, restarts>>

\* The process is ended from outside, whatever it does.
Kill(c) == stage[c] # "dead" /\ Fault /\ Die(c)

\* The same peer comes back: keys are given by an index on the command line.
Restart(c) ==
  /\ stage[c] = "dead"
  /\ restarts < MaxRestart /\ restarts' = restarts + 1
  /\ stage' = [stage EXCEPT ![c] = "bootstrap"]
  /\ restarted' = restarted \cup {c}
  /\ UNCHANGED <<online, registered, advertising, seen, trying, connectedPeers, loopVars,
                 netVars, faults>>

-----------------------------------------------------------------------------

Next ==
  \/ \E c \in Chatter : MainStep(c) \/ Ticker(c) \/ Advertise(c)
  \/ \E s \in Slot : PingPeer(s)
  \/ \E c \in Chatter, p \in Peer : Redial(c, p)
  \/ \E l \in Pair : CutLink(l)
  \/ \E c \in Chatter : Kill(c) \/ Restart(c)

Spec == Init /\ [][Next]_vars

\* Go schedules the goroutines and fires the ticker; dials, streams and lookups
\* come to an end, libp2p's own ping handler by its timeout.
FairSpec ==
  /\ Spec
  /\ \A c \in Chatter : WF_vars(MainStep(c)) /\ WF_vars(Ticker(c))
  /\ \A s \in Slot : WF_vars(PingPeer(s))

-----------------------------------------------------------------------------
(* What is checked and proved.                                             *)

\* Who has registered handleStream, or was found by what is left of a former life.
Ready(p) ==
  \/ p \in registered \cup restarted
  \/ p \in Chatter /\ stage[p] = "dead"

\* Nobody can be found, and nobody is marked, who has not been ready to answer:
\* neither the relay, which is pinged too, nor a client on its way to its handler.
FoundOK ==
  /\ advertising \subseteq registered
  /\ \A p \in record : Ready(p)
  /\ \A c \in Chatter :
       /\ \A p \in seen[c] \cup connectedPeers[c] : Ready(p)
       /\ trying[c].at # "none" => trying[c].peer \in seen[c] \ {c}
  /\ \A s \in Slot : pinger[s].at \in {"read", "pong", "write", "clash"} => Ready(pinger[s].to)

\* Who does what, in which stage. Nobody pings itself.
StageOK ==
  /\ \A c \in Chatter :
       /\ trying[c].at # "none" => stage[c] = "connect"
       /\ todo[c] # {} => stage[c] = "loop" /\ c \notin todo[c]
       /\ stage[c] \in {"reserve", "announce", "connect", "loop"} => c \in registered
  /\ \A s \in Slot : pinger[s].at # "none" => stage[s[1]] = "loop" /\ pinger[s].to # s[1]

\* The inductive invariant of the proofs.
ChatInv == TypeOK /\ FoundOK /\ StageOK

\* Every client that another is connected to, tries or pings is one whose
\* addresses it has: from its search, or from a connection that either made.
KnowEachOther ==
  \A c, p \in Chatter :
    /\ {c, p} \in links => c # p /\ p \in peerstore[c]
    /\ p \in seen[c] \cup todo[c] => p \in peerstore[c]
    /\ \A s \in Slot : s[1] = c /\ pinger[s].at # "none" /\ pinger[s].to = p =>
         p \in peerstore[c]

\* The chat client implements the abstract Rendezvous, with all its dials again
\* and pings: clients meet only when one of them has found the other listed, or
\* was connected to it before, in its present life.
Connections == {l \in links : Relay \notin l}
Met == INSTANCE Rendezvous WITH
  Party <- Chatter, listed <- record, known <- peerstore, met <- Connections
Promise == Met!RendezvousSpec

\* While connectToPeers uses the map, no ping is under way that could write it.
MainHasMapAlone ==
  \A s \in Slot : stage[s[1]] = "connect" => pinger[s].at = "none"

\* A client that runs dies of nothing but its own map, by two answered pings that
\* write it at once: no failure of a peer, a stream or the relay ends it. (To be
\* killed from outside is a fault, which is counted.)
DiesOnlyOfMap ==
  [][\A c \in Chatter : stage[c] = "loop" /\ stage'[c] = "dead" /\ faults' = faults =>
       \E s \in Slot : s[1] = c /\ pinger[s].at = "clash"]_vars

\* main comes to its end, in the loop or on an error that is fatal, as often as
\* the process is started.
StartupEnds == \A c \in Chatter : []<>(stage[c] \in {"loop", "dead"})

\* No ping stays for ever, though those to the relay are never answered.
PingsEnd == \A s \in Slot : pinger[s].at = "open" ~> pinger[s].at = "none"

\* A client marks every client that it stays connected to, whoever of them
\* connected, unless its writes go on to clash: the search is done once, but not
\* the pings.
Together(c, p) ==
  /\ stage[c] = "loop" /\ p \in registered /\ {c, p} \in links
  /\ \A s \in Slot : s[1] = c => pinger[s].at # "clash"
MarkedInTheEnd ==
  \A c \in Chatter : \A p \in Chatter \ {c} :
    Pings[c] > 0 /\ <>[]Together(c, p) => <>[](p \in connectedPeers[c])
=============================================================================
