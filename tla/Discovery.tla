----------------------------- MODULE Discovery -----------------------------
(***************************************************************************)
(* How node runners and mobile clients come to know each other: the main   *)
(* functions of src/node_runner/main.go and src/mobile_client/main.go up   *)
(* to their ticker loops (which PingProtocol models), with the helpers of  *)
(* src/shared/shared.go that they call, and of sendProtoMessage what makes  *)
(* connections: NewStream dials a peer that was lost after the test.       *)
(*                                                                         *)
(* A process dials the bootstrap servers and the relay, registers the      *)
(* handlers of its protocols, and announces itself under a common name in  *)
(* the DHT that the servers keep. A client looks that name up, once, and   *)
(* connects to whomever it finds, directly or through the relay. Processes *)
(* may go down and come back under the same peer ID; what the DHT says of  *)
(* them stays, and so does what others have in their peerstores.           *)
(***************************************************************************)
EXTENDS Naturals, FiniteSets

CONSTANTS
  Runner, Client,               \* the processes
  Bootstrap, Relay,             \* the servers they are started with
  BootstrapPeerIDs,             \* the fixed list that init puts together
  NoPeer,                       \* stands for "no peer is being dialled"
  MaxFault                      \* bound: restarts, cut links, expiries

Node == Runner \cup Client
Server == Bootstrap \cup {Relay}

ASSUME PeerAssumption ==
  /\ Runner \cap Client = {}
  /\ Node \cap (Server \cup BootstrapPeerIDs) = {}
  /\ Bootstrap # {}             \* else main ends at once
  /\ Relay \notin Bootstrap
  /\ NoPeer \notin Node \cup Server
ASSUME FaultAssumption == MaxFault \in Nat

VARIABLES
  stage,                        \* where each process is in its main function
  todo,                         \* the bootstrap servers it has yet to dial
  context,                      \* the processes whose context has not ended
  serving,                      \* those that have registered their protocols
  advertiser,                   \* the goroutine that announceSelf starts
  record,                       \* whom the DHT lists under the common name
  reserved,                     \* who holds a reservation at the relay
  links,                        \* the connected pairs of peers
  lookup,                       \* the clients whose search is under way
  yielded, found,               \* what it came up with, and what of that is unread
  dialling,                     \* the peer that connectToPeers is at
  connectedPeers,               \* each client's table of that name
  peerstore,                    \* whose addresses each process has, since it started
  sending,                      \* sends between their test and their stream
  owed, missed,                 \* [history] who could be found; who was dialled in vain
  introduced,                   \* [history] the pairs of which one found the other
  troubled, restarted,          \* [history] whom a fault has struck; who restarted
  faults                        \* how many restarts, cut links and expiries

searchVars == <<lookup, yielded, found, dialling, connectedPeers, owed, missed, introduced>>
peerVars == <<searchVars, peerstore, sending>>
historyVars == <<troubled, restarted, faults>>
mainVars == <<stage, todo, serving>>
worldVars == <<context, advertiser, record, reserved, links>>
vars == <<mainVars, worldVars, peerVars, historyVars>>

Stage == {"bootstrap", "relay", "reserve", "register", "announce",
          "search", "connect", "relayed", "loop", "dead"}

NodePair == {{a, b} : a \in Node, b \in Node}
Pair == {{a, b} : a \in Node, b \in Node \cup Server}

TypeOK ==
  /\ stage \in [Node -> Stage]
  /\ todo \in [Node -> SUBSET Bootstrap]
  /\ context \in SUBSET Node
  /\ serving \in SUBSET Node
  /\ advertiser \in [Node -> {"none", "trying", "waiting", "off"}]
  /\ record \in SUBSET Node
  /\ reserved \in SUBSET Node
  /\ links \in SUBSET Pair
  /\ lookup \in SUBSET Client
  /\ yielded \in [Client -> SUBSET Node]
  /\ found \in [Client -> SUBSET Node]
  /\ dialling \in [Client -> Node \cup {NoPeer}]
  /\ connectedPeers \in [Client -> SUBSET Node]
  /\ peerstore \in [Node -> SUBSET Node]
  /\ sending \in SUBSET (Node \X Node)
  /\ owed \in [Client -> SUBSET Node]
  /\ missed \in [Client -> SUBSET Node]
  /\ introduced \in SUBSET NodePair
  /\ troubled \in SUBSET Node
  /\ restarted \in SUBSET Node
  /\ faults \in 0..MaxFault

Init ==
  /\ stage = [n \in Node |-> "bootstrap"]
  /\ todo = [n \in Node |-> Bootstrap]
  /\ context = Node
  /\ serving = {}
  /\ advertiser = [n \in Node |-> "none"]
  /\ record = {}
  /\ reserved = {}
  /\ links = {}
  /\ lookup = {}
  /\ yielded = [c \in Client |-> {}]
  /\ found = [c \in Client |-> {}]
  /\ dialling = [c \in Client |-> NoPeer]
  /\ connectedPeers = [c \in Client |-> {}]
  /\ peerstore = [n \in Node |-> {}]
  /\ sending = {}
  /\ owed = [c \in Client |-> {}]
  /\ missed = [c \in Client |-> {}]
  /\ introduced = {}
  /\ troubled = {}
  /\ restarted = {}
  /\ faults = 0

-----------------------------------------------------------------------------
(* Helpers.                                                                *)

At(n, s) == stage[n] = s
Alive(n) == ~At(n, "dead")
Linked(a, b) == {a, b} \in links
KnowsServer(n) == \E s \in Server : Linked(n, s)

\* [A bug it must not have: the runner announces itself before it registers.]
RunnerNextUnready == [bootstrap |-> "relay", relay |-> "reserve", reserve |-> "announce",
                      announce |-> "register", register |-> "loop"]

\* [A bug it must not have: the runner does not announce itself.]
RunnerNextSilent == [bootstrap |-> "relay", relay |-> "reserve", reserve |-> "register",
                     register |-> "loop"]

\* [A bug it must not have: the client registers when it has searched.]
ClientNextUnready == [bootstrap |-> "relay", relay |-> "announce", announce |-> "search",
                      search |-> "connect", connect |-> "register", register |-> "loop"]

\* The order of the calls in the two main functions.
RunnerNext == [bootstrap |-> "relay", relay |-> "reserve", reserve |-> "register",
               register |-> "announce", announce |-> "loop"]
ClientNext == [bootstrap |-> "relay", relay |-> "announce", announce |-> "register",
               register |-> "search", search |-> "connect", connect |-> "loop"]

Advance(n) ==
  stage' = [stage EXCEPT ![n] = IF n \in Runner THEN RunnerNext[@] ELSE ClientNext[@]]

\* The end of a process, for whatever reason: its memory and its connections
\* go, and with the connection to the relay the reservation.
Die(n) ==
  /\ stage' = [stage EXCEPT ![n] = "dead"]
  /\ todo' = [todo EXCEPT ![n] = {}]
  /\ serving' = serving \ {n}
  /\ advertiser' = [advertiser EXCEPT ![n] = "off"]
  /\ reserved' = reserved \ {n}
  /\ links' = {p \in links : n \notin p}
  /\ lookup' = lookup \ {n}
  /\ yielded' = [c \in Client |-> IF c = n THEN {} ELSE yielded[c]]
  /\ found' = [c \in Client |-> IF c = n THEN {} ELSE found[c]]
  /\ dialling' = [c \in Client |-> IF c = n THEN NoPeer ELSE dialling[c]]
  /\ connectedPeers' = [c \in Client |-> IF c = n THEN {} ELSE connectedPeers[c]]
  /\ peerstore' = [peerstore EXCEPT ![n] = {}]
  /\ sending' = {s \in sending : s[1] # n}
  /\ owed' = [c \in Client |-> IF c = n THEN {} ELSE owed[c]]
  /\ missed' = [c \in Client |-> IF c = n THEN {} ELSE missed[c]]
  /\ troubled' = troubled \cup {n}
  /\ UNCHANGED <<context, record, introduced, restarted>>

\* Two processes that are connected have each other's addresses.
Acquaint(a, b) ==
  peerstore' = [peerstore EXCEPT ![a] = @ \cup {b}, ![b] = @ \cup {a}]

\* The filter of targets: it knows servers from the fixed list and the relay.
relayAddresses == {Relay}
IsInvalidTarget(p) == p \in BootstrapPeerIDs \cup relayAddresses

-----------------------------------------------------------------------------
(* The start, mostly the same in both main functions.                      *)

\* [A bug it must not have: a server is dialled until it can be reached.]
DialBootstrapForEver(n) ==
  /\ At(n, "bootstrap")
  /\ \E b \in todo[n] :
       /\ n \in context
       /\ todo' = [todo EXCEPT ![n] = @ \ {b}]
       /\ links' = links \cup {{n, b}}
  /\ UNCHANGED <<stage, serving, context, advertiser, record, reserved,
                 peerVars, historyVars>>

\* One server after the other; one that cannot be reached is only logged.
DialBootstrap(n) ==
  /\ At(n, "bootstrap")
  /\ \E b \in todo[n] :
       /\ todo' = [todo EXCEPT ![n] = @ \ {b}]
       /\ \/ UNCHANGED links
          \/ n \in context /\ links' = links \cup {{n, b}}
  /\ UNCHANGED <<stage, serving, context, advertiser, record, reserved,
                 peerVars, historyVars>>

BootstrapDHT(n) ==
  /\ At(n, "bootstrap") /\ todo[n] = {}
  /\ Advance(n)
  /\ UNCHANGED <<todo, serving, worldVars, peerVars, historyVars>>

\* createHost could not make a DHT.
BootstrapDHTFails(n) ==
  /\ At(n, "bootstrap") /\ todo[n] = {}
  /\ Die(n) /\ UNCHANGED faults

\* A connection that is already there needs no context.
ConnectToRelay(n) ==
  /\ At(n, "relay")
  /\ n \in context \/ Linked(n, Relay)
  /\ links' = links \cup {{n, Relay}}
  /\ Advance(n)
  /\ UNCHANGED <<todo, serving, context, advertiser, record, reserved,
                 peerVars, historyVars>>

ConnectToRelayFails(n) ==
  /\ At(n, "relay")
  /\ ~Linked(n, Relay)
  /\ Die(n) /\ UNCHANGED faults

\* A runner without a reservation goes on.
ReserveRelay(n) ==
  /\ At(n, "reserve")
  /\ \/ n \in context /\ reserved' = reserved \cup {n} /\ links' = links \cup {{n, Relay}}
     \/ UNCHANGED <<reserved, links>>
  /\ Advance(n)
  /\ UNCHANGED <<todo, serving, context, advertiser, record, peerVars, historyVars>>

NewPingProtocol(n) ==
  /\ At(n, "register")
  /\ serving' = serving \cup {n}
  /\ Advance(n)
  /\ UNCHANGED <<todo, worldVars, peerVars, historyVars>>

\* announceSelf starts the advertiser and returns.
AnnounceSelf(n) ==
  /\ At(n, "announce")
  /\ advertiser' = [advertiser EXCEPT ![n] = "trying"]
  /\ Advance(n)
  /\ UNCHANGED <<todo, serving, context, record, reserved, links,
                 peerVars, historyVars>>

-----------------------------------------------------------------------------
(* The client's search.                                                    *)

\* What the search should lead to is decided here: those who are in the DHT by
\* now.
SearchForPeers(c) ==
  /\ At(c, "search")
  /\ lookup' = lookup \cup {c}
  /\ owed' = [owed EXCEPT ![c] = IF KnowsServer(c) THEN record \ {c} ELSE {}]
  /\ Advance(c)
  /\ UNCHANGED <<todo, serving, worldVars, yielded, found, dialling, connectedPeers,
                 missed, introduced, peerstore, sending, historyVars>>

\* [A bug it must not have: the client does not pass over itself.]
TakePeerItself(c) ==
  /\ At(c, "connect") /\ dialling[c] = NoPeer
  /\ \E p \in found[c] :
       /\ found' = [found EXCEPT ![c] = @ \ {p}]
       /\ dialling' = [dialling EXCEPT ![c] = IF IsInvalidTarget(p) THEN @ ELSE p]
  /\ UNCHANGED <<mainVars, worldVars, lookup, yielded, connectedPeers, owed, missed,
                 introduced, peerstore, sending, historyVars>>

\* connectToPeers reads one peer and passes over itself and the servers.
TakePeer(c) ==
  /\ At(c, "connect") /\ dialling[c] = NoPeer
  /\ \E p \in found[c] :
       /\ found' = [found EXCEPT ![c] = @ \ {p}]
       /\ IF p = c \/ IsInvalidTarget(p)
          THEN UNCHANGED dialling
          ELSE dialling' = [dialling EXCEPT ![c] = p]
  /\ UNCHANGED <<mainVars, worldVars, lookup, yielded, connectedPeers, owed, missed,
                 introduced, peerstore, sending, historyVars>>

\* A direct connection, and a stream that may fail: then the peer is not put
\* into the table, but stays connected.
ConnectDirectly(c) ==
  /\ At(c, "connect") /\ dialling[c] # NoPeer
  /\ Alive(dialling[c])
  /\ links' = links \cup {{c, dialling[c]}}
  /\ Acquaint(c, dialling[c])
  /\ \/ connectedPeers' = [connectedPeers EXCEPT ![c] = @ \cup {dialling[c]}]
     \/ UNCHANGED connectedPeers
  /\ dialling' = [dialling EXCEPT ![c] = NoPeer]
  /\ UNCHANGED <<mainVars, context, advertiser, record, reserved, lookup, yielded,
                 found, owed, missed, introduced, sending, historyVars>>

\* [A bug it must not have: the relay is not tried.]
DirectFailsGivesUp(c) ==
  /\ At(c, "connect") /\ dialling[c] # NoPeer
  /\ ~Linked(c, dialling[c])
  /\ dialling' = [dialling EXCEPT ![c] = NoPeer]
  /\ UNCHANGED <<mainVars, worldVars, lookup, yielded, found, connectedPeers, owed,
                 missed, introduced, peerstore, sending, historyVars>>

DirectFails(c) ==
  /\ At(c, "connect") /\ dialling[c] # NoPeer
  /\ ~Linked(c, dialling[c])
  /\ stage' = [stage EXCEPT ![c] = "relayed"]
  /\ UNCHANGED <<todo, serving, worldVars, peerVars, historyVars>>

\* The relay connects whoever holds a reservation; nothing needs to be dialled if
\* the peer has connected meanwhile.
ConnectRelayed(c) ==
  /\ At(c, "relayed")
  /\ \/ Linked(c, dialling[c]) /\ UNCHANGED <<links, peerstore>>
     \/ /\ dialling[c] \in reserved
        /\ links' = links \cup {{c, dialling[c]}, {c, Relay}}
        /\ Acquaint(c, dialling[c])
  /\ connectedPeers' = [connectedPeers EXCEPT ![c] = @ \cup {dialling[c]}]
  /\ dialling' = [dialling EXCEPT ![c] = NoPeer]
  /\ stage' = [stage EXCEPT ![c] = "connect"]
  /\ UNCHANGED <<todo, serving, context, advertiser, record, reserved, lookup,
                 yielded, found, owed, missed, introduced, sending, historyVars>>

\* Whatever the reason, also with a peer that could be reached.
RelayedFails(c) ==
  /\ At(c, "relayed")
  /\ missed' = [missed EXCEPT ![c] = @ \cup {dialling[c]}]
  /\ dialling' = [dialling EXCEPT ![c] = NoPeer]
  /\ stage' = [stage EXCEPT ![c] = "connect"]
  /\ UNCHANGED <<todo, serving, worldVars, lookup, yielded, found, connectedPeers,
                 owed, introduced, peerstore, sending, historyVars>>

\* The channel is closed and read to its end.
StartLoop(c) ==
  /\ At(c, "connect") /\ dialling[c] = NoPeer
  /\ c \notin lookup /\ found[c] = {}
  /\ Advance(c)
  /\ UNCHANGED <<todo, serving, worldVars, peerVars, historyVars>>

MainStep(n) ==
  \/ DialBootstrap(n) \/ BootstrapDHT(n) \/ BootstrapDHTFails(n)
  \/ ConnectToRelay(n) \/ ConnectToRelayFails(n) \/ ReserveRelay(n)
  \/ NewPingProtocol(n) \/ AnnounceSelf(n)

ConnectStep(c) ==
  \/ SearchForPeers(c) \/ TakePeer(c) \/ ConnectDirectly(c) \/ DirectFails(c)
  \/ ConnectRelayed(c) \/ RelayedFails(c) \/ StartLoop(c)

-----------------------------------------------------------------------------
(* What runs beside the main functions, and the libraries.                 *)

\* The runner's context ends 30 seconds after it started; the client's lasts.
ContextEnds(r) ==
  /\ Alive(r) /\ r \in context
  /\ context' = context \ {r}
  /\ UNCHANGED <<mainVars, advertiser, record, reserved, links, peerVars, historyVars>>

\* The advertiser needs a server to leave the record with. It tries again when
\* it failed, and before the record gets old, as long as the context lasts.
Advertise(n) ==
  /\ advertiser[n] = "trying" /\ n \in context /\ KnowsServer(n)
  /\ record' = record \cup {n}
  /\ advertiser' = [advertiser EXCEPT ![n] = "waiting"]
  /\ UNCHANGED <<mainVars, context, reserved, links, peerVars, historyVars>>

AdvertiseAgain(n) ==
  /\ advertiser[n] = "waiting" /\ n \in context
  /\ advertiser' = [advertiser EXCEPT ![n] = "trying"]
  /\ UNCHANGED <<mainVars, context, record, reserved, links, peerVars, historyVars>>

AdvertiserEnds(n) ==
  /\ advertiser[n] \in {"trying", "waiting"} /\ n \notin context
  /\ advertiser' = [advertiser EXCEPT ![n] = "off"]
  /\ UNCHANGED <<mainVars, context, record, reserved, links, peerVars, historyVars>>

\* libp2p's AutoRelay, which both hosts enable, has its own connection attempts.
AutoRelay(n) ==
  /\ Alive(n) /\ n \notin reserved
  /\ links' = links \cup {{n, Relay}}
  /\ reserved' = reserved \cup {n}
  /\ UNCHANGED <<mainVars, context, advertiser, record, peerVars, historyVars>>

\* The lookup finds whom the servers list, each once, later arrivals perhaps
\* too, and then closes the channel.
Yield(c) ==
  /\ c \in lookup /\ KnowsServer(c)
  /\ \E p \in record \ yielded[c] :
       /\ yielded' = [yielded EXCEPT ![c] = @ \cup {p}]
       /\ found' = [found EXCEPT ![c] = @ \cup {p}]
       /\ peerstore' = [peerstore EXCEPT ![c] = @ \cup {p}]
       /\ introduced' = introduced \cup {{c, p}}
  /\ UNCHANGED <<mainVars, worldVars, lookup, dialling, connectedPeers, owed, missed,
                 sending, historyVars>>

LookupEnds(c) ==
  /\ c \in lookup
  /\ KnowsServer(c) => owed[c] \cap record \subseteq yielded[c]
  /\ lookup' = lookup \ {c}
  /\ UNCHANGED <<mainVars, worldVars, yielded, found, dialling, connectedPeers, owed,
                 missed, introduced, peerstore, sending, historyVars>>

-----------------------------------------------------------------------------
(* The connections that sends make, in the loops and in the handlers.      *)

\* sendProtoMessage finds its peer connected ...
FindConnected(n, p) ==
  /\ n \in serving /\ Linked(n, p)
  /\ sending' = sending \cup {<<n, p>>}
  /\ UNCHANGED <<mainVars, worldVars, searchVars, peerstore, historyVars>>

\* ... and calls NewStream, again perhaps after a failed write. If the connection
\* is lost by then, that dials the peer, who may have started again meanwhile.
Redial(n, p) ==
  /\ <<n, p>> \in sending /\ ~Linked(n, p) /\ Alive(p)
  /\ links' = links \cup {{n, p}}
  /\ Acquaint(n, p)
  /\ UNCHANGED <<mainVars, context, advertiser, record, reserved, searchVars, sending,
                 historyVars>>

SendReturns(n, p) ==
  /\ <<n, p>> \in sending
  /\ sending' = sending \ {<<n, p>>}
  /\ UNCHANGED <<mainVars, worldVars, searchVars, peerstore, historyVars>>

-----------------------------------------------------------------------------
(* Faults.                                                                 *)

Fault == faults < MaxFault /\ faults' = faults + 1

Crash(n) == Alive(n) /\ Die(n) /\ UNCHANGED faults

\* The same peer comes back: keys are given by an index on the command line.
Restart(n) ==
  /\ At(n, "dead") /\ Fault
  /\ stage' = [stage EXCEPT ![n] = "bootstrap"]
  /\ todo' = [todo EXCEPT ![n] = Bootstrap]
  /\ context' = context \cup {n}
  /\ advertiser' = [advertiser EXCEPT ![n] = "none"]
  /\ restarted' = restarted \cup {n}
  /\ UNCHANGED <<serving, record, reserved, links, peerVars, troubled>>

CutLink(n, p) ==
  /\ Linked(n, p) /\ Fault
  /\ links' = links \ {{n, p}}
  /\ reserved' = IF p = Relay THEN reserved \ {n} ELSE reserved
  /\ troubled' = troubled \cup ({n, p} \cap Node)
  /\ UNCHANGED <<mainVars, context, advertiser, record, peerVars, restarted>>

\* A record gets old, or its servers restart.
Expire(n) ==
  /\ n \in record /\ Fault
  /\ record' = record \ {n}
  /\ troubled' = troubled \cup {n}
  /\ UNCHANGED <<mainVars, context, advertiser, reserved, links, peerVars, restarted>>

NodeFault(n) ==
  \/ Crash(n) \/ Restart(n) \/ Expire(n)
  \/ \E p \in Node \cup Server : CutLink(n, p)

Next ==
  \/ \E n \in Node : MainStep(n)
  \/ \E c \in Client : ConnectStep(c)
  \/ \E r \in Runner : ContextEnds(r)
  \/ \E n \in Node : Advertise(n) \/ AdvertiseAgain(n) \/ AdvertiserEnds(n) \/ AutoRelay(n)
  \/ \E c \in Client : Yield(c) \/ LookupEnds(c)
  \/ \E n, p \in Node : FindConnected(n, p) \/ Redial(n, p) \/ SendReturns(n, p)
  \/ \E n \in Node : NodeFault(n)

Spec == Init /\ [][Next]_vars

\* Goroutines run, dials and lookups end, and timers fire.
FairSpec ==
  /\ Spec
  /\ \A n \in Node : WF_vars(MainStep(n)) /\ WF_vars(Advertise(n)) /\ WF_vars(AdvertiseAgain(n))
  /\ \A c \in Client : WF_vars(ConnectStep(c)) /\ WF_vars(Yield(c) \/ LookupEnds(c))

-----------------------------------------------------------------------------
(* What is checked and proved.                                             *)

\* A process that is met by what it left in the DHT, or in the peerstore of
\* another, has registered its protocols, is gone, or has come back meanwhile.
Ready(n) == n \in serving \/ At(n, "dead") \/ n \in restarted

\* Whoever can be found has been ready before.
FoundAreReady ==
  \A r \in Runner :
    /\ r \in record \/ advertiser[r] \in {"trying", "waiting"} => Ready(r)
    /\ \A c \in Client : r \in yielded[c] \cup found[c] \cup {dialling[c]} => Ready(r)

\* Who sends has registered, and sends to somebody whom it was connected to.
SendersServe ==
  \A s \in sending :
    /\ s[1] \in serving
    /\ ~(s \in Runner \X Runner \/ s \in Client \X Client) => Ready(s[2])

\* Where the main functions have registered their protocols.
ServesInTime ==
  /\ \A r \in Runner : stage[r] \in {"announce", "loop"} => r \in serving
  /\ \A c \in Client : stage[c] \in {"search", "connect", "relayed", "loop"} => c \in serving

\* When a runner and a client are connected, and so ask each other in their
\* loops, both know the protocols they are asked in; the exceptions are a runner
\* that was found by the record of its former life, and a process that started
\* again while the other was about to send to it.
ServedUnlessStale ==
  \A r \in Runner, c \in Client :
    Linked(r, c) => \A n \in {r, c} : n \in serving \/ n \in restarted

\* The dead serve nobody, and have no connections and no reservations.
DeadAreGone ==
  \A n \in Node : At(n, "dead") =>
    n \notin serving \cup reserved /\ \A p \in Node \cup Server : ~Linked(n, p)

\* Each program has its own stages; a peer is dialled in those of connectToPeers.
StagesOfProgram ==
  /\ \A r \in Runner : stage[r] \notin {"search", "connect", "relayed"}
  /\ \A c \in Client :
       /\ ~At(c, "reserve")
       /\ At(c, "relayed") => dialling[c] # NoPeer
       /\ dialling[c] # NoPeer => stage[c] \in {"connect", "relayed"}

\* The peers that a client must meet, unless a fault strikes, and where they are
\* on their way from the DHT to a connection, or to two failed dials.
OnTheWay(c, p) ==
  \/ Linked(c, p) \/ p \in missed[c]
  \/ p \in found[c] \/ p = dialling[c]
  \/ c \in lookup /\ p \notin yielded[c]

SearchOK(c) ==
  /\ owed[c] # {} \/ yielded[c] # {} \/ c \in lookup =>
       stage[c] \in {"connect", "relayed", "loop"}
  /\ At(c, "loop") => c \notin lookup /\ found[c] = {}
  /\ c \notin troubled /\ stage[c] \notin {"bootstrap", "relay"} => Linked(c, Relay)
  /\ \A p \in owed[c] :
       p # c /\ ({p, c} \cap troubled = {} => p \in record /\ OnTheWay(c, p))

SearchInv == \A c \in Client : SearchOK(c)

\* The inductive invariant of the proofs.
DiscoveryInv ==
  /\ TypeOK /\ StagesOfProgram /\ DeadAreGone
  /\ FoundAreReady /\ SendersServe /\ ServesInTime /\ ServedUnlessStale /\ SearchInv

\* A client that has come to its loop is connected to everybody who was in the
\* DHT when it searched, unless it dialled that peer directly and over the relay
\* and failed both times, or a fault struck one of them: nobody is lost between
\* the lookup, the channel and the two dials, and only who comes late is missed.
NobodyPassedOver ==
  \A c \in Client : At(c, "loop") =>
    \A p \in owed[c] : Linked(c, p) \/ p \in missed[c] \/ {p, c} \cap troubled # {}

\* What a client dials is what its search came up with, and never itself.
DialsWhatItFound ==
  \A c \in Client :
    /\ found[c] \subseteq yielded[c]
    /\ dialling[c] # NoPeer => dialling[c] \in yielded[c] \ {c}

\* What is known of others comes from the search and from connections.
KnownWereMet ==
  /\ \A c \in Client : yielded[c] \subseteq peerstore[c]
  /\ \A a, b \in Node : Linked(a, b) => a # b /\ b \in peerstore[a]
  /\ \A s \in sending : s[1] # s[2] /\ s[2] \in peerstore[s[1]]

\* Start-up, search and sends implement the abstract Rendezvous: two processes
\* get connected, directly or over the relay, when one of them has found the
\* other listed, or was connected to it before, in its present life; a process
\* that starts again knows nobody.
Connections == {l \in links : l \subseteq Node}
Met == INSTANCE Rendezvous WITH
  Party <- Node, listed <- record, known <- peerstore, met <- Connections
Promise == Met!RendezvousSpec

\* Whatever cannot be reached, main comes to its loop or ends.
StartupEnds == \A n \in Node : []<>(stage[n] \in {"loop", "dead"})

\* A process in its loop is found in the DHT, again and again, as long as its
\* context and one of its servers are there.
StaysFindable ==
  \A n \in Node : []<>(At(n, "loop") /\ n \in context /\ KnowsServer(n) => n \in record)
=============================================================================
