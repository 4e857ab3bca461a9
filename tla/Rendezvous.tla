----------------------------- MODULE Rendezvous -----------------------------
(***************************************************************************)
(* What the programs that look each other up in the DHT promise (the node  *)
(* runner and the mobile client, src/node_runner/main.go and               *)
(* src/mobile_client/main.go, and the chat client, src/chat/main.go): a    *)
(* party finds only parties that are listed at that time, and two parties  *)
(* get connected only when one of them knows the other, because it has     *)
(* found it or was connected to it before. How they dial, what they try    *)
(* and what fails is left open.                                            *)
(***************************************************************************)
EXTENDS TLAPS

CONSTANT Party                  \* the processes that look for each other

VARIABLES
  listed,                       \* whom the DHT lists
  known,                        \* whom each party knows, since it started
  met,                          \* the pairs that are connected
  introduced                    \* [history] the pairs of which one found the other

rendezvousVars == <<listed, known, met, introduced>>

RendezvousInit ==
  /\ listed = {}
  /\ known = [p \in Party |-> {}]
  /\ met = {}
  /\ introduced = {}

Enlist(p) == listed' = listed \cup {p} /\ UNCHANGED <<known, met, introduced>>

Unlist(p) == listed' = listed \ {p} /\ UNCHANGED <<known, met, introduced>>

Find(p, q) ==
  /\ q \in listed
  /\ known' = [known EXCEPT ![p] = @ \cup {q}]
  /\ introduced' = introduced \cup {{p, q}}
  /\ UNCHANGED <<listed, met>>

\* Either end may open the connection, if it knows the other; both do then.
Meet(p, q) ==
  /\ p # q
  /\ q \in known[p]
  /\ met' = met \cup {{p, q}}
  /\ known' = [known EXCEPT ![p] = @ \cup {q}, ![q] = @ \cup {p}]
  /\ UNCHANGED <<listed, introduced>>

\* One connection is lost, or all those of a process that ends.
Part(S) ==
  /\ S \subseteq met
  /\ met' = met \ S
  /\ UNCHANGED <<listed, known, introduced>>

\* A process ends with all that it knows; a record of it may stay, and others
\* know it still.
Leave(p) ==
  /\ known' = [known EXCEPT ![p] = {}]
  /\ met' = {pair \in met : p \notin pair}
  /\ UNCHANGED <<listed, introduced>>

RendezvousNext ==
  \/ \E p \in Party : Enlist(p) \/ Unlist(p) \/ Leave(p)
  \/ \E p, q \in Party : Find(p, q) \/ Meet(p, q)
  \/ \E S \in SUBSET met : Part(S)

RendezvousSpec == RendezvousInit /\ [][RendezvousNext]_rendezvousVars

-----------------------------------------------------------------------------
(* What this means for those who are connected.                            *)

RendezvousTypeOK == known \in [Party -> SUBSET Party] /\ listed \subseteq Party

\* Who knows another has found it, or was found by it, in this life or before.
KnownWereFound == \A p \in Party : \A q \in known[p] : {p, q} \in introduced

\* Of two parties that are connected one has once found the other.
MetWereFound == met \subseteq introduced

(* However often connections are lost and made again, and whoever starts   *)
(* again meanwhile: all acquaintance begins with a party that found the    *)
(* other in the DHT. Whoever keeps the promise has this invariant.         *)
THEOREM MetWereFoundHolds == RendezvousSpec => []MetWereFound
<1>. DEFINE Inv == RendezvousTypeOK /\ KnownWereFound /\ MetWereFound
<1>1. RendezvousInit => Inv
  BY DEF RendezvousInit, RendezvousTypeOK, KnownWereFound, MetWereFound
<1>2. Inv /\ [RendezvousNext]_rendezvousVars => Inv'
  <2>. SUFFICES ASSUME Inv, [RendezvousNext]_rendezvousVars
                PROVE  Inv'
    OBVIOUS
  <2>. USE DEF RendezvousTypeOK, KnownWereFound, MetWereFound
  <2>1. ASSUME NEW p \in Party, Enlist(p) \/ Unlist(p)
        PROVE  Inv'
    BY <2>1 DEF Enlist, Unlist
  <2>2. ASSUME NEW p \in Party, Leave(p)
        PROVE  Inv'
    BY <2>2 DEF Leave
  <2>3. ASSUME NEW p \in Party, NEW q \in Party, Find(p, q)
        PROVE  Inv'
    BY <2>3 DEF Find
  <2>4. ASSUME NEW p \in Party, NEW q \in Party, Meet(p, q)
        PROVE  Inv'
    <3>1. {p, q} = {q, p} /\ {p, q} \in introduced
      BY <2>4 DEF Meet
    <3>2. \A r \in Party : known'[r] \subseteq known[r] \cup (IF r = p THEN {q} ELSE {})
                                                       \cup (IF r = q THEN {p} ELSE {})
      BY <2>4 DEF Meet
    <3>. QED
      BY <2>4, <3>1, <3>2 DEF Meet
  <2>5. ASSUME NEW S, Part(S)
        PROVE  Inv'
    BY <2>5 DEF Part
  <2>6. CASE UNCHANGED rendezvousVars
    BY <2>6 DEF rendezvousVars
  <2>. QED
    BY <2>1, <2>2, <2>3, <2>4, <2>5, <2>6 DEF RendezvousNext
<1>. QED
  BY <1>1, <1>2, PTL DEF RendezvousSpec
=============================================================================
