---------------------------- MODULE RequestTable ----------------------------
(***************************************************************************)
(* What the signed ping protocol (src/protocols/customprotocol.go)         *)
(* promises to those who call Ping, and src/ping to those who call its     *)
(* request functions: a request is pending from the call to its answer, it *)
(* is answered at most once and only after its peer has sent the answer,   *)
(* and only a process that starts again forgets what it has asked.         *)
(***************************************************************************)

CONSTANT Request                \* the calls

VARIABLES
  status,                       \* what has become of each request
  served                        \* the requests that their peer has answered

tableVars == <<status, served>>

Status == {"new", "pending", "answered", "forgotten"}

TableInit ==
  /\ status = [q \in Request |-> "new"]
  /\ served = {}

Ask(q) ==
  /\ status[q] = "new"
  /\ status' = [status EXCEPT ![q] = "pending"]
  /\ UNCHANGED served

Serve(q) ==
  /\ status[q] # "new" /\ q \notin served
  /\ served' = served \cup {q}
  /\ UNCHANGED status

Answer(q) ==
  /\ status[q] = "pending" /\ q \in served
  /\ status' = [status EXCEPT ![q] = "answered"]
  /\ UNCHANGED served

Forget(S) ==
  /\ S \subseteq {q \in Request : status[q] = "pending"}
  /\ status' = [q \in Request |-> IF q \in S THEN "forgotten" ELSE status[q]]
  /\ UNCHANGED served

TableNext ==
  \/ \E q \in Request : Ask(q) \/ Serve(q) \/ Answer(q)
  \/ \E S \in SUBSET Request : Forget(S)

TableSpec == TableInit /\ [][TableNext]_tableVars
=============================================================================
