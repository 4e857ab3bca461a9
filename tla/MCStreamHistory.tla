-------------------------- MODULE MCStreamHistory --------------------------
(* Values for the constants of StreamControl and StreamHistory: six        *)
(* requests in flight, all but one at the same process.                    *)
EXTENDS StreamHistory

CONSTANTS n1, n2, start1, start2, stop1, stop2, status1, start3

MCNode == {n1, n2}
MCCall == {start1, start2, start3, stop1, stop2, status1}
MCHome == [c \in Call |-> IF c = start3 THEN n2 ELSE n1]
MCOp == [c \in Call |-> IF c \in {start1, start2, start3} THEN "start"
                        ELSE IF c \in {stop1, stop2} THEN "stop" ELSE "status"]
=============================================================================
