------------------------------ MODULE SkuOracle ------------------------------
(***************************************************************************)
(* What internal/vmcapabilities promises to the handlers that ask it about *)
(* a VM type: a question is answered at some later point, a type is        *)
(* reported as found only if Azure offers it in that location, and every   *)
(* other answer denies the request.  A restart of the controller drops     *)
(* the questions that are open.                                            *)
(***************************************************************************)
CONSTANTS
    Callers,     \* the handlers, each a goroutine of its own
    Queries,     \* the questions: records with a location and a VM type
    Offered      \* the VM types Azure offers in each location

VARIABLES
    open,        \* the callers that wait for an answer
    query,       \* the last question of each caller
    answer       \* the answer to it

vars == <<open, query, answer>>

Denials == {"unknown", "failed", "empty"}

Init ==
    /\ open = {}
    /\ query \in [Callers -> Queries]
    /\ answer = [c \in Callers |-> "none"]

Ask(c, q) ==
    /\ c \notin open
    /\ open' = open \cup {c}
    /\ query' = [query EXCEPT ![c] = q]
    /\ answer' = [answer EXCEPT ![c] = "none"]

Reply(c) ==
    /\ c \in open
    /\ open' = open \ {c}
    /\ \E a \in Denials \cup {"found"} :
          /\ a = "found" => query[c].type \in Offered[query[c].location]
          /\ answer' = [answer EXCEPT ![c] = a]
    /\ UNCHANGED query

Restart ==
    /\ open' = {}
    /\ answer' = [c \in Callers |-> "none"]
    /\ UNCHANGED query

Next ==
    \/ \E c \in Callers : Reply(c) \/ \E q \in Queries : Ask(c, q)
    \/ Restart

Spec == Init /\ [][Next]_vars
=============================================================================
