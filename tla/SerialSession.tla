--------------------------- MODULE SerialSession ---------------------------
(***************************************************************************)
(* What the embedded database promises its callers (the header of          *)
(* src/src/db/pglite-dialect.ts: "fully serial execution"): a job, one     *)
(* transaction or one statement outside any, takes effect at one instant   *)
(* or not at all, and its caller is told which.                            *)
(***************************************************************************)
CONSTANTS
    Client,         \* jobs, one for each caller
    RowsOf(_)       \* the rows a job writes

VARIABLES
    database,       \* the committed rows
    answer          \* what each caller was told: "none", "ok" or "error"

vars == <<database, answer>>

Init == database = {} /\ answer = [c \in Client |-> "none"]

\* The whole job at once.
Perform(c) ==
    /\ answer[c] = "none" /\ RowsOf(c) \cap database = {}
    /\ database' = database \cup RowsOf(c)
    /\ UNCHANGED answer

Accept(c) ==
    /\ answer[c] = "none" /\ RowsOf(c) \subseteq database
    /\ answer' = [answer EXCEPT ![c] = "ok"]
    /\ UNCHANGED database

Reject(c) ==
    /\ answer[c] = "none" /\ RowsOf(c) \cap database = {}
    /\ answer' = [answer EXCEPT ![c] = "error"]
    /\ UNCHANGED database

Next == \E c \in Client : Perform(c) \/ Accept(c) \/ Reject(c)

Spec == Init /\ [][Next]_vars
=============================================================================
