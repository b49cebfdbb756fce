------------------------------ MODULE Startup ------------------------------
(***************************************************************************)
(* The life of a server process around the relay: startServer              *)
(* (src/src/http/server.ts) creates the ledger, whose migrate()            *)
(* (src/src/db/open.ts) brings the schema up to date statement by          *)
(* statement, and then starts the relay.  Several processes share one      *)
(* database and may start at once; a process can die at any point.         *)
(*                                                                         *)
(* The scripts of src/migrations are plain CREATEs, each executed as one   *)
(* implicit transaction: a script that was applied fails when it is        *)
(* executed again, and so does one whose predecessor is missing.           *)
(***************************************************************************)
EXTENDS OutboxRelay

CONSTANT Files      \* the migration scripts are 1 .. Files, in filename order

ASSUME FilesAssumption == Files \in Nat

File == 1 .. Files

VARIABLES
    table,          \* schema_migrations exists
    applied,        \* scripts that were executed and committed
    recorded,       \* names in schema_migrations
    boot,           \* how far each process has come
    todo            \* the files it has still to apply

bootVars == <<table, applied, recorded, boot, todo>>
systemVars == <<vars, bootVars>>

Booting == {"table", "tableAbsent", "names", "script", "row"}

BootTypeOK ==
    /\ TypeOK
    /\ table \in BOOLEAN /\ applied \subseteq File /\ recorded \subseteq File
    /\ boot \in [Process -> Booting \cup {"off", "up"}]
    /\ todo \in [Process -> SUBSET File]

BootInit ==
    /\ Init
    /\ table = FALSE /\ applied = {} /\ recorded = {}
    /\ boot = [p \in Process |-> "off"] /\ todo = [p \in Process |-> {}]

Reach(p, place) == boot' = [boot EXCEPT ![p] = place]

-----------------------------------------------------------------------------
(***************************************************************************)
(* migrate().  When it throws, so does startServer, and the process exits. *)
(***************************************************************************)
Exit(p) == Reach(p, "off") /\ todo' = [todo EXCEPT ![p] = {}]

\* Drains of the process are under way.
Draining(p) == \E d \in Drain : ProcessOf[d] = p /\ at[d] # "idle"

\* A process starts again once the drains that close() left under way have ended.
StartServer(p) ==
    /\ boot[p] = "off" /\ ~Draining(p) /\ Reach(p, "table")
    /\ UNCHANGED <<table, applied, recorded, todo>>

\* CREATE TABLE IF NOT EXISTS looks first and creates then: of two that find no
\* table, the later one fails on a unique index of the catalogue.
LookForTable(p) ==
    /\ boot[p] = "table"
    /\ Reach(p, IF table THEN "names" ELSE "tableAbsent")
    /\ UNCHANGED <<table, applied, recorded, todo>>

CreateTable(p) ==
    /\ boot[p] = "tableAbsent"
    /\ table' = TRUE
    /\ IF table THEN Exit(p) ELSE Reach(p, "names") /\ UNCHANGED todo
    /\ UNCHANGED <<applied, recorded>>

\* Fault: applied files are not skipped.
ReadAppliedIgnored(p) ==
    /\ boot[p] = "names"
    /\ todo' = [todo EXCEPT ![p] = File]
    /\ Reach(p, "script")
    /\ UNCHANGED <<table, applied, recorded>>

\* The files that are not recorded yet.
ReadApplied(p) ==
    /\ boot[p] = "names"
    /\ todo' = [todo EXCEPT ![p] = File \ recorded]
    /\ Reach(p, "script")
    /\ UNCHANGED <<table, applied, recorded>>

\* The file whose turn it is: the files are sorted.
IsNext(p, f) == f \in todo[p] /\ \A g \in todo[p] : f <= g

\* Fault: the script is not awaited.
ExecScriptNotAwaited(p) ==
    /\ boot[p] = "script"
    /\ \E f \in File : IsNext(p, f) /\ applied' \in {applied, applied \cup {f}}
    /\ Reach(p, "row") /\ UNCHANGED <<table, recorded, todo>>

ExecScript(p) ==
    /\ boot[p] = "script"
    /\ \E f \in File :
          /\ IsNext(p, f)
          /\ IF f \notin applied /\ 1 .. f - 1 \subseteq applied
             THEN applied' = applied \cup {f} /\ Reach(p, "row") /\ UNCHANGED todo
             ELSE Exit(p) /\ UNCHANGED applied
    /\ UNCHANGED <<table, recorded>>

\* The row of the script just executed, in a transaction of its own.
InsertRow(p) ==
    /\ boot[p] = "row"
    /\ \E f \in File :
          /\ IsNext(p, f)
          /\ recorded' = recorded \cup {f}
          /\ todo' = [todo EXCEPT ![p] = @ \ {f}]
    /\ Reach(p, "script") /\ UNCHANGED <<table, applied>>

Migrate(p) ==
    LookForTable(p) \/ CreateTable(p) \/ ReadApplied(p) \/ ExecScript(p) \/ InsertRow(p)

-----------------------------------------------------------------------------
\* migrate() returned: relay.start() and listen().
Serve(p) ==
    /\ boot[p] = "script" /\ todo[p] = {} /\ Start(p)
    /\ Reach(p, "up") /\ UNCHANGED <<table, applied, recorded, todo>>

\* relay.stop() and Ledger.close(): the drains under way go on.
Close(p) ==
    /\ boot[p] = "up" /\ Stop(p) /\ Exit(p)
    /\ UNCHANGED <<table, applied, recorded>>

\* The process is killed, or listen() fails on a port in use, which exits it too.
Die(p) ==
    /\ boot[p] # "off" \/ Draining(p)
    /\ Crash(p) /\ Exit(p)
    /\ UNCHANGED <<table, applied, recorded>>

\* A process that is up serves the calls that post, and relays.
Work ==
    \/ (\E p \in Process : boot[p] = "up") /\ DrawEvent
    \/ EndPosting
    \/ \E p \in Process : boot[p] = "up" /\ (Start(p) \/ Stop(p))
    \/ \E d \in Drain : Tick(d) \/ Step(d) \/ DrainFails(d)

BootNext ==
    \/ \E p \in Process : (StartServer(p) \/ Migrate(p)) /\ UNCHANGED vars
    \/ \E p \in Process : Serve(p) \/ Close(p) \/ Die(p)
    \/ Work /\ UNCHANGED bootVars

BootSpec == BootInit /\ [][BootNext]_systemVars

\* The program awaits each statement of migrate() and goes on; drains as in FairSpec.
BootFairSpec ==
    /\ BootSpec
    /\ \A p \in Process : WF_systemVars((Migrate(p) /\ UNCHANGED vars) \/ Serve(p))
    /\ \A d \in Drain : WF_systemVars((Tick(d) \/ Step(d)) /\ UNCHANGED bootVars)

-----------------------------------------------------------------------------
\* A script whose row was not written and will not be: its process died in between.
Orphan(f) ==
    f \in applied \ recorded /\ \A p \in Process : boot[p] = "row" => ~IsNext(p, f)

\* "in filename order, exactly once" (open.ts:99): what is recorded was executed, one
\* script at a time and in order, however many processes start and die; and nobody
\* serves or relays before all of it is (open.ts:108-126, server.ts:238-249).
MigratedInOrder ==
    /\ recorded \subseteq applied
    /\ \A f \in applied : 1 .. f - 1 \subseteq applied
    /\ \A f \in applied \ recorded : f + 1 \notin applied
    /\ \A p \in Process : boot[p] = "up" \/ p \in timer => recorded = File
    /\ \A d \in Drain : at[d] # "idle" => recorded = File

\* A process that starts again and again, alone in the end, serves again and again,
\* whatever failed before - unless somebody died between a script and its row: that
\* script then fails at every start (open.ts:123-124).
RestartsServe ==
    \A p \in Process :
        /\ <>[](\A f \in File : ~Orphan(f))
        /\ <>[](\A q \in Process \ {p} : boot[q] = "off")
        /\ []<>(boot[p] # "off")
        => []<>(boot[p] = "up")
=============================================================================
