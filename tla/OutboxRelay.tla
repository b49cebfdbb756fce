---------------------------- MODULE OutboxRelay ----------------------------
(***************************************************************************)
(* The relay of src/src/engine/outbox.ts: drains that read, mark and       *)
(* commit a batch of outbox rows and then hand the events to a publisher,  *)
(* one after the other.                                                    *)
(*                                                                         *)
(* A drain is started by the interval timer of its process, which does not *)
(* wait for the drain before, or called directly; several processes relay  *)
(* from one table.  The rows come from the write path: an event id is      *)
(* drawn first and its row is committed later, so rows can appear out of   *)
(* the order of their ids, or never.                                       *)
(***************************************************************************)
EXTENDS Integers, Sequences, FiniteSets, SequencesExt

CONSTANTS
    Process,        \* processes that relay
    Drain,          \* drains that can be under way at once
    ProcessOf,      \* the process of a drain: [Drain -> Process]
    BatchSize,      \* RelayOptions.batchSize
    MaxEvent,       \* bound on the event ids drawn
    MaxFailures     \* bound on crashes and on drains that fail

ASSUME RelayAssumption ==
    /\ ProcessOf \in [Drain -> Process] /\ BatchSize \in Nat \ {0}
    /\ MaxEvent \in Nat /\ MaxFailures \in Nat

Event == 1 .. MaxEvent

VARIABLES
    row,            \* what became of the posting that drew each event id
    published,      \* rows whose published_at is set and committed
    timer,          \* processes whose interval timer is set
    at,             \* the statement each drain executes next
    batch,          \* the events it has selected, less those it has published
    delivered,      \* the calls of the publisher that returned, in order
    failures,       \* failures so far
    lost            \* history, read by no action: events that a failure took from a
                    \* drain after its COMMIT

vars == <<row, published, timer, at, batch, delivered, failures, lost>>

TypeOK ==
    /\ row \in [Event -> {"none", "drawn", "committed", "rolledBack"}]
    /\ published \subseteq Event /\ timer \subseteq Process
    /\ at \in [Drain -> {"idle", "select", "mark", "commit", "publish"}]
    /\ batch \in [Drain -> SUBSET Event]
    /\ delivered \in Seq(Event) /\ failures \in 0 .. MaxFailures /\ lost \subseteq Event

Init ==
    /\ row = [e \in Event |-> "none"] /\ published = {} /\ timer = {}
    /\ at = [d \in Drain |-> "idle"] /\ batch = [d \in Drain |-> {}]
    /\ delivered = <<>> /\ failures = 0 /\ lost = {}

-----------------------------------------------------------------------------
(***************************************************************************)
(* The write path, as the relay sees it.                                   *)
(***************************************************************************)
DrawEvent ==
    /\ \E e \in Event :
          /\ row[e] = "none" /\ \A f \in 1 .. e - 1 : row[f] # "none"
          /\ row' = [row EXCEPT ![e] = "drawn"]
    /\ UNCHANGED <<published, timer, at, batch, delivered, failures, lost>>

EndPosting ==
    /\ \E e \in Event, outcome \in {"committed", "rolledBack"} :
          row[e] = "drawn" /\ row' = [row EXCEPT ![e] = outcome]
    /\ UNCHANGED <<published, timer, at, batch, delivered, failures, lost>>

(***************************************************************************)
(* The relay.                                                              *)
(***************************************************************************)
\* start() and stop(): a timer that is set stays set.
Start(p) == timer' = timer \cup {p} /\ UNCHANGED <<row, published, at, batch, delivered, failures, lost>>
Stop(p) == timer' = timer \ {p} /\ UNCHANGED <<row, published, at, batch, delivered, failures, lost>>

\* The interval elapses, and drain() begins its transaction.
Tick(d) ==
    /\ ProcessOf[d] \in timer /\ at[d] = "idle"
    /\ at' = [at EXCEPT ![d] = "select"]
    /\ UNCHANGED <<row, published, timer, batch, delivered, failures, lost>>

\* Rows that another drain's open transaction has locked.
Locked(d) == UNION {batch[e] : e \in {f \in Drain \ {d} : at[f] \in {"mark", "commit"}}}

\* Fault: rows are read without FOR UPDATE.
PendingUnlocked(d) == {e \in Event : row[e] = "committed" /\ e \notin published}

\* Fault: the relay remembers how far it has read instead of reading what is unpublished.
PendingByCursor(d) ==
    {e \in Event : /\ row[e] = "committed" /\ e \notin Locked(d)
                   /\ \A f \in published : f < e}

\* WHERE published_at IS NULL ... FOR UPDATE SKIP LOCKED
Pending(d) == {e \in Event : row[e] = "committed" /\ e \notin published /\ e \notin Locked(d)}

\* Fault: positions in the result, counted from 0, are taken for event ids.
FirstBatchByPosition(S) ==
    {n \in 0 .. BatchSize - 1 : n < Cardinality(S)}

\* ORDER BY event_id LIMIT batchSize
FirstBatch(S) == {e \in S : Cardinality({f \in S : f < e}) < BatchSize}

Select(d) ==
    /\ at[d] = "select"
    /\ batch' = [batch EXCEPT ![d] = FirstBatch(Pending(d))]
    /\ at' = [at EXCEPT ![d] = IF Pending(d) = {} THEN "commit" ELSE "mark"]
    /\ UNCHANGED <<row, published, timer, delivered, failures, lost>>

\* UPDATE outbox SET published_at = now(): seen by others after the commit.
Mark(d) ==
    /\ at[d] = "mark"
    /\ at' = [at EXCEPT ![d] = "commit"]
    /\ UNCHANGED <<row, published, timer, batch, delivered, failures, lost>>

\* Fault: the loop ends after one event.
AfterFirstStop(d) == "idle"

\* The drain's own place after it handed the first of its events over.
AfterFirst(d) == IF Cardinality(batch[d]) = 1 THEN "idle" ELSE "publish"

Commit(d) ==
    /\ at[d] = "commit"
    /\ published' = published \cup batch[d]
    /\ at' = [at EXCEPT ![d] = IF batch[d] = {} THEN "idle" ELSE "publish"]
    /\ UNCHANGED <<row, timer, batch, delivered, failures, lost>>

\* await this.publish(event), for the first of the rows that is left
Publish(d) ==
    /\ at[d] = "publish"
    /\ \E e \in batch[d] :
          /\ \A f \in batch[d] : e <= f
          /\ delivered' = Append(delivered, e)
          /\ batch' = [batch EXCEPT ![d] = @ \ {e}]
    /\ at' = [at EXCEPT ![d] = AfterFirst(d)]
    /\ UNCHANGED <<row, published, timer, failures, lost>>

\* Drains end where they are: the database rolls back what they had open, and what
\* they had marked and not handed over nobody selects again.
FailDrains(D) ==
    /\ failures < MaxFailures /\ failures' = failures + 1
    /\ at' = [d \in Drain |-> IF d \in D THEN "idle" ELSE at[d]]
    /\ batch' = [d \in Drain |-> IF d \in D THEN {} ELSE batch[d]]
    /\ lost' = lost \cup UNION {batch[d] : d \in {e \in D : at[e] = "publish"}}
    /\ UNCHANGED <<row, published, delivered>>

\* A statement fails or publish() throws: drain() rejects, the timer's handler logs it.
DrainFails(d) == at[d] # "idle" /\ FailDrains({d}) /\ UNCHANGED timer

\* The process dies, and its timer and its drains with it.
Crash(p) == timer' = timer \ {p} /\ FailDrains({d \in Drain : ProcessOf[d] = p})

Step(d) == Select(d) \/ Mark(d) \/ Commit(d) \/ Publish(d)

Next ==
    \/ DrawEvent \/ EndPosting
    \/ \E p \in Process : Start(p) \/ Stop(p) \/ Crash(p)
    \/ \E d \in Drain : Tick(d) \/ Step(d) \/ DrainFails(d)

Spec == Init /\ [][Next]_vars

\* A drain awaits its statements and its publisher, and an interval timer fires
\* as long as it is set.
FairSpec == Spec /\ \A d \in Drain : WF_vars(Tick(d) \/ Step(d))

-----------------------------------------------------------------------------
\* An event is handed over at most once, by whichever drain, after its posting
\* was committed: SKIP LOCKED keeps concurrent drains apart and a marked row is
\* never read again (outbox.ts:40-81).
AtMostOnceAfterCommit ==
    /\ \A i, j \in DOMAIN delivered : delivered[i] = delivered[j] => i = j
    /\ \A i \in DOMAIN delivered : row[delivered[i]] = "committed"

\* A row that is marked was delivered, is in the hands of a drain that has committed
\* it, or was taken from one by a failure, and then it is never delivered: this is
\* what marking before publishing can lose, and all of it (outbox.ts:67-79).
MarkedIsAccountedFor ==
    /\ \A e \in published :
          \/ e \in ToSet(delivered) \cup lost
          \/ \E d \in Drain : at[d] = "publish" /\ e \in batch[d]
    /\ lost \cap ToSet(delivered) = {}

\* While a process keeps relaying in the end, every committed event is handed over
\* in the end, unless a failure took it from a drain after its COMMIT: also one whose
\* row appears after rows with later ids, and one whose drain failed before its COMMIT
\* (outbox.ts:40-91).  Both sets only grow, so this is row[e] = "committed" ~> e \in
\* ToSet(delivered) \cup lost, in a form that TLC checks quickly.
DeliveredUnlessLost ==
    (\E p \in Process : <>[](p \in timer)) =>
        \A e \in Event : []<>(row[e] = "committed" => e \in ToSet(delivered) \cup lost)

\* "At-least-once delivery ... A crash between commit and publish loses nothing: the
\* row is still unpublished" (outbox.ts:6-8): as long as a process relays in the end,
\* every committed event is handed over, whatever failed.
AtLeastOnce ==
    (\E p \in Process : <>[](p \in timer)) =>
        \A e \in Event : row[e] = "committed" ~> e \in ToSet(delivered)
=============================================================================
