--------------------------- MODULE Startup_proofs ---------------------------
(***************************************************************************)
(* Theorems about the relay and the life of the processes around it, for   *)
(* any number of processes, drains, events, failures and migration files.  *)
(*                                                                         *)
(* Startup only restricts the relay (BootRefinesRelay), so what holds of   *)
(* OutboxRelay holds there too.  The relay's invariant says where every    *)
(* event is: selected by one drain, marked by one, handed over once.       *)
(***************************************************************************)
EXTENDS Startup, FiniteSetTheorems, TLAPS

Marking == {"mark", "commit"}
AtRest == {"idle", "select"}

\* Each batch belongs to one drain; before the commit its rows are committed by their
\* postings and not published, after it they are published and not handed over.
BatchInv ==
    /\ \A d \in Drain : at[d] \in AtRest => batch[d] = {}
    /\ \A d, e \in Drain : d # e => batch[d] \cap batch[e] = {}
    /\ \A d \in Drain : at[d] \in Marking =>
          batch[d] \cap published = {} /\ \A e \in batch[d] : row[e] = "committed"
    /\ \A d \in Drain : at[d] = "publish" =>
          /\ batch[d] \subseteq published
          /\ batch[d] \cap ToSet(delivered) = {} /\ batch[d] \cap lost = {}

DeliveryInv ==
    /\ ToSet(delivered) \subseteq published /\ lost \subseteq published
    /\ \A e \in published : row[e] = "committed"
    /\ \A i, j \in DOMAIN delivered : delivered[i] = delivered[j] => i = j

RelayInv == TypeOK /\ BatchInv /\ DeliveryInv /\ MarkedIsAccountedFor

-----------------------------------------------------------------------------
\* A call of the publisher is one more delivery (outbox.ts:78).
LEMMA AppendDelivered ==
    ASSUME NEW s \in Seq(Event), NEW e \in Event, e \notin ToSet(s),
           \A i, j \in DOMAIN s : s[i] = s[j] => i = j
    PROVE  /\ Append(s, e) \in Seq(Event) /\ ToSet(Append(s, e)) = ToSet(s) \cup {e}
           /\ \A i, j \in DOMAIN Append(s, e) : Append(s, e)[i] = Append(s, e)[j] => i = j
<1> DEFINE t == Append(s, e)
           n == Len(s)
<1>1. n \in Nat /\ DOMAIN s = 1 .. n /\ DOMAIN t = 1 .. n + 1 /\ t \in Seq(Event) OBVIOUS
<1>2. t[n + 1] = e /\ \A i \in 1 .. n : t[i] = s[i] OBVIOUS
<1> HIDE DEF t, n
<1>3. \A i \in 1 .. n + 1 : i = n + 1 \/ i \in 1 .. n BY <1>1
<1>4. \A i \in 1 .. n : s[i] # e BY <1>1 DEF ToSet
<1>5. \A i, j \in DOMAIN t : t[i] = t[j] => i = j
  <2> SUFFICES ASSUME NEW i \in 1 .. n + 1, NEW j \in 1 .. n + 1, t[i] = t[j] PROVE i = j
    BY <1>1
  <2>1. CASE i \in 1 .. n /\ j \in 1 .. n BY <2>1, <1>1, <1>2
  <2>2. CASE i = n + 1 \/ j = n + 1 BY <2>2, <1>1, <1>2, <1>3, <1>4
  <2>3. QED BY <1>3, <2>1, <2>2
<1>6. ToSet(t) = ToSet(s) \cup {e}
  <2>1. ASSUME NEW x \in ToSet(t) PROVE x \in ToSet(s) \cup {e}
    <3>1. PICK i \in 1 .. n + 1 : t[i] = x BY <1>1 DEF ToSet
    <3>2. QED BY <3>1, <1>1, <1>2, <1>3 DEF ToSet
  <2>2. ASSUME NEW x \in ToSet(s) PROVE x \in ToSet(t)
    <3>1. PICK i \in 1 .. n : s[i] = x BY <1>1 DEF ToSet
    <3>2. i \in DOMAIN t /\ t[i] = x BY <3>1, <1>1, <1>2
    <3>3. QED BY <3>2 DEF ToSet
  <2>3. e \in ToSet(t)
    <3>1. n + 1 \in DOMAIN t BY <1>1
    <3>2. QED BY <3>1, <1>2 DEF ToSet
  <2>4. QED BY <2>1, <2>2, <2>3
<1>7. QED BY <1>1, <1>5, <1>6 DEF t

\* A drain that has one event left and hands it over has none left (outbox.ts:78).
LEMMA LastOfBatch ==
    ASSUME NEW S \in SUBSET Event, NEW e \in S, Cardinality(S) = 1
    PROVE  S \ {e} = {}
<1>1. IsFiniteSet(Event) BY RelayAssumption, FS_Interval DEF Event
<1>2. IsFiniteSet(S) BY <1>1, FS_Subset
<1>3. PICK x : S = {x} BY <1>2, FS_Singleton
<1>4. QED BY <1>3

\* A batch consists of pending rows (the SELECT of outbox.ts:51-57).
LEMMA BatchIsPending ==
    ASSUME NEW d \in Drain
    PROVE  FirstBatch(Pending(d)) \subseteq Pending(d)
BY DEF FirstBatch

\* The initial state of the relay.
LEMMA InitRelay == Init => RelayInv
<1> SUFFICES ASSUME Init PROVE RelayInv OBVIOUS
<1> USE DEF Init
<1>1. TypeOK
  <2>1. failures \in 0 .. MaxFailures BY RelayAssumption
  <2>2. delivered \in Seq(Event) OBVIOUS
  <2>3. row \in [Event -> {"none", "drawn", "committed", "rolledBack"}] OBVIOUS
  <2>4. QED BY <2>1, <2>2, <2>3 DEF TypeOK
<1>2. ToSet(delivered) = {} BY DEF ToSet
<1>3. BatchInv BY <1>2 DEF BatchInv, AtRest, Marking
<1>4. DeliveryInv BY <1>2 DEF DeliveryInv
<1>5. MarkedIsAccountedFor BY DEF MarkedIsAccountedFor
<1>6. QED BY <1>1, <1>3, <1>4, <1>5 DEF RelayInv

-----------------------------------------------------------------------------
\* What happens to a row leaves the relay's invariant alone: committed rows stay
\* (post.ts:216-250).
LEMMA RowStep ==
    ASSUME RelayInv, row' \in [Event -> {"none", "drawn", "committed", "rolledBack"}],
           \A e \in Event : row[e] = "committed" => row'[e] = "committed",
           UNCHANGED <<published, at, batch, delivered, failures, lost>>, timer' \subseteq Process
    PROVE  RelayInv'
<1> USE DEF RelayInv
<1>1. TypeOK' BY DEF TypeOK
<1>2. BatchInv' BY DEF BatchInv, TypeOK, ToSet
<1>3. DeliveryInv' BY DEF DeliveryInv, TypeOK, ToSet
<1>4. MarkedIsAccountedFor' BY DEF MarkedIsAccountedFor, ToSet
<1>5. QED BY <1>1, <1>2, <1>3, <1>4

\* Drains that lose their batch and fall idle, a failure (outbox.ts:86, a crash).
LEMMA FailureStep ==
    ASSUME RelayInv, NEW D \in SUBSET Drain, failures < MaxFailures, failures' = failures + 1,
           at' = [d \in Drain |-> IF d \in D THEN "idle" ELSE at[d]],
           batch' = [d \in Drain |-> IF d \in D THEN {} ELSE batch[d]],
           lost' = lost \cup UNION {batch[d] : d \in {e \in D : at[e] = "publish"}},
           timer' \subseteq Process, UNCHANGED <<row, published, delivered>>
    PROVE  RelayInv'
<1> USE DEF RelayInv
<1>1. failures' \in 0 .. MaxFailures BY RelayAssumption DEF TypeOK
<1>2. TypeOK' BY <1>1 DEF TypeOK
<1>3. \A d \in Drain : (d \in D => at'[d] = "idle" /\ batch'[d] = {})
                       /\ (d \notin D => at'[d] = at[d] /\ batch'[d] = batch[d])
  OBVIOUS
<1>4. "idle" \notin Marking /\ "idle" \in AtRest BY DEF Marking, AtRest
<1>5. \A x \in lost' : x \in lost \/ \E d \in D : at[d] = "publish" /\ x \in batch[d]
  OBVIOUS
<1>6. lost' \subseteq published /\ lost' \cap ToSet(delivered) = {}
  BY <1>5 DEF BatchInv, DeliveryInv, MarkedIsAccountedFor
<1>7. BatchInv'
  <2>1. \A d \in Drain : at'[d] \in AtRest => batch'[d] = {} BY <1>3 DEF BatchInv
  <2>2. \A d, e \in Drain : d # e => batch'[d] \cap batch'[e] = {} BY <1>3 DEF BatchInv
  <2>3. \A d \in Drain : at'[d] \in Marking =>
           batch'[d] \cap published = {} /\ \A e \in batch'[d] : row[e] = "committed"
    BY <1>3 DEF BatchInv
  <2>4. \A d \in Drain : at'[d] = "publish" =>
           batch'[d] \subseteq published /\ batch'[d] \cap ToSet(delivered) = {}
    BY <1>3 DEF BatchInv
  <2>5. ASSUME NEW d \in Drain, at'[d] = "publish" PROVE batch'[d] \cap lost' = {}
    <3>1. d \notin D /\ at[d] = "publish" /\ batch'[d] = batch[d] BY <2>5, <1>3
    <3>2. batch[d] \cap lost = {} BY <3>1 DEF BatchInv
    <3>3. \A e \in D : batch[d] \cap batch[e] = {} BY <3>1 DEF BatchInv
    <3>4. QED BY <3>1, <3>2, <3>3, <1>5
  <2>6. QED BY <2>1, <2>2, <2>3, <2>4, <2>5 DEF BatchInv, ToSet
<1>8. DeliveryInv' BY <1>6 DEF DeliveryInv, ToSet
<1>9. MarkedIsAccountedFor'
  <2>1. ASSUME NEW e \in published, e \notin ToSet(delivered) \cup lost'
        PROVE  \E d \in Drain : at'[d] = "publish" /\ e \in batch'[d]
    <3>1. PICK d \in Drain : at[d] = "publish" /\ e \in batch[d]
      BY <2>1 DEF MarkedIsAccountedFor
    <3>2. d \notin D BY <3>1, <2>1
    <3>3. QED BY <3>1, <3>2, <1>3
  <2>2. QED BY <2>1, <1>6 DEF MarkedIsAccountedFor, ToSet
<1>10. QED BY <1>2, <1>7, <1>8, <1>9

\* The transaction of a drain: BEGIN ... SELECT (outbox.ts:40-64).
LEMMA SelectStep ==
    ASSUME RelayInv, NEW d \in Drain, Select(d)
    PROVE  RelayInv'
<1> USE DEF RelayInv
<1> DEFINE B == FirstBatch(Pending(d))
<1>1. at[d] = "select" /\ batch' = [batch EXCEPT ![d] = B]
      /\ UNCHANGED <<row, published, timer, delivered, failures, lost>>
  BY DEF Select
<1>2. PICK s \in {"mark", "commit"} :
         at' = [at EXCEPT ![d] = s]
  BY DEF Select
<1>3. B \subseteq Event /\ B \cap published = {} /\ B \cap Locked(d) = {}
      /\ \A e \in B : row[e] = "committed"
  BY BatchIsPending DEF Pending
<1> HIDE DEF B
<1>4. at'[d] = s /\ batch'[d] = B
      /\ \A e \in Drain \ {d} : at'[e] = at[e] /\ batch'[e] = batch[e]
  BY <1>1, <1>2 DEF TypeOK
<1>5. \A e \in Drain \ {d} : at[e] \in AtRest \cup Marking => batch[e] \cap B = {}
  BY <1>3 DEF BatchInv, Locked, Marking, AtRest
<1>6. \A e \in Drain \ {d} : at[e] = "publish" => batch[e] \cap B = {}
  BY <1>3 DEF BatchInv
<1>7. \A e \in Drain \ {d} : batch[e] \cap B = {}
  BY <1>5, <1>6 DEF TypeOK, AtRest, Marking
<1>8. TypeOK' BY <1>1, <1>2, <1>3 DEF TypeOK
<1>9. BatchInv'
  <2>1. \A e \in Drain : at'[e] \in AtRest => batch'[e] = {}
    BY <1>2, <1>4 DEF BatchInv, AtRest
  <2>2. \A e, f \in Drain : e # f => batch'[e] \cap batch'[f] = {}
    BY <1>4, <1>7 DEF BatchInv
  <2>3. \A e \in Drain : at'[e] \in Marking =>
           batch'[e] \cap published = {} /\ \A f \in batch'[e] : row[f] = "committed"
    BY <1>3, <1>4 DEF BatchInv
  <2>4. \A e \in Drain : at'[e] = "publish" =>
           /\ batch'[e] \subseteq published
           /\ batch'[e] \cap ToSet(delivered) = {} /\ batch'[e] \cap lost = {}
    BY <1>2, <1>4 DEF BatchInv
  <2>5. QED BY <1>1, <2>1, <2>2, <2>3, <2>4 DEF BatchInv, ToSet
<1>10. DeliveryInv' BY <1>1 DEF DeliveryInv, ToSet
<1>11. MarkedIsAccountedFor'
  BY <1>1, <1>4 DEF MarkedIsAccountedFor, ToSet
<1>12. QED BY <1>8, <1>9, <1>10, <1>11

\* A drain begins a transaction, or marks its rows (outbox.ts:40-71): its place changes,
\* its batch does not.
LEMMA PlaceStep ==
    ASSUME RelayInv, NEW d \in Drain, NEW s \in {"select", "commit"},
           s = "select" => at[d] = "idle", s = "commit" => at[d] = "mark",
           at' = [at EXCEPT ![d] = s],
           UNCHANGED <<row, published, timer, batch, delivered, failures, lost>>
    PROVE  RelayInv'
<1> USE DEF RelayInv
<1>1. at'[d] = s /\ \A e \in Drain \ {d} : at'[e] = at[e] BY DEF TypeOK
<1>2. TypeOK' BY DEF TypeOK
<1>3. BatchInv'
  <2>1. \A e \in Drain : at'[e] \in AtRest => at[e] \in AtRest BY <1>1 DEF AtRest
  <2>2. \A e \in Drain : at'[e] \in Marking => at[e] \in Marking BY <1>1 DEF Marking
  <2>3. \A e \in Drain : at'[e] = "publish" => at[e] = "publish" BY <1>1
  <2>4. QED BY <2>1, <2>2, <2>3 DEF BatchInv, ToSet
<1>4. DeliveryInv' BY DEF DeliveryInv, ToSet
<1>5. \A e \in Drain : at[e] = "publish" => at'[e] = "publish" BY <1>1
<1>6. MarkedIsAccountedFor' BY <1>5 DEF MarkedIsAccountedFor, ToSet
<1>7. QED BY <1>2, <1>3, <1>4, <1>6

\* The commit of a drain's transaction: its batch is published (outbox.ts:72-75).
LEMMA CommitStep ==
    ASSUME RelayInv, NEW d \in Drain, Commit(d)
    PROVE  RelayInv'
<1> USE DEF RelayInv
<1>1. at[d] = "commit" /\ published' = published \cup batch[d]
      /\ UNCHANGED <<row, timer, batch, delivered, failures, lost>>
  BY DEF Commit
<1>2. PICK s \in {"idle", "publish"} :
         at' = [at EXCEPT ![d] = s] /\ (s = "idle" <=> batch[d] = {})
  BY DEF Commit
<1>3. at'[d] = s /\ \A e \in Drain \ {d} : at'[e] = at[e] BY <1>2 DEF TypeOK
<1>4. batch[d] \cap published = {} /\ (\A e \in batch[d] : row[e] = "committed")
      /\ batch[d] \subseteq Event
  BY <1>1 DEF BatchInv, Marking, TypeOK
<1>5. batch[d] \cap ToSet(delivered) = {} /\ batch[d] \cap lost = {} BY <1>4 DEF DeliveryInv
<1>6. \A e \in Drain \ {d} : batch[e] \cap batch[d] = {} BY DEF BatchInv
<1>7. TypeOK' BY <1>1, <1>2, <1>4 DEF TypeOK
<1>8. BatchInv'
  <2>1. \A e \in Drain : at'[e] \in AtRest => batch[e] = {}
    BY <1>2, <1>3 DEF BatchInv, AtRest
  <2>2. \A e \in Drain : at'[e] \in Marking =>
           batch[e] \cap published' = {} /\ \A f \in batch[e] : row[f] = "committed"
    BY <1>1, <1>2, <1>3, <1>6 DEF BatchInv, Marking
  <2>3. \A e \in Drain : at'[e] = "publish" =>
           /\ batch[e] \subseteq published'
           /\ batch[e] \cap ToSet(delivered) = {} /\ batch[e] \cap lost = {}
    BY <1>1, <1>3, <1>5 DEF BatchInv
  <2>4. QED BY <1>1, <2>1, <2>2, <2>3 DEF BatchInv, ToSet
<1>9. DeliveryInv' BY <1>1, <1>4 DEF DeliveryInv, ToSet
<1>10. MarkedIsAccountedFor'
  <2> SUFFICES ASSUME NEW e \in published'
               PROVE  \/ e \in ToSet(delivered) \cup lost
                      \/ \E f \in Drain : at'[f] = "publish" /\ e \in batch[f]
    BY <1>1 DEF MarkedIsAccountedFor, ToSet
  <2>1. CASE e \in batch[d] BY <2>1, <1>2, <1>3
  <2>2. CASE e \in published BY <2>2, <1>1, <1>3 DEF MarkedIsAccountedFor
  <2>3. QED BY <2>1, <2>2, <1>1
<1>11. QED BY <1>7, <1>8, <1>9, <1>10

\* One call of the publisher that returns (outbox.ts:77-79).
LEMMA PublishStep ==
    ASSUME RelayInv, NEW d \in Drain, Publish(d)
    PROVE  RelayInv'
<1> USE DEF RelayInv
<1>1. at[d] = "publish" /\ UNCHANGED <<row, published, timer, failures, lost>>
  BY DEF Publish
<1>2. PICK e \in batch[d] :
         delivered' = Append(delivered, e) /\ batch' = [batch EXCEPT ![d] = @ \ {e}]
  BY DEF Publish
<1>3. PICK s \in {"idle", "publish"} :
         at' = [at EXCEPT ![d] = s] /\ (s = "idle" <=> Cardinality(batch[d]) = 1)
  BY DEF Publish, AfterFirst
<1>4. at'[d] = s /\ batch'[d] = batch[d] \ {e}
      /\ \A f \in Drain \ {d} : at'[f] = at[f] /\ batch'[f] = batch[f]
  BY <1>2, <1>3 DEF TypeOK
<1>5. /\ batch[d] \subseteq published /\ e \in Event
      /\ batch[d] \cap ToSet(delivered) = {} /\ batch[d] \cap lost = {}
  BY <1>1, <1>2 DEF BatchInv, TypeOK
<1>6. \A f \in Drain \ {d} : e \notin batch[f] BY <1>2 DEF BatchInv
<1>7. /\ Append(delivered, e) \in Seq(Event)
      /\ ToSet(Append(delivered, e)) = ToSet(delivered) \cup {e}
      /\ \A i, j \in DOMAIN Append(delivered, e) :
            Append(delivered, e)[i] = Append(delivered, e)[j] => i = j
  BY <1>5, AppendDelivered DEF TypeOK, DeliveryInv
<1>8. /\ delivered' \in Seq(Event) /\ ToSet(delivered') = ToSet(delivered) \cup {e}
      /\ \A i, j \in DOMAIN delivered' : delivered'[i] = delivered'[j] => i = j
  BY ONLY <1>2, <1>7
<1>9. ToSet(delivered)' = ToSet(delivered') BY DEF ToSet
<1>10. s = "idle" => batch[d] \ {e} = {}
  BY <1>2, <1>3, LastOfBatch DEF TypeOK
<1>11. TypeOK' BY <1>1, <1>2, <1>3, <1>8 DEF TypeOK
<1>12. BatchInv'
  <2>1. \A f \in Drain : at'[f] \in AtRest => batch'[f] = {}
    BY <1>3, <1>4, <1>10 DEF BatchInv, AtRest
  <2>2. \A f, g \in Drain : f # g => batch'[f] \cap batch'[g] = {}
    BY <1>4 DEF BatchInv
  <2>3. \A f \in Drain : at'[f] \in Marking =>
           batch'[f] \cap published = {} /\ \A g \in batch'[f] : row[g] = "committed"
    BY <1>3, <1>4 DEF BatchInv, Marking
  <2>4. \A f \in Drain : at'[f] = "publish" =>
           /\ batch'[f] \subseteq published /\ batch'[f] \cap lost = {}
           /\ batch'[f] \cap (ToSet(delivered) \cup {e}) = {}
    BY <1>4, <1>5, <1>6 DEF BatchInv
  <2>5. QED BY <1>1, <1>8, <1>9, <2>1, <2>2, <2>3, <2>4 DEF BatchInv
<1>13. DeliveryInv'
  <2>1. ToSet(delivered)' \subseteq published' BY <1>1, <1>2, <1>5, <1>8, <1>9 DEF DeliveryInv
  <2>2. QED BY <2>1, <1>1, <1>8 DEF DeliveryInv
<1>14. MarkedIsAccountedFor'
  <2>1. lost \cap (ToSet(delivered) \cup {e}) = {} BY <1>2, <1>5 DEF MarkedIsAccountedFor
  <2> SUFFICES ASSUME NEW f \in published
               PROVE  \/ f \in ToSet(delivered) \cup {e} \cup lost
                      \/ \E g \in Drain : at'[g] = "publish" /\ f \in batch'[g]
    BY <2>1, <1>1, <1>8, <1>9 DEF MarkedIsAccountedFor
  <2>2. CASE f \in ToSet(delivered) \cup lost BY <2>2
  <2>3. CASE f \notin ToSet(delivered) \cup lost /\ f # e
    <3>1. PICK g \in Drain : at[g] = "publish" /\ f \in batch[g]
      BY <2>3 DEF MarkedIsAccountedFor
    <3>2. CASE g = d
      <4>1. f \in batch[d] \ {e} BY <3>1, <3>2, <2>3
      <4>2. s = "publish" BY <4>1, <1>3, <1>10
      <4>3. QED BY <4>1, <4>2, <1>4
    <3>3. CASE g # d BY <3>1, <3>3, <1>4
    <3>4. QED BY <3>2, <3>3
  <2>4. QED BY <2>2, <2>3
<1>15. QED BY <1>11, <1>12, <1>13, <1>14

-----------------------------------------------------------------------------
\* Every step of the relay (outbox.ts:40-99) keeps its invariant.
LEMMA RelayStep == RelayInv /\ [Next]_vars => RelayInv'
<1> SUFFICES ASSUME RelayInv, [Next]_vars PROVE RelayInv' OBVIOUS
<1>1. TypeOK BY DEF RelayInv
<1>2. CASE UNCHANGED vars BY <1>1, <1>2, RowStep DEF vars, TypeOK
<1>3. CASE DrawEvent
  <2>1. PICK e \in Event : row[e] = "none" /\ row' = [row EXCEPT ![e] = "drawn"]
    BY <1>3 DEF DrawEvent
  <2>2. row' \in [Event -> {"none", "drawn", "committed", "rolledBack"}]
    BY <1>1, <2>1 DEF TypeOK
  <2>3. \A f \in Event : row[f] = "committed" => row'[f] = "committed"
    BY <1>1, <2>1 DEF TypeOK
  <2>4. QED BY <1>1, <1>3, <2>2, <2>3, RowStep DEF DrawEvent, TypeOK
<1>4. CASE EndPosting
  <2>1. PICK e \in Event, outcome \in {"committed", "rolledBack"} :
           row[e] = "drawn" /\ row' = [row EXCEPT ![e] = outcome]
    BY <1>4 DEF EndPosting
  <2>2. row' \in [Event -> {"none", "drawn", "committed", "rolledBack"}]
    BY <1>1, <2>1 DEF TypeOK
  <2>3. \A f \in Event : row[f] = "committed" => row'[f] = "committed"
    BY <1>1, <2>1 DEF TypeOK
  <2>4. QED BY <1>1, <1>4, <2>2, <2>3, RowStep DEF EndPosting, TypeOK
<1>5. ASSUME NEW p \in Process, Start(p) PROVE RelayInv'
  BY <1>1, <1>5, RowStep DEF Start, TypeOK
<1>6. ASSUME NEW p \in Process, Stop(p) PROVE RelayInv'
  BY <1>1, <1>6, RowStep DEF Stop, TypeOK
<1>7. ASSUME NEW p \in Process, Crash(p) PROVE RelayInv'
  <2> DEFINE D == {d \in Drain : ProcessOf[d] = p}
  <2>1. D \in SUBSET Drain OBVIOUS
  <2>2. FailDrains(D) /\ timer' = timer \ {p} BY <1>7 DEF Crash
  <2> HIDE DEF D
  <2>3. timer' \subseteq Process BY <1>1, <2>2 DEF TypeOK
  <2>4. QED BY <2>1, <2>2, <2>3, FailureStep DEF FailDrains
<1>8. ASSUME NEW d \in Drain, Tick(d) PROVE RelayInv'
  BY <1>8, PlaceStep DEF Tick
<1>9. ASSUME NEW d \in Drain, Step(d) PROVE RelayInv'
  <2>1. CASE Mark(d) BY <2>1, PlaceStep DEF Mark
  <2>2. QED BY <1>9, <2>1, SelectStep, CommitStep, PublishStep DEF Step
<1>10. ASSUME NEW d \in Drain, DrainFails(d) PROVE RelayInv'
  <2> DEFINE D == {d}
  <2>1. D \in SUBSET Drain OBVIOUS
  <2>2. FailDrains(D) /\ timer' = timer BY <1>10 DEF DrainFails
  <2> HIDE DEF D
  <2>3. timer' \subseteq Process BY <1>1, <2>2 DEF TypeOK
  <2>4. QED BY <2>1, <2>2, <2>3, FailureStep DEF FailDrains
<1>11. QED BY <1>2, <1>3, <1>4, <1>5, <1>6, <1>7, <1>8, <1>9, <1>10 DEF Next

\* The relay keeps its invariant in every behaviour.
LEMMA RelayCorrect == Spec => []RelayInv
<1>1. QED BY InitRelay, RelayStep, PTL DEF Spec

\* A step of the system is a step of the relay, or changes nothing of it
\* (server.ts:238-262 calls relay.start() and stop() only).
LEMMA BootStepRefines == [BootNext]_systemVars => [Next]_vars
<1> SUFFICES ASSUME [BootNext]_systemVars PROVE [Next]_vars OBVIOUS
<1>1. CASE UNCHANGED systemVars BY <1>1 DEF systemVars
<1>2. CASE \E p \in Process : (StartServer(p) \/ Migrate(p)) /\ UNCHANGED vars BY <1>2
<1>3. CASE \E p \in Process : Serve(p) \/ Close(p) \/ Die(p)
  BY <1>3 DEF Serve, Close, Die, Next
<1>4. CASE Work BY <1>4 DEF Work, Next
<1>5. QED BY <1>1, <1>2, <1>3, <1>4 DEF BootNext

\* The relay inside a server that starts, migrates, serves, stops and dies behaves as
\* the relay's own specification says (server.ts:238-262, outbox.ts:40-99).
THEOREM BootRefinesRelay == BootSpec => Spec
<1>1. BootInit => Init BY DEF BootInit
<1>2. QED BY <1>1, BootStepRefines, PTL DEF BootSpec, Spec

\* For any number of processes, drains and failures, no event is handed to a publisher
\* twice, nor before its posting was committed (outbox.ts:40-81).
THEOREM AtMostOnceCorrect == BootSpec => []AtMostOnceAfterCommit
<1>1. RelayInv => AtMostOnceAfterCommit
  <2> SUFFICES ASSUME RelayInv, NEW i \in DOMAIN delivered PROVE row[delivered[i]] = "committed"
    BY DEF RelayInv, DeliveryInv, AtMostOnceAfterCommit
  <2>1. delivered[i] \in ToSet(delivered) BY DEF ToSet
  <2>2. QED BY <2>1 DEF RelayInv, DeliveryInv
<1>2. QED BY <1>1, RelayCorrect, BootRefinesRelay, PTL

\* For any number of processes, drains and failures, a marked row was delivered, is in
\* the hands of a drain, or was lost to a failure after the COMMIT (outbox.ts:67-79).
THEOREM MarkedCorrect == BootSpec => []MarkedIsAccountedFor
<1>1. RelayInv => MarkedIsAccountedFor BY DEF RelayInv
<1>2. QED BY <1>1, RelayCorrect, BootRefinesRelay, PTL

-----------------------------------------------------------------------------
(***************************************************************************)
(* The migrations.  MigratedInOrder is not inductive: a process applies    *)
(* the next script relying on what it read at its start, so the invariant  *)
(* says that what is not on its list is recorded, and that the script      *)
(* whose row it is about to write was executed.                            *)
(***************************************************************************)
ListInv ==
    /\ \A p \in Process : boot[p] \in {"script", "row"} => File \ todo[p] \subseteq recorded
    /\ \A p \in Process : boot[p] = "row" => \E f \in applied : IsNext(p, f)

MigrationInv == BootTypeOK /\ ListInv /\ MigratedInOrder

\* The initial state: nothing is applied and nobody serves.
LEMMA InitMigration == BootInit => MigrationInv
<1> SUFFICES ASSUME BootInit PROVE MigrationInv OBVIOUS
<1>1. TypeOK BY InitRelay DEF BootInit, RelayInv
<1>2. BootTypeOK BY <1>1 DEF BootInit, BootTypeOK
<1>3. ListInv BY DEF BootInit, ListInv
<1>4. MigratedInOrder BY DEF BootInit, Init, MigratedInOrder
<1>5. QED BY <1>2, <1>3, <1>4 DEF MigrationInv

\* What a step of the relay does to timers and drains is allowed as long as only
\* processes that are up set a timer and only timers start drains (server.ts:244-247).
LEMMA RelayKeepsOrder ==
    ASSUME MigrationInv, [Next]_vars,
           UNCHANGED <<table, applied, recorded>>,
           \A p \in timer' \ timer : recorded = File,
           \A p \in Process : boot'[p] = "up" => recorded = File
    PROVE  MigratedInOrder'
<1> USE DEF MigrationInv
<1>1. \A p \in Process : boot'[p] = "up" \/ p \in timer' => recorded = File
  BY DEF MigratedInOrder
<1>2. \A d \in Drain : at'[d] # "idle" => at[d] # "idle" \/ ProcessOf[d] \in timer
  <2> SUFFICES ASSUME NEW d \in Drain, at'[d] # "idle", at[d] = "idle"
               PROVE  ProcessOf[d] \in timer
    OBVIOUS
  <2>1. at \in [Drain -> {"idle", "select", "mark", "commit", "publish"}]
    BY DEF BootTypeOK, TypeOK
  <2>2. UNCHANGED at \/ (\E e \in Drain : Tick(e) \/ Step(e) \/ DrainFails(e))
        \/ (\E p \in Process : Crash(p))
    BY DEF Next, vars, DrawEvent, EndPosting, Start, Stop
  <2>3. ASSUME NEW e \in Drain, Step(e) \/ DrainFails(e) PROVE FALSE
    BY <2>1, <2>3 DEF Step, Select, Mark, Commit, Publish, DrainFails, FailDrains
  <2>4. ASSUME NEW p \in Process, Crash(p) PROVE FALSE BY <2>4 DEF Crash, FailDrains
  <2>5. PICK e \in Drain : Tick(e) BY <2>2, <2>3, <2>4
  <2>6. QED BY <2>1, <2>5 DEF Tick
<1>3. \A d \in Drain : ProcessOf[d] \in Process BY RelayAssumption
<1>4. \A d \in Drain : at'[d] # "idle" => recorded = File
  BY <1>2, <1>3 DEF MigratedInOrder
<1>5. QED BY <1>1, <1>4 DEF MigratedInOrder, File

\* A place of one process changes, and nothing else.
LEMMA LookStep ==
    ASSUME MigrationInv, NEW p \in Process, NEW s \in {"off", "table", "tableAbsent", "names"},
           boot' = [boot EXCEPT ![p] = s], table' \in BOOLEAN,
           todo' = todo \/ todo' = [todo EXCEPT ![p] = {}],
           UNCHANGED <<vars, applied, recorded>>
    PROVE  MigrationInv'
<1> USE DEF MigrationInv
<1>1. boot'[p] = s /\ \A q \in Process \ {p} : boot'[q] = boot[q] /\ todo'[q] = todo[q]
  BY DEF BootTypeOK
<1>2. TypeOK' BY DEF BootTypeOK, TypeOK, vars
<1>3. BootTypeOK' BY <1>2 DEF BootTypeOK, Booting
<1>4. ListInv' BY <1>1 DEF ListInv, IsNext
<1>5. MigratedInOrder' BY <1>1 DEF MigratedInOrder, vars, File
<1>6. QED BY <1>3, <1>4, <1>5

\* Reading schema_migrations: what is not on the list is recorded (open.ts:114-122).
LEMMA ReadStep ==
    ASSUME MigrationInv, NEW p \in Process, ReadApplied(p), UNCHANGED vars
    PROVE  MigrationInv'
<1> USE DEF MigrationInv
<1>1. boot' = [boot EXCEPT ![p] = "script"] /\ todo' = [todo EXCEPT ![p] = File \ recorded]
      /\ UNCHANGED <<table, applied, recorded>>
  BY DEF ReadApplied, Reach
<1>2. /\ boot'[p] = "script" /\ todo'[p] = File \ recorded
      /\ \A q \in Process \ {p} : boot'[q] = boot[q] /\ todo'[q] = todo[q]
  BY <1>1 DEF BootTypeOK
<1>3. TypeOK' BY DEF BootTypeOK, TypeOK, vars
<1>4. BootTypeOK' BY <1>1, <1>3 DEF BootTypeOK, Booting, File
<1>5. File' = File BY DEF File
<1>6. ListInv' BY <1>1, <1>2, <1>5 DEF ListInv, IsNext
<1>7. MigratedInOrder' BY <1>1, <1>2, <1>5 DEF MigratedInOrder, vars
<1>8. QED BY <1>4, <1>6, <1>7

\* A script is executed only when every earlier one was, and recorded (open.ts:123).
LEMMA ExecStep ==
    ASSUME MigrationInv, NEW p \in Process, ExecScript(p), UNCHANGED vars
    PROVE  MigrationInv'
<1> USE DEF MigrationInv
<1>1. boot[p] = "script" /\ UNCHANGED <<table, recorded>> BY DEF ExecScript
<1>2. PICK f \in File :
         /\ IsNext(p, f)
         /\ IF f \notin applied /\ 1 .. f - 1 \subseteq applied
            THEN applied' = applied \cup {f} /\ Reach(p, "row") /\ UNCHANGED todo
            ELSE Exit(p) /\ UNCHANGED applied
  BY DEF ExecScript
<1>3. CASE ~(f \notin applied /\ 1 .. f - 1 \subseteq applied)
  BY <1>1, <1>2, <1>3, LookStep DEF Exit, Reach, BootTypeOK
<1>4. CASE f \notin applied /\ 1 .. f - 1 \subseteq applied
  <2>1. applied' = applied \cup {f} /\ boot' = [boot EXCEPT ![p] = "row"] /\ UNCHANGED todo
    BY <1>2, <1>4 DEF Reach
  <2>2. boot'[p] = "row" /\ \A q \in Process \ {p} : boot'[q] = boot[q]
    BY <2>1 DEF BootTypeOK
  <2>3. TypeOK' BY DEF BootTypeOK, TypeOK, vars
  <2>4. BootTypeOK' BY <1>1, <2>1, <2>3 DEF BootTypeOK, Booting, File
  <2>5. ListInv'
    <3>1. \A q \in Process : boot'[q] \in {"script", "row"} => File \ todo[q] \subseteq recorded
      BY <1>1, <2>2 DEF ListInv
    <3>2. \A q \in Process, g \in File : IsNext(q, g)' <=> IsNext(q, g)
      BY <2>1 DEF IsNext
    <3>3. applied \subseteq File BY DEF BootTypeOK
    <3>4. \A q \in Process : boot'[q] = "row" => \E g \in applied' : IsNext(q, g)
      BY <1>2, <2>1, <2>2 DEF ListInv
    <3>5. \A q \in Process : boot'[q] = "row" => \E g \in applied' : IsNext(q, g)'
      BY <3>2, <3>3, <3>4, <2>1
    <3>6. QED BY <1>1, <2>1, <3>1, <3>5 DEF ListInv, File
  <2>6. \A g \in applied' \ recorded : g + 1 \notin applied'
    <3> SUFFICES ASSUME NEW g \in applied' \ recorded, g + 1 \in applied' PROVE FALSE
      OBVIOUS
    <3>1. g \in File /\ f \in File /\ applied \subseteq File BY <2>1 DEF BootTypeOK
    <3>2. CASE g = f
      <4>1. f + 1 \in applied BY <3>1, <3>2, <2>1 DEF File
      <4>2. f \in 1 .. (f + 1) - 1 BY <3>1 DEF File
      <4>3. QED BY <4>1, <4>2, <1>4 DEF MigratedInOrder
    <3>3. CASE g # f
      <4>1. g \in applied \ recorded BY <3>3, <2>1
      <4>2. g + 1 = f BY <4>1, <2>1 DEF MigratedInOrder
      <4>3. g \notin todo[p] BY <4>2, <1>2, <3>1 DEF IsNext, File
      <4>4. g \in recorded BY <4>3, <3>1, <1>1 DEF ListInv
      <4>5. QED BY <4>1, <4>4
    <3>4. QED BY <3>2, <3>3
  <2>7. \A g \in applied' : 1 .. g - 1 \subseteq applied' BY <1>4, <2>1 DEF MigratedInOrder
  <2>8. QED BY <1>1, <2>1, <2>2, <2>4, <2>5, <2>6, <2>7 DEF MigratedInOrder, vars, File
<1>5. QED BY <1>3, <1>4

\* The row of a script that was executed is written (open.ts:124).
LEMMA RowInsertStep ==
    ASSUME MigrationInv, NEW p \in Process, InsertRow(p), UNCHANGED vars
    PROVE  MigrationInv'
<1> USE DEF MigrationInv
<1>1. boot[p] = "row" /\ boot' = [boot EXCEPT ![p] = "script"] /\ UNCHANGED <<table, applied>>
  BY DEF InsertRow, Reach
<1>2. PICK f \in File : /\ IsNext(p, f) /\ recorded' = recorded \cup {f}
                        /\ todo' = [todo EXCEPT ![p] = @ \ {f}]
  BY DEF InsertRow
<1>3. PICK g \in applied : IsNext(p, g) BY <1>1 DEF ListInv
<1>4. applied \subseteq File BY DEF BootTypeOK
<1>5. f \in applied BY <1>2, <1>3, <1>4 DEF IsNext, File
<1>6. /\ boot'[p] = "script" /\ todo'[p] = todo[p] \ {f}
      /\ \A q \in Process \ {p} : boot'[q] = boot[q] /\ todo'[q] = todo[q]
  BY <1>1, <1>2 DEF BootTypeOK
<1>7. TypeOK' BY DEF BootTypeOK, TypeOK, vars
<1>8. BootTypeOK' BY <1>1, <1>2, <1>7 DEF BootTypeOK, Booting, File
<1>9. File' = File BY DEF File
<1>10. ListInv'
  <2>1. \A q \in Process : boot'[q] \in {"script", "row"} => File \ todo'[q] \subseteq recorded'
    BY <1>1, <1>2, <1>6 DEF ListInv
  <2>2. \A q \in Process : boot'[q] = "row" => \E h \in applied : IsNext(q, h)'
    BY <1>6 DEF ListInv, IsNext
  <2>3. QED BY <2>1, <2>2, <1>1, <1>9 DEF ListInv
<1>11. MigratedInOrder'
  <2>1. recorded' \subseteq applied /\ recorded \subseteq recorded' /\ recorded' \subseteq File
    BY <1>2, <1>5, <1>4 DEF MigratedInOrder
  <2>2. recorded = File => recorded' = File BY <2>1
  <2>3. QED BY <2>1, <2>2, <1>1, <1>6, <1>9 DEF MigratedInOrder, vars
<1>12. QED BY <1>8, <1>10, <1>11

\* A process comes up or goes down: what the relay does then is a step of the relay
\* (server.ts:238-262).
LEMMA ProcessStep ==
    ASSUME MigrationInv, NEW p \in Process, Serve(p) \/ Close(p) \/ Die(p), TypeOK'
    PROVE  MigrationInv'
<1> USE DEF MigrationInv
<1>1. UNCHANGED <<table, applied, recorded>> BY DEF Serve, Close, Die
<1>2. PICK s \in {"up", "off"} : boot' = [boot EXCEPT ![p] = s] /\ (s = "up" => Serve(p))
  BY DEF Serve, Close, Die, Exit, Reach
<1>3. todo' = todo \/ todo' = [todo EXCEPT ![p] = {}]
  BY DEF Serve, Close, Die, Exit
<1>4. boot'[p] = s /\ \A q \in Process \ {p} : boot'[q] = boot[q] /\ todo'[q] = todo[q]
  BY <1>2, <1>3 DEF BootTypeOK
<1>5. Serve(p) => recorded = File
  <2> SUFFICES ASSUME Serve(p) PROVE recorded = File OBVIOUS
  <2>1. boot[p] = "script" /\ todo[p] = {} BY DEF Serve
  <2>2. File \subseteq recorded BY <2>1 DEF ListInv
  <2>3. QED BY <2>2 DEF BootTypeOK
<1>6. [Next]_vars BY DEF Serve, Close, Die, Next
<1>7. \A q \in timer' \ timer : recorded = File
  BY <1>5 DEF Serve, Close, Die, Start, Stop, Crash
<1>8. \A q \in Process : boot'[q] = "up" => recorded = File
  BY <1>2, <1>4, <1>5 DEF MigratedInOrder
<1>9. MigratedInOrder' BY <1>1, <1>6, <1>7, <1>8, RelayKeepsOrder
<1>10. BootTypeOK' BY <1>1, <1>2, <1>3 DEF BootTypeOK, File
<1>11. ListInv' BY <1>1, <1>2, <1>4 DEF ListInv, IsNext, File
<1>12. QED BY <1>9, <1>10, <1>11

\* Posting and relaying begin in processes that are up (server.ts:238-249).
LEMMA WorkStep ==
    ASSUME MigrationInv, Work, UNCHANGED bootVars, TypeOK'
    PROVE  MigrationInv'
<1> USE DEF MigrationInv
<1>1. UNCHANGED <<table, applied, recorded, boot, todo>> BY DEF bootVars
<1>2. [Next]_vars BY DEF Work, Next
<1>3. \A p \in timer' \ timer : recorded = File
  <2> SUFFICES ASSUME NEW p \in timer', p \notin timer PROVE recorded = File OBVIOUS
  <2>1. PICK q \in Process : boot[q] = "up"
    BY DEF Work, DrawEvent, EndPosting, Tick, Step, Select, Mark, Commit, Publish,
           DrainFails
  <2>2. QED BY <2>1 DEF MigratedInOrder
<1>4. \A p \in Process : boot'[p] = "up" => recorded = File BY <1>1 DEF MigratedInOrder
<1>5. MigratedInOrder' BY <1>1, <1>2, <1>3, <1>4, RelayKeepsOrder
<1>6. BootTypeOK' BY <1>1 DEF BootTypeOK, File
<1>7. ListInv' BY <1>1 DEF ListInv, IsNext, File
<1>8. QED BY <1>5, <1>6, <1>7

\* Every step of the system keeps the invariant of the migrations.
LEMMA MigrationStep == MigrationInv /\ RelayInv' /\ [BootNext]_systemVars => MigrationInv'
<1> SUFFICES ASSUME MigrationInv, RelayInv', [BootNext]_systemVars PROVE MigrationInv' OBVIOUS
<1>1. BootTypeOK /\ TypeOK' BY DEF MigrationInv, RelayInv
<1>2. CASE UNCHANGED systemVars
  <2>1. UNCHANGED <<vars, table, applied, recorded, boot, todo>>
    BY <1>2 DEF systemVars, bootVars
  <2>2. BootTypeOK' BY <1>1, <2>1 DEF BootTypeOK, File
  <2>3. ListInv' BY <2>1 DEF MigrationInv, ListInv, IsNext, File
  <2>4. MigratedInOrder' BY <2>1 DEF MigrationInv, MigratedInOrder, vars, File
  <2>5. QED BY <2>2, <2>3, <2>4 DEF MigrationInv
<1>3. ASSUME NEW p \in Process, StartServer(p), UNCHANGED vars PROVE MigrationInv'
  BY <1>1, <1>3, LookStep DEF StartServer, Reach, BootTypeOK
<1>4. ASSUME NEW p \in Process, LookForTable(p), UNCHANGED vars PROVE MigrationInv'
  <2>1. PICK s \in {"names", "tableAbsent"} : boot' = [boot EXCEPT ![p] = s]
    BY <1>4 DEF LookForTable, Reach
  <2>2. QED BY <1>1, <1>4, <2>1, LookStep DEF LookForTable, BootTypeOK
<1>5. ASSUME NEW p \in Process, CreateTable(p), UNCHANGED vars PROVE MigrationInv'
  <2>1. PICK s \in {"names", "off"} : boot' = [boot EXCEPT ![p] = s]
    BY <1>5 DEF CreateTable, Exit, Reach
  <2>2. todo' = todo \/ todo' = [todo EXCEPT ![p] = {}] BY <1>5 DEF CreateTable, Exit
  <2>3. QED BY <1>5, <2>1, <2>2, LookStep DEF CreateTable
<1>6. CASE \E p \in Process : (StartServer(p) \/ Migrate(p)) /\ UNCHANGED vars
  BY <1>6, <1>3, <1>4, <1>5, ReadStep, ExecStep, RowInsertStep DEF Migrate
<1>7. CASE \E p \in Process : Serve(p) \/ Close(p) \/ Die(p) BY <1>1, <1>7, ProcessStep
<1>8. CASE Work /\ UNCHANGED bootVars BY <1>1, <1>8, WorkStep
<1>9. QED BY <1>2, <1>6, <1>7, <1>8 DEF BootNext

\* The invariant of the migrations holds in every behaviour of the system.
LEMMA MigrationCorrect == BootSpec => []MigrationInv
<1>1. RelayInv /\ MigrationInv /\ [BootNext]_systemVars => (RelayInv /\ MigrationInv)'
  BY RelayStep, BootStepRefines, MigrationStep
<1>2. BootInit => RelayInv /\ MigrationInv BY InitRelay, InitMigration DEF BootInit
<1>3. QED BY <1>1, <1>2, PTL DEF BootSpec

\* The variables of the system keep their types.
THEOREM BootTypeCorrect == BootSpec => []BootTypeOK
<1>1. MigrationInv => BootTypeOK BY DEF MigrationInv
<1>2. QED BY <1>1, MigrationCorrect, PTL

\* However many processes start and die at once, scripts are applied in order and
\* recorded one at a time, and nobody serves before all are (open.ts:99-128).
THEOREM MigrationsInOrder == BootSpec => []MigratedInOrder
<1>1. MigrationInv => MigratedInOrder BY DEF MigrationInv
<1>2. QED BY <1>1, MigrationCorrect, PTL
=============================================================================
