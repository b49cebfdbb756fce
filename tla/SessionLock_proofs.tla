------------------------- MODULE SessionLock_proofs -------------------------
(***************************************************************************)
(* Theorems about SessionLock, for any number of clients, plain or not, of *)
(* statements and of refused COMMITs.                                      *)
(*                                                                         *)
(* The queue is sound whatever happens (QueueInv).  As long as no COMMIT   *)
(* was refused, the client that owns the lock is one, is the one whose     *)
(* place says so (LockInv), it is also the one whose transaction the       *)
(* session has open (TransactionInv), and what is committed of each client *)
(* is what its place says (DataInv).                                       *)
(***************************************************************************)
EXTENDS SessionLock, TLAPS

InTransaction == {"callback", "rollback", "committed", "rolledBack"}
Owning == {"granted", "executed", "failed"} \cup InTransaction

QueueInv ==
    /\ \A c \in Client : at[c] = "waiting" <=> \E i \in DOMAIN queue : queue[i] = c
    /\ \A i, j \in DOMAIN queue : queue[i] = queue[j] => i = j
    /\ queue # <<>> => held

PlainInv ==
    /\ \A c \in Plain : at[c] \in {"idle", "waiting", "granted", "executed", "failed", "done"}
    /\ \A c \in Client : at[c] \in {"idle", "waiting", "granted"} => executed[c] = 0

LockInv ==
    /\ \A c \in Client : inTransaction[c] <=> at[c] \in InTransaction
    /\ \A c \in Client : at[c] # "commitFailed"
    /\ \A c, d \in Client : at[c] \in Owning /\ at[d] \in Owning => c = d
    /\ held <=> \E c \in Client : at[c] \in Owning

TransactionInv ==
    /\ \A c \in Client : transaction = c <=> at[c] \in {"callback", "rollback"}
    /\ aborted => \E c \in Client : at[c] = "rollback"
    /\ transaction = None => uncommitted = {}
    /\ \A c \in Client : at[c] = "callback" => uncommitted = {<<c, n>> : n \in 1 .. executed[c]}

Undone == {"idle", "waiting", "granted", "callback", "rollback", "failed", "rolledBack"}

DataInv ==
    /\ \A c \in Client : at[c] \in {"executed", "committed"} => RowsOf(c) \subseteq database
    /\ \A c \in Client : at[c] \in Undone => RowsOf(c) \cap database = {}
    /\ \A c \in Client : at[c] # "done" => answer[c] = "none"

BaseInv == TypeOK /\ QueueInv /\ PlainInv
SerialInv == refused = 0 => LockInv /\ TransactionInv /\ DataInv
IInv == BaseInv /\ SerialInv

-----------------------------------------------------------------------------
\* The rows of two jobs are different rows (RowsOf, the statements of a connection).
LEMMA RowsApart ==
    ASSUME NEW c \in Client, NEW d \in Client, NEW x \in RowsOf(c), x \in RowsOf(d)
    PROVE  c = d
BY DEF RowsOf

\* The rows of a job by their number (executeQuery, pglite-dialect.ts:78-90).
LEMMA RowsByNumber ==
    ASSUME NEW c \in Client
    PROVE  /\ c \in Plain => RowsOf(c) = {<<c, 1>>}
           /\ c \notin Plain => RowsOf(c) = {<<c, n>> : n \in 1 .. Statements}
<1>1. ASSUME c \in Plain PROVE RowsOf(c) = {<<c, 1>>}
  <2>1. 1 .. (IF c \in Plain THEN 1 ELSE Statements) = {1} BY <1>1
  <2>2. QED BY <2>1 DEF RowsOf
<1>2. ASSUME c \notin Plain PROVE RowsOf(c) = {<<c, n>> : n \in 1 .. Statements}
  BY <1>2 DEF RowsOf
<1>3. QED BY <1>1, <1>2

\* The initial state satisfies the invariant (init and acquireConnection).
LEMMA InitIInv == Init => IInv
<1> SUFFICES ASSUME Init PROVE IInv OBVIOUS
<1> USE DEF Init
<1>1. TypeOK
  <2>1. \A c \in Client : 0 \in 0 .. Statements BY BoundAssumption
  <2>2. refused \in 0 .. MaxRefused BY BoundAssumption
  <2>3. at \in [Client -> Place] /\ executed \in [Client -> 0 .. Statements] BY <2>1 DEF Place
  <2>4. held \in BOOLEAN /\ aborted \in BOOLEAN /\ inTransaction \in [Client -> BOOLEAN] OBVIOUS
  <2>5. queue \in Seq(Client) /\ answer \in [Client -> {"none", "ok", "error"}] OBVIOUS
  <2>6. transaction \in Client \cup {None} /\ uncommitted = {} /\ database = {} OBVIOUS
  <2>7. Flagged BY DEF Flagged
  <2>8. QED BY <2>2, <2>3, <2>4, <2>5, <2>6, <2>7 DEF TypeOK
<1>2. QueueInv BY DEF QueueInv
<1>3. PlainInv BY ClientAssumption DEF PlainInv
<1>4. LockInv BY DEF LockInv, InTransaction, Owning
<1>5. TransactionInv BY ClientAssumption DEF TransactionInv
<1>6. DataInv BY DEF DataInv, Undone
<1>7. QED BY <1>1, <1>2, <1>3, <1>4, <1>5, <1>6 DEF IInv, BaseInv, SerialInv

-----------------------------------------------------------------------------
\* A client joins the end of a queue it is not in (queue.push, pglite-dialect.ts:53).
LEMMA AppendMembers ==
    ASSUME NEW s \in Seq(Client), NEW c \in Client,
           \A i, j \in DOMAIN s : s[i] = s[j] => i = j, \A i \in DOMAIN s : s[i] # c
    PROVE  /\ \A i, j \in DOMAIN Append(s, c) : Append(s, c)[i] = Append(s, c)[j] => i = j
           /\ \A d \in Client : (\E i \in DOMAIN Append(s, c) : Append(s, c)[i] = d)
                                    <=> (d = c \/ \E i \in DOMAIN s : s[i] = d)
<1> DEFINE t == Append(s, c)
           n == Len(s)
<1>1. n \in Nat /\ DOMAIN s = 1 .. n /\ DOMAIN t = 1 .. n + 1 OBVIOUS
<1>2. t[n + 1] = c /\ \A i \in 1 .. n : t[i] = s[i] OBVIOUS
<1> HIDE DEF t, n
<1>3. \A i \in 1 .. n + 1 : i = n + 1 \/ i \in 1 .. n BY <1>1
<1>4. \A i, j \in DOMAIN t : t[i] = t[j] => i = j
  <2> SUFFICES ASSUME NEW i \in 1 .. n + 1, NEW j \in 1 .. n + 1, t[i] = t[j] PROVE i = j
    BY <1>1
  <2>1. CASE i \in 1 .. n /\ j \in 1 .. n BY <2>1, <1>1, <1>2
  <2>2. CASE i = n + 1 \/ j = n + 1 BY <2>2, <1>1, <1>2, <1>3
  <2>3. QED BY <1>3, <2>1, <2>2
<1>5. ASSUME NEW d \in Client
      PROVE (\E i \in DOMAIN t : t[i] = d) <=> (d = c \/ \E i \in DOMAIN s : s[i] = d)
  <2>1. ASSUME NEW i \in DOMAIN t, t[i] = d PROVE d = c \/ \E j \in DOMAIN s : s[j] = d
    BY <2>1, <1>1, <1>2, <1>3
  <2>2. d = c => \E i \in DOMAIN t : t[i] = d
    <3>1. n + 1 \in DOMAIN t BY <1>1
    <3>2. QED BY <3>1, <1>2
  <2>3. ASSUME NEW i \in DOMAIN s, s[i] = d PROVE \E j \in DOMAIN t : t[j] = d
    <3>1. i \in DOMAIN t /\ t[i] = d BY <2>3, <1>1, <1>2
    <3>2. QED BY <3>1
  <2>4. QED BY <2>1, <2>2, <2>3
<1>6. QED BY <1>4, <1>5 DEF t

\* The first of a queue leaves it (queue.shift, pglite-dialect.ts:57).
LEMMA TailMembers ==
    ASSUME NEW s \in Seq(Client), s # <<>>,
           \A i, j \in DOMAIN s : s[i] = s[j] => i = j
    PROVE  /\ Tail(s) \in Seq(Client) /\ Head(s) \in Client
           /\ \E i \in DOMAIN s : s[i] = Head(s)
           /\ \A i, j \in DOMAIN Tail(s) : Tail(s)[i] = Tail(s)[j] => i = j
           /\ \A d \in Client : (\E i \in DOMAIN Tail(s) : Tail(s)[i] = d)
                                    <=> (d # Head(s) /\ \E i \in DOMAIN s : s[i] = d)
<1> DEFINE t == Tail(s)
           n == Len(s)
<1>1. /\ n \in Nat \ {0} /\ DOMAIN s = 1 .. n /\ DOMAIN t = 1 .. n - 1 /\ Head(s) = s[1]
      /\ t \in Seq(Client) /\ 1 \in DOMAIN s /\ s[1] \in Client
  OBVIOUS
<1>2. \A i \in 1 .. n - 1 : t[i] = s[i + 1] OBVIOUS
<1> HIDE DEF t, n
<1>3. \A i \in 1 .. n - 1 : i + 1 \in 1 .. n /\ i + 1 # 1 BY <1>1
<1>4. \A i, j \in DOMAIN t : t[i] = t[j] => i = j
  <2> SUFFICES ASSUME NEW i \in 1 .. n - 1, NEW j \in 1 .. n - 1, t[i] = t[j] PROVE i = j
    BY <1>1
  <2>1. i + 1 = j + 1 BY <1>1, <1>2, <1>3
  <2>2. QED BY <2>1
<1>5. ASSUME NEW d \in Client
      PROVE (\E i \in DOMAIN t : t[i] = d) <=> (d # Head(s) /\ \E i \in DOMAIN s : s[i] = d)
  <2>1. ASSUME NEW i \in DOMAIN t, t[i] = d PROVE d # Head(s) /\ \E j \in DOMAIN s : s[j] = d
    <3>1. i \in 1 .. n - 1 /\ s[i + 1] = d /\ i + 1 \in DOMAIN s /\ i + 1 # 1
      BY <2>1, <1>1, <1>2, <1>3
    <3>2. QED BY <3>1, <1>1
  <2>2. ASSUME NEW i \in DOMAIN s, s[i] = d, d # Head(s) PROVE \E j \in DOMAIN t : t[j] = d
    <3>1. i # 1 /\ i \in 1 .. n BY <2>2, <1>1
    <3>2. i - 1 \in 1 .. n - 1 /\ (i - 1) + 1 = i BY <3>1, <1>1
    <3>3. t[i - 1] = d BY <3>2, <2>2, <1>2
    <3>4. QED BY <3>2, <3>3, <1>1
  <2>3. QED BY <2>1, <2>2
<1>6. QED BY <1>1, <1>4, <1>5 DEF t

\* A client that is not waiting and moves on to a place where it does not wait
\* disturbs nothing of the queue (pglite-dialect.ts:42-60).
LEMMA QueueKept ==
    ASSUME BaseInv, NEW c \in Client, NEW p \in Place \ {"waiting"},
           at[c] # "waiting", at' = [at EXCEPT ![c] = p], UNCHANGED lock
    PROVE  QueueInv'
BY DEF BaseInv, TypeOK, QueueInv, lock

\* Acquire keeps the queue: a client that finds the lock held is appended.
LEMMA AcquireQueue ==
    ASSUME BaseInv, NEW c \in Client, Acquire(c)
    PROVE  QueueInv' /\ queue' \in Seq(Client)
<1> USE DEF BaseInv, TypeOK, QueueInv, Acquire, Goto
<1>1. CASE held
  <2>1. queue' = Append(queue, c) /\ at' = [at EXCEPT ![c] = "waiting"] /\ held' = held BY <1>1
  <2>2. \A i \in DOMAIN queue : queue[i] # c OBVIOUS
  <2>3. /\ \A i, j \in DOMAIN queue' : queue'[i] = queue'[j] => i = j
        /\ \A d \in Client : (\E i \in DOMAIN queue' : queue'[i] = d)
                                 <=> (d = c \/ \E i \in DOMAIN queue : queue[i] = d)
    <3>1. queue \in Seq(Client) /\ \A i, j \in DOMAIN queue : queue[i] = queue[j] => i = j OBVIOUS
    <3>2. /\ \A i, j \in DOMAIN Append(queue, c) :
                Append(queue, c)[i] = Append(queue, c)[j] => i = j
          /\ \A d \in Client : (\E i \in DOMAIN Append(queue, c) : Append(queue, c)[i] = d)
                                   <=> (d = c \/ \E i \in DOMAIN queue : queue[i] = d)
      BY <2>2, <3>1, AppendMembers
    <3>3. QED BY ONLY <2>1, <3>2
  <2>4. ASSUME NEW d \in Client PROVE at'[d] = "waiting" <=> d = c \/ at[d] = "waiting"
    BY <2>1
  <2>5. queue' \in Seq(Client) BY <2>1
  <2>6. QED BY <1>1, <2>1, <2>3, <2>4, <2>5
<1>2. CASE ~held BY <1>2
<1>3. QED BY <1>1, <1>2

\* What Release does to the places, in its two cases (release(), pglite-dialect.ts:56-60).
LEMMA ReleaseCases ==
    ASSUME BaseInv, NEW c \in Client, Release(c)
    PROVE  /\ at[c] \in Releasing /\ AfterRelease(c) \in {"rollback", "done"}
           /\ \/ /\ queue = <<>> /\ queue' = <<>> /\ held' = FALSE
                 /\ at' = [at EXCEPT ![c] = AfterRelease(c)]
              \/ \E d \in Client :
                    /\ queue # <<>> /\ d = Head(queue) /\ queue' = Tail(queue) /\ held' = held
                    /\ at[d] = "waiting" /\ d # c
                    /\ at' = [at EXCEPT ![c] = AfterRelease(c), ![d] = "granted"]
<1> USE DEF BaseInv, TypeOK, QueueInv
<1>1. at[c] \in Releasing /\ AfterRelease(c) \in {"rollback", "done"} BY DEF Release, AfterRelease
<1>2. CASE queue = <<>> BY <1>1, <1>2 DEF Release, Goto
<1>3. CASE queue # <<>>
  <2>1. 1 \in DOMAIN queue /\ Head(queue) = queue[1] /\ Head(queue) \in Client BY <1>3
  <2>2. at[Head(queue)] = "waiting" BY <2>1
  <2>3. Head(queue) # c BY <1>1, <2>2 DEF Releasing
  <2>4. QED BY <1>1, <1>3, <2>1, <2>2, <2>3 DEF Release
<1>4. QED BY <1>2, <1>3

\* Release keeps the queue: its first element is taken out and granted the lock.
LEMMA ReleaseQueue ==
    ASSUME BaseInv, NEW c \in Client, Release(c)
    PROVE  QueueInv' /\ queue' \in Seq(Client) /\ at' \in [Client -> Place]
<1> USE DEF BaseInv, TypeOK
<1>1. at[c] # "waiting" /\ AfterRelease(c) \in Place \ {"waiting"}
  BY ReleaseCases DEF Releasing, Place
<1>2. CASE queue = <<>>
  <2>1. queue' = <<>> /\ at' = [at EXCEPT ![c] = AfterRelease(c)] BY <1>2, ReleaseCases
  <2>2. \A d \in Client : at[d] # "waiting" BY <1>2 DEF QueueInv
  <2>3. \A d \in Client : at'[d] # "waiting" BY <1>1, <2>1, <2>2
  <2>4. QED BY <1>1, <2>1, <2>3 DEF QueueInv
<1>3. CASE queue # <<>>
  <2>1. PICK d \in Client :
           /\ d = Head(queue) /\ queue' = Tail(queue) /\ held' = held /\ at[d] = "waiting" /\ d # c
           /\ at' = [at EXCEPT ![c] = AfterRelease(c), ![d] = "granted"]
    BY <1>3, ReleaseCases
  <2>2. /\ queue' \in Seq(Client)
        /\ \A i, j \in DOMAIN queue' : queue'[i] = queue'[j] => i = j
        /\ \A e \in Client : (\E i \in DOMAIN queue' : queue'[i] = e)
                                 <=> (e # d /\ \E i \in DOMAIN queue : queue[i] = e)
    <3>1. queue \in Seq(Client) /\ \A i, j \in DOMAIN queue : queue[i] = queue[j] => i = j
      BY DEF QueueInv
    <3>2. /\ Tail(queue) \in Seq(Client)
          /\ \A i, j \in DOMAIN Tail(queue) : Tail(queue)[i] = Tail(queue)[j] => i = j
          /\ \A e \in Client : (\E i \in DOMAIN Tail(queue) : Tail(queue)[i] = e)
                                   <=> (e # Head(queue) /\ \E i \in DOMAIN queue : queue[i] = e)
      BY <1>3, <3>1, TailMembers
    <3>3. QED BY ONLY <2>1, <3>2
  <2>3. ASSUME NEW e \in Client PROVE at'[e] = "waiting" <=> e # d /\ at[e] = "waiting"
    BY <1>1, <2>1
  <2>4. \A e \in Client : at'[e] = "waiting" <=> \E i \in DOMAIN queue' : queue'[i] = e
    BY <2>2, <2>3 DEF QueueInv
  <2>5. held' BY <1>3, <2>1 DEF QueueInv
  <2>6. at' \in [Client -> Place] BY <1>1, <2>1 DEF Place
  <2>7. QED BY <2>2, <2>4, <2>5, <2>6 DEF QueueInv
<1>4. QED BY <1>2, <1>3

-----------------------------------------------------------------------------
Rows == UNION {RowsOf(c) : c \in Client}

\* A client that executes its next statement writes a row of its own.
LEMMA NextRow ==
    ASSUME BaseInv, NEW c \in Client, MayExecute(c)
    PROVE  /\ <<c, executed[c] + 1>> \in RowsOf(c) /\ <<c, executed[c] + 1>> \in Rows
           /\ executed[c] + 1 \in 0 .. Statements
           /\ c \in Plain => executed[c] = 0 /\ at[c] = "granted"
           /\ c \notin Plain => at[c] = "callback"
<1> USE DEF BaseInv, TypeOK
<1>0. Statements \in Nat \ {0} /\ executed[c] \in 0 .. Statements BY BoundAssumption
<1>1. c \in Plain => executed[c] = 0 /\ at[c] = "granted" BY DEF PlainInv, MayExecute
<1>2. c \notin Plain => at[c] = "callback" /\ executed[c] < Statements BY DEF MayExecute
<1>3. executed[c] + 1 \in 0 .. Statements BY <1>0, <1>1, <1>2
<1>4. executed[c] + 1 \in 1 .. Statements /\ (c \in Plain => executed[c] + 1 = 1)
  BY <1>0, <1>1, <1>3
<1>5. <<c, executed[c] + 1>> \in RowsOf(c) BY <1>4, RowsByNumber
<1>6. QED BY <1>1, <1>2, <1>3, <1>5 DEF Rows

\* A client moves to a place that is right for a plain one, without executing
\* anything, and PlainInv stays true.
LEMMA PlainKept ==
    ASSUME BaseInv, NEW c \in Client, NEW p \in Place, at' = [at EXCEPT ![c] = p],
           UNCHANGED executed,
           c \in Plain => p \in {"waiting", "granted", "executed", "failed", "done"},
           p \in {"waiting", "granted"} => at[c] \in {"idle", "waiting", "granted"},
           p # "idle"
    PROVE  PlainInv'
<1>1. ASSUME NEW d \in Plain
      PROVE at'[d] \in {"idle", "waiting", "granted", "executed", "failed", "done"}
  <2>1. d \in Client BY ClientAssumption
  <2>2. QED BY <2>1 DEF BaseInv, TypeOK, PlainInv
<1>2. ASSUME NEW d \in Client, at'[d] \in {"idle", "waiting", "granted"} PROVE executed'[d] = 0
  <2>1. CASE d = c BY <1>2, <2>1 DEF BaseInv, TypeOK, PlainInv
  <2>2. CASE d # c BY <1>2, <2>2 DEF BaseInv, TypeOK, PlainInv
  <2>3. QED BY <2>1, <2>2
<1>3. QED BY <1>1, <1>2 DEF PlainInv

\* A turn that leaves the flags alone keeps them right, if only a callback goes on to
\* the places inside a transaction (inTransaction, pglite-dialect.ts:73).
LEMMA FlagsKept ==
    ASSUME TypeOK, NEW c \in Client, NEW p \in Place, at' = [at EXCEPT ![c] = p],
           UNCHANGED inTransaction,
           p \in {"callback", "committed", "commitFailed"} => at[c] = "callback"
    PROVE  Flagged'
<1>1. at'[c] = p /\ \A d \in Client \ {c} : at'[d] = at[d] BY DEF TypeOK
<1>2. Flagged BY DEF TypeOK
<1>3. QED BY <1>1, <1>2 DEF Flagged

\* Every step keeps the types, the queue and the turns of the plain statements
\* (SessionLock, PgliteConnection and PgliteDriver).
LEMMA BaseStep ==
    ASSUME BaseInv, [Next]_vars
    PROVE  BaseInv'
<1> USE DEF BaseInv
<1>1. ASSUME NEW c \in Client, Acquire(c) PROVE BaseInv'
  <2> USE <1>1
  <2>1. QueueInv' /\ queue' \in Seq(Client) BY AcquireQueue
  <2>2. PICK p \in {"waiting", "granted"} : at' = [at EXCEPT ![c] = p] BY DEF Acquire, Goto
  <2>3. p \in Place BY <2>2 DEF Place
  <2>4. at[c] = "idle" /\ UNCHANGED executed BY DEF Acquire
  <2>5. PlainInv' BY <2>2, <2>3, <2>4, PlainKept
  <2>6. held' \in BOOLEAN BY DEF Acquire, TypeOK
  <2>7. UNCHANGED <<inTransaction, session, executed, answer, refused>> BY DEF Acquire
  <2>8. at' \in [Client -> Place] BY <2>2, <2>3 DEF TypeOK
  <2>9. Flagged' BY <2>2, <2>3, <2>7, FlagsKept
  <2>10. TypeOK' BY <2>1, <2>6, <2>7, <2>8, <2>9 DEF TypeOK, session
  <2>11. QED BY <2>1, <2>5, <2>10
<1>2. ASSUME NEW c \in Client, Begin(c) PROVE BaseInv'
  <2> USE <1>2
  <2>1. PICK p \in {"done", "callback"} : at' = [at EXCEPT ![c] = p]
    BY DEF Begin, Goto
  <2>2. p \in Place \ {"waiting"} BY <2>1 DEF Place
  <2>3. at[c] = "granted" /\ c \notin Plain /\ UNCHANGED lock /\ UNCHANGED executed BY DEF Begin
  <2>4. QueueInv' BY <2>1, <2>2, <2>3, QueueKept
  <2>5. PlainInv' BY <2>1, <2>2, <2>3, PlainKept
  <2>6. transaction' \in Client \cup {None} BY DEF Begin, TypeOK
  <2>7. answer' \in [Client -> {"none", "ok", "error"}] BY DEF Begin, TypeOK
  <2>8. inTransaction' \in [Client -> BOOLEAN] BY DEF Begin, TypeOK
  <2>9. at' \in [Client -> Place] BY <2>1, <2>2 DEF TypeOK
  <2>10. UNCHANGED <<held, queue, aborted, uncommitted, database, executed, refused>>
    BY DEF Begin, lock
  <2>11. Flagged'
    <3>1. inTransaction'[c] /\ \A d \in Client \ {c} : inTransaction'[d] = inTransaction[d]
      BY DEF Begin, TypeOK
    <3>2. \A d \in Client \ {c} : at'[d] = at[d] BY <2>1 DEF TypeOK
    <3>3. Flagged BY DEF TypeOK
    <3>4. QED BY <3>1, <3>2, <3>3, <2>3 DEF Flagged
  <2>12. TypeOK' BY <2>6, <2>7, <2>8, <2>9, <2>10, <2>11 DEF TypeOK
  <2>13. QED BY <2>4, <2>5, <2>12
<1>3. ASSUME NEW c \in Client, Execute(c) PROVE BaseInv'
  <2> USE <1>3
  <2>1. MayExecute(c) /\ UNCHANGED lock BY DEF Execute
  <2>2. /\ <<c, executed[c] + 1>> \in Rows /\ executed[c] + 1 \in 0 .. Statements
        /\ c \in Plain => executed[c] = 0 /\ at[c] = "granted"
        /\ c \notin Plain => at[c] = "callback"
    BY <2>1, NextRow
  <2>3. PICK p \in {"executed", "callback"} :
           at' = [at EXCEPT ![c] = p] /\ (c \in Plain => p = "executed")
    BY DEF Execute, Goto
  <2>4. p \in Place \ {"waiting"} BY <2>3 DEF Place, Releasing
  <2>5. QueueInv' BY <2>1, <2>2, <2>3, <2>4, QueueKept
  <2>6. executed' = [executed EXCEPT ![c] = executed[c] + 1] BY DEF Execute
  <2>7. PlainInv'
    <3>1. ASSUME NEW d \in Plain
          PROVE at'[d] \in {"idle", "waiting", "granted", "executed", "failed", "done"}
      <4>1. d \in Client BY ClientAssumption
      <4>2. QED BY <4>1, <2>3 DEF TypeOK, PlainInv
    <3>2. ASSUME NEW d \in Client, at'[d] \in {"idle", "waiting", "granted"}
          PROVE executed'[d] = 0
      <4>1. d # c BY <3>2, <2>3 DEF TypeOK
      <4>2. QED BY <3>2, <4>1, <2>3, <2>6 DEF TypeOK, PlainInv
    <3>3. QED BY <3>1, <3>2 DEF PlainInv
  <2>8. uncommitted' \subseteq Rows /\ database' \subseteq Rows
    BY <2>2 DEF Execute, TypeOK, Rows
  <2>9. executed' \in [Client -> 0 .. Statements] BY <2>2, <2>6 DEF TypeOK
  <2>10. at' \in [Client -> Place] BY <2>3, <2>4 DEF TypeOK
  <2>11. UNCHANGED <<held, queue, inTransaction, transaction, aborted, answer, refused>>
    BY DEF Execute, lock
  <2>12. p = "callback" => at[c] = "callback" BY <2>2, <2>3
  <2>13. Flagged' BY <2>3, <2>4, <2>11, <2>12, FlagsKept
  <2>14. TypeOK' BY <2>8, <2>9, <2>10, <2>11, <2>13 DEF TypeOK, Rows, RowsOf
  <2>15. QED BY <2>5, <2>7, <2>14
<1>4. ASSUME NEW c \in Client, StatementFails(c) PROVE BaseInv'
  <2> USE <1>4
  <2>1. at[c] \in {"granted", "callback"} /\ UNCHANGED lock /\ UNCHANGED executed
    BY DEF StatementFails, MayExecute
  <2>2. PICK p \in {"failed", "rollback"} :
           at' = [at EXCEPT ![c] = p] /\ (c \in Plain => p = "failed")
    BY DEF StatementFails, Goto
  <2>3. p \in Place \ {"waiting"} BY <2>2 DEF Place, Releasing
  <2>4. QueueInv' BY <2>1, <2>2, <2>3, QueueKept
  <2>5. PlainInv' BY <2>1, <2>2, <2>3, PlainKept
  <2>6. aborted' \in BOOLEAN /\ at' \in [Client -> Place]
    BY <2>2, <2>3 DEF StatementFails, TypeOK
  <2>7. UNCHANGED <<held, queue, transaction, uncommitted, database, executed, answer, refused>>
    BY DEF StatementFails, lock
  <2>8. UNCHANGED inTransaction BY DEF StatementFails
  <2>9. Flagged' BY <2>2, <2>3, <2>8, FlagsKept
  <2>10. TypeOK' BY <2>6, <2>7, <2>8, <2>9 DEF TypeOK
  <2>11. QED BY <2>4, <2>5, <2>10
<1>5. ASSUME NEW c \in Client, CallbackThrows(c) \/ Rollback(c) \/ Commit(c) \/ CommitRefused(c)
      PROVE BaseInv'
  <2> USE <1>5
  <2>1. PICK p \in {"rollback", "rolledBack", "committed", "commitFailed"} :
           at' = [at EXCEPT ![c] = p]
    BY DEF CallbackThrows, Rollback, Commit, CommitRefused, Goto
  <2>2. p \in Place \ {"waiting"} BY <2>1 DEF Place, Releasing
  <2>3. at[c] \in {"callback", "rollback"} /\ UNCHANGED lock /\ UNCHANGED executed
    BY DEF CallbackThrows, Rollback, Commit, CommitRefused
  <2>4. c \notin Plain BY <2>3 DEF PlainInv
  <2>5. QueueInv' BY <2>1, <2>2, <2>3, QueueKept
  <2>6. PlainInv' BY <2>1, <2>2, <2>3, <2>4, PlainKept
  <2>7. transaction' \in Client \cup {None} /\ aborted' \in BOOLEAN
    BY DEF TypeOK, CallbackThrows, Rollback, Commit, CommitRefused, EndTransaction, session
  <2>8. uncommitted' \subseteq Rows /\ database' \subseteq Rows
    BY DEF TypeOK, CallbackThrows, Rollback, Commit, CommitRefused, EndTransaction, session, Rows
  <2>9. refused' \in 0 .. MaxRefused
    BY BoundAssumption DEF TypeOK, CallbackThrows, Rollback, Commit, CommitRefused
  <2>10. UNCHANGED <<held, queue, inTransaction, executed, answer>>
    BY DEF CallbackThrows, Rollback, Commit, CommitRefused, lock
  <2>11. at' \in [Client -> Place] BY <2>1, <2>2 DEF TypeOK
  <2>12. p \in {"committed", "commitFailed"} => at[c] = "callback"
    BY <2>1, <2>3 DEF CallbackThrows, Rollback, Commit, CommitRefused, Goto, TypeOK
  <2>13. Flagged' BY <2>1, <2>2, <2>10, <2>12, FlagsKept
  <2>14. TypeOK' BY <2>7, <2>8, <2>9, <2>10, <2>11, <2>13 DEF TypeOK, Rows, RowsOf
  <2>15. QED BY <2>5, <2>6, <2>14
<1>6. ASSUME NEW c \in Client, Release(c) PROVE BaseInv'
  <2> USE <1>6
  <2>1. QueueInv' /\ queue' \in Seq(Client) /\ at' \in [Client -> Place] BY ReleaseQueue
  <2>2. at[c] \in Releasing /\ (c \in Plain => AfterRelease(c) = "done")
    BY ReleaseCases DEF PlainInv, AfterRelease
  <2>3. AfterRelease(c) \in {"rollback", "done"} BY ReleaseCases
  <2>4. UNCHANGED executed BY DEF Release
  <2>5. PlainInv'
    <3>1. CASE at' = [at EXCEPT ![c] = AfterRelease(c)]
      <4>1. AfterRelease(c) \in Place BY <2>3 DEF Place
      <4>2. c \in Plain => AfterRelease(c) = "done" BY <2>2
      <4>3. QED BY <3>1, <4>1, <4>2, <2>3, <2>4, PlainKept
    <3>2. ASSUME NEW d \in Client, at[d] = "waiting", d # c,
                 at' = [at EXCEPT ![c] = AfterRelease(c), ![d] = "granted"]
          PROVE PlainInv'
      <4>1. ASSUME NEW e \in Plain
            PROVE at'[e] \in {"idle", "waiting", "granted", "executed", "failed", "done"}
        <5>1. e \in Client BY ClientAssumption
        <5>2. QED BY <5>1, <3>2, <2>2 DEF TypeOK, PlainInv
      <4>2. ASSUME NEW e \in Client, at'[e] \in {"idle", "waiting", "granted"}
            PROVE executed'[e] = 0
        <5>1. CASE e = c BY <4>2, <5>1, <3>2, <2>3 DEF TypeOK
        <5>2. CASE e = d BY <5>2, <3>2, <2>4 DEF PlainInv
        <5>3. CASE e # c /\ e # d BY <4>2, <5>3, <3>2, <2>4 DEF TypeOK, PlainInv
        <5>4. QED BY <5>1, <5>2, <5>3
      <4>3. QED BY <4>1, <4>2 DEF PlainInv
    <3>3. QED BY <3>1, <3>2, ReleaseCases
  <2>6. held' \in BOOLEAN BY ReleaseCases DEF TypeOK
  <2>7. AnswerAfterRelease(c) \in {"none", "ok", "error"} BY DEF AnswerAfterRelease, TypeOK
  <2>8. inTransaction' \in [Client -> BOOLEAN] /\ answer' \in [Client -> {"none", "ok", "error"}]
    BY <2>7 DEF Release, TypeOK
  <2>9. UNCHANGED <<session, executed, refused>> BY DEF Release
  <2>10. Flagged'
    <3>1. inTransaction'[c] = FALSE /\ \A d \in Client \ {c} : inTransaction'[d] = inTransaction[d]
      BY DEF Release, TypeOK
    <3>2. Flagged BY DEF TypeOK
    <3>3. at'[c] = AfterRelease(c)
          /\ \A d \in Client \ {c} : at'[d] = at[d] \/ at'[d] = "granted"
      <4>1. at \in [Client -> Place] BY DEF TypeOK
      <4>2. CASE at' = [at EXCEPT ![c] = AfterRelease(c)] BY <4>1, <4>2
      <4>3. ASSUME NEW e \in Client, e # c,
                   at' = [at EXCEPT ![c] = AfterRelease(c), ![e] = "granted"]
            PROVE  at'[c] = AfterRelease(c)
                   /\ \A d \in Client \ {c} : at'[d] = at[d] \/ at'[d] = "granted"
        BY <4>1, <4>3
      <4>4. QED BY <4>2, <4>3, ReleaseCases
    <3>4. QED BY <3>1, <3>2, <3>3, <2>3 DEF Flagged
  <2>11. TypeOK' BY <2>1, <2>6, <2>8, <2>9, <2>10 DEF TypeOK, session
  <2>12. QED BY <2>1, <2>5, <2>11
<1>7. CASE UNCHANGED vars
  <2>1. TypeOK' BY <1>7 DEF TypeOK, Flagged, vars, lock, session
  <2>2. QueueInv' BY <1>7 DEF QueueInv, vars
  <2>3. PlainInv' BY <1>7 DEF PlainInv, vars
  <2>4. QED BY <2>1, <2>2, <2>3
<1>8. QED BY <1>1, <1>2, <1>3, <1>4, <1>5, <1>6, <1>7 DEF Next, Step

\* Whatever happens, refused COMMITs included, the state of the dialect is well
\* formed (every field of pglite-dialect.ts:42-146).
THEOREM TypeCorrect == Spec => []TypeOK
<1>1. Init => BaseInv BY InitIInv DEF IInv
<1>2. BaseInv /\ [Next]_vars => BaseInv' BY BaseStep
<1>3. BaseInv => TypeOK BY DEF BaseInv
<1>4. QED BY <1>1, <1>2, <1>3, PTL DEF Spec

\* Whatever happens, nobody who comes later is served before a client that waits
\* (acquire and release, pglite-dialect.ts:40-60).
THEOREM FirstComeFirst == Spec => FirstComeFirstServed
<1>1. ASSUME BaseInv, [Next]_vars, NEW c \in Client, NEW d \in Client,
             at[c] = "waiting", at'[c] = "waiting", at[d] # "granted", at'[d] = "granted"
      PROVE \E i, j \in DOMAIN queue : i < j /\ queue[i] = d /\ queue[j] = c
  <2> USE <1>1 DEF BaseInv, TypeOK
  <2>1. PICK j \in DOMAIN queue : queue[j] = c BY DEF QueueInv
  <2>2. PICK e \in Client : Acquire(e) \/ Release(e)
    <3>1. ASSUME NEW e \in Client,
                 Begin(e) \/ Execute(e) \/ StatementFails(e) \/ CallbackThrows(e)
                 \/ Commit(e) \/ CommitRefused(e) \/ Rollback(e)
          PROVE FALSE
      <4>1. PICK p \in Place \ {"granted"} : at' = [at EXCEPT ![e] = p]
        BY <3>1 DEF Begin, Execute, StatementFails, CallbackThrows, Commit, CommitRefused,
                    Rollback, Goto, Place, Releasing
      <4>2. QED BY <4>1
    <3>2. ~UNCHANGED vars BY DEF vars
    <3>3. QED BY <3>1, <3>2 DEF Next, Step
  <2>3. ~Acquire(e)
    <3> SUFFICES ASSUME Acquire(e) PROVE FALSE OBVIOUS
    <3>1. held BY <2>1 DEF QueueInv
    <3>2. at' = [at EXCEPT ![e] = "waiting"] BY <3>1 DEF Acquire, Goto
    <3>3. QED BY <3>2
  <2>4. Release(e) BY <2>2, <2>3
  <2>5. queue # <<>> BY <2>1
  <2>6. at' = [at EXCEPT ![e] = AfterRelease(e), ![Head(queue)] = "granted"]
        /\ AfterRelease(e) \in {"rollback", "done"}
    BY <2>4, <2>5, ReleaseCases
  <2>7. d = Head(queue) /\ c # Head(queue) BY <2>6
  <2>8. 1 \in DOMAIN queue /\ queue[1] = Head(queue) /\ j # 1 /\ 1 < j BY <2>1, <2>5, <2>7
  <2>9. QED BY <2>1, <2>7, <2>8
<1>2. BaseInv /\ [Next]_vars =>
        [\A c, d \in Client :
            /\ at[c] = "waiting" /\ at'[c] = "waiting"
            /\ at[d] # "granted" /\ at'[d] = "granted"
            => \E i, j \in DOMAIN queue : i < j /\ queue[i] = d /\ queue[j] = c]_vars
  BY <1>1
<1>3. Init => BaseInv BY InitIInv DEF IInv
<1>4. BaseInv /\ [Next]_vars => BaseInv' BY BaseStep
<1>5. QED BY <1>2, <1>3, <1>4, PTL DEF Spec, FirstComeFirstServed

-----------------------------------------------------------------------------
(***************************************************************************)
(* Until a COMMIT is refused.                                              *)
(***************************************************************************)
Working == {"callback", "rollback"}

\* The owner goes on to another of its places (a transaction's statements all run
\* under one acquire, pglite-dialect.ts:112-137).
LEMMA LockKept ==
    ASSUME TypeOK, LockInv, NEW c \in Client, NEW p \in Owning, at[c] \in Owning,
           at' = [at EXCEPT ![c] = p], UNCHANGED held,
           \A d \in Client \ {c} : inTransaction'[d] = inTransaction[d],
           inTransaction'[c] <=> p \in InTransaction
    PROVE  LockInv'
<1>1. at'[c] = p /\ \A d \in Client \ {c} : at'[d] = at[d] BY DEF TypeOK
<1>2. "commitFailed" \notin Owning BY DEF Owning, InTransaction
<1>3. \A d \in Client : inTransaction'[d] <=> at'[d] \in InTransaction BY <1>1 DEF LockInv
<1>4. \A d \in Client : at'[d] # "commitFailed" BY <1>1, <1>2 DEF LockInv
<1>5. \A d, e \in Client : at'[d] \in Owning /\ at'[e] \in Owning => d = e BY <1>1 DEF LockInv
<1>6. held' /\ \E d \in Client : at'[d] \in Owning BY <1>1 DEF LockInv
<1>7. QED BY <1>3, <1>4, <1>5, <1>6 DEF LockInv

\* Nobody who is at work in a transaction does anything.
LEMMA TransactionKept ==
    ASSUME TypeOK, TransactionInv, UNCHANGED <<transaction, aborted, uncommitted>>,
           \A d \in Client : at[d] \in Working \/ at'[d] \in Working
               => at'[d] = at[d] /\ executed'[d] = executed[d]
    PROVE  TransactionInv'
<1> USE DEF Working
<1>1. \A d \in Client : transaction' = d <=> at'[d] \in {"callback", "rollback"}
  BY DEF TransactionInv
<1>2. aborted' => \E d \in Client : at'[d] = "rollback" BY DEF TransactionInv
<1>3. transaction' = None => uncommitted' = {} BY DEF TransactionInv
<1>4. ASSUME NEW d \in Client, at'[d] = "callback"
      PROVE uncommitted' = {<<d, n>> : n \in 1 .. executed'[d]}
  <2>1. at[d] = "callback" /\ executed'[d] = executed[d] BY <1>4
  <2>2. QED BY <2>1 DEF TransactionInv
<1>5. QED BY <1>1, <1>2, <1>3, <1>4 DEF TransactionInv

\* Nothing is committed and nobody is answered.
LEMMA DataKept ==
    ASSUME TypeOK, DataInv, NEW c \in Client, NEW p \in Undone, at[c] \in Undone,
           at' = [at EXCEPT ![c] = p], UNCHANGED <<database, answer>>
    PROVE  DataInv'
<1>1. at'[c] = p /\ \A d \in Client \ {c} : at'[d] = at[d] BY DEF TypeOK
<1>2. at[c] # "done" /\ p \notin {"executed", "committed"} BY DEF Undone
<1>3. \A d \in Client : at'[d] \in {"executed", "committed"} => RowsOf(d) \subseteq database
  BY <1>1, <1>2 DEF DataInv
<1>4. \A d \in Client : at'[d] \in Undone => RowsOf(d) \cap database = {} BY <1>1 DEF DataInv
<1>5. \A d \in Client : at'[d] # "done" => answer'[d] = "none" BY <1>1, <1>2 DEF DataInv
<1>6. QED BY <1>3, <1>4, <1>5 DEF DataInv, RowsOf

\* A job takes effect as a whole, and its client has not been answered.
LEMMA DataPerformed ==
    ASSUME TypeOK, DataInv, NEW c \in Client, NEW p \in {"executed", "committed"},
           at[c] \in Undone, at' = [at EXCEPT ![c] = p],
           database' = database \cup RowsOf(c), UNCHANGED answer
    PROVE  DataInv' /\ Serial!Perform(c)
<1>1. at'[c] = p /\ \A d \in Client \ {c} : at'[d] = at[d] BY DEF TypeOK
<1>2. at[c] # "done" /\ p \notin Undone BY DEF Undone
<1>3. \A d \in Client : at'[d] \in {"executed", "committed"} => RowsOf(d) \subseteq database'
  BY <1>1 DEF DataInv
<1>4. ASSUME NEW d \in Client, at'[d] \in Undone PROVE RowsOf(d) \cap database' = {}
  <2>1. d # c /\ at[d] \in Undone BY <1>1, <1>2, <1>4
  <2>2. RowsOf(d) \cap database = {} BY <2>1 DEF DataInv
  <2>3. RowsOf(d) \cap RowsOf(c) = {} BY <2>1, RowsApart
  <2>4. QED BY <2>2, <2>3
<1>5. \A d \in Client : at'[d] # "done" => answer'[d] = "none" BY <1>1, <1>2 DEF DataInv
<1>6. answer[c] = "none" /\ RowsOf(c) \cap database = {} BY <1>2 DEF DataInv
<1>7. DataInv' BY <1>3, <1>4, <1>5 DEF DataInv, RowsOf
<1>8. Serial!Perform(c) BY <1>6 DEF Serial!Perform
<1>9. QED BY <1>7, <1>8

\* While a client has the lock and no transaction, nobody has a transaction; while it
\* has one, it is the session's.
LEMMA AloneAtWork ==
    ASSUME BaseInv, LockInv, TransactionInv, NEW c \in Client, at[c] \in Owning
    PROVE  /\ \A d \in Client \ {c} : at[d] \notin Owning /\ at[d] \notin Working
           /\ at[c] \in Working => transaction = c
           /\ at[c] \notin Working => transaction = None /\ ~aborted
           /\ at[c] = "callback" => ~aborted
<1>1. \A d \in Client \ {c} : at[d] \notin Owning BY DEF LockInv
<1>2. Working \subseteq Owning BY DEF Working, Owning, InTransaction
<1>3. \A d \in Client \ {c} : at[d] \notin Working BY <1>1, <1>2
<1>4. at[c] \in Working => transaction = c BY DEF TransactionInv, Working
<1>5. at[c] \notin Working => transaction = None
  BY <1>3 DEF TransactionInv, BaseInv, TypeOK, Working
<1>6. at[c] # "rollback" => ~aborted BY <1>3 DEF TransactionInv, Working
<1>7. "rollback" \in Working /\ "callback" # "rollback" BY DEF Working
<1>8. QED BY <1>1, <1>3, <1>4, <1>5, <1>6, <1>7

SerialAfter == LockInv' /\ TransactionInv' /\ DataInv' /\ (Serial!Next \/ UNCHANGED Serial!vars)
Before == BaseInv /\ LockInv /\ TransactionInv /\ DataInv

\* acquire(): the lock is taken only when nobody owns it (pglite-dialect.ts:48-54).
LEMMA SerialAcquire ==
    ASSUME Before, NEW c \in Client, Acquire(c)
    PROVE  SerialAfter
<1> USE DEF Before, BaseInv
<1>1. at[c] = "idle" /\ UNCHANGED <<inTransaction, session, executed, answer>> BY DEF Acquire
<1>2. PICK p \in {"waiting", "granted"} : at' = [at EXCEPT ![c] = p] BY DEF Acquire, Goto
<1>3. at'[c] = p /\ \A d \in Client \ {c} : at'[d] = at[d] BY <1>2 DEF TypeOK
<1>4. TransactionInv' BY <1>1, <1>2, <1>3, TransactionKept DEF session, Working
<1>5. DataInv' BY <1>1, <1>2, DataKept DEF session, Undone
<1>6. LockInv'
  <2>1. \A d \in Client : inTransaction'[d] <=> at'[d] \in InTransaction
    BY <1>1, <1>2, <1>3 DEF LockInv, InTransaction
  <2>2. \A d \in Client : at'[d] # "commitFailed" BY <1>2, <1>3 DEF LockInv
  <2>3. CASE held
    <3>1. held' /\ at'[c] = "waiting" BY <2>3, <1>2, <1>3 DEF Acquire, Goto, TypeOK
    <3>2. "waiting" \notin Owning /\ "idle" \notin Owning BY DEF Owning, InTransaction
    <3>3. \A d \in Client : at'[d] \in Owning <=> at[d] \in Owning BY <1>1, <1>3, <3>1, <3>2
    <3>4. QED BY <2>1, <2>2, <2>3, <3>1, <3>3 DEF LockInv
  <2>4. CASE ~held
    <3>1. held' /\ at'[c] = "granted" BY <2>4, <1>2, <1>3 DEF Acquire, Goto, TypeOK
    <3>2. "granted" \in Owning BY DEF Owning
    <3>3. \A d \in Client : at[d] \notin Owning BY <2>4 DEF LockInv
    <3>4. \A d \in Client : at'[d] \in Owning <=> d = c BY <1>3, <3>1, <3>2, <3>3
    <3>5. QED BY <2>1, <2>2, <3>1, <3>4 DEF LockInv
  <2>5. QED BY <2>3, <2>4
<1>7. UNCHANGED Serial!vars BY <1>1 DEF session, Serial!vars
<1>8. QED BY <1>4, <1>5, <1>6, <1>7 DEF SerialAfter

\* BEGIN by the owner finds no open transaction (pglite-dialect.ts:112-117).
LEMMA SerialBegin ==
    ASSUME Before, NEW c \in Client, Begin(c)
    PROVE  SerialAfter
<1> USE DEF Before, BaseInv
<1>1. at[c] = "granted" /\ UNCHANGED <<held, queue, aborted, uncommitted, database, executed>>
  BY DEF Begin, lock
<1>2. at[c] \in Owning /\ at[c] \notin Working BY <1>1 DEF Owning, Working
<1>3. transaction = None /\ ~aborted /\ \A d \in Client \ {c} : at[d] \notin Working
  BY <1>2, AloneAtWork
<1>4. at' = [at EXCEPT ![c] = "callback"] /\ UNCHANGED answer /\ transaction' = c
  BY <1>3 DEF Begin, Goto
<1>5. at'[c] = "callback" /\ \A d \in Client \ {c} : at'[d] = at[d] BY <1>4 DEF TypeOK
<1>6. inTransaction'[c] /\ \A d \in Client \ {c} : inTransaction'[d] = inTransaction[d]
  BY DEF Begin, TypeOK
<1>7. LockInv' BY <1>1, <1>2, <1>4, <1>6, LockKept DEF Owning, InTransaction
<1>8. DataInv' BY <1>1, <1>4, DataKept DEF Undone
<1>9. TransactionInv'
  <2>1. uncommitted' = {} /\ executed'[c] = 0 BY <1>1, <1>3 DEF TransactionInv, PlainInv
  <2>2. uncommitted' = {<<c, n>> : n \in 1 .. executed'[c]} BY <2>1
  <2>3. \A d \in Client : transaction' = d <=> at'[d] \in {"callback", "rollback"}
    BY <1>3, <1>4, <1>5 DEF Working
  <2>4. ~aborted' /\ transaction' # None BY <1>1, <1>3, <1>4, ClientAssumption
  <2>5. \A d \in Client : at'[d] = "callback" => d = c BY <1>3, <1>5 DEF Working
  <2>6. QED BY <2>2, <2>3, <2>4, <2>5 DEF TransactionInv
<1>10. UNCHANGED Serial!vars BY <1>1, <1>4 DEF Serial!vars
<1>11. QED BY <1>7, <1>8, <1>9, <1>10 DEF SerialAfter

\* A plain statement is a job performed; one inside a transaction is not seen yet
\* (executeQuery, pglite-dialect.ts:78-90).
LEMMA SerialExecute ==
    ASSUME Before, NEW c \in Client, Execute(c)
    PROVE  SerialAfter
<1> USE DEF Before, BaseInv
<1>1. MayExecute(c) /\ ~aborted /\ UNCHANGED <<held, queue, inTransaction, transaction, aborted, answer>>
  BY DEF Execute, lock
<1>2. /\ executed' = [executed EXCEPT ![c] = executed[c] + 1]
      /\ \A d \in Client \ {c} : executed'[d] = executed[d]
  BY DEF Execute, TypeOK
<1>3. \A d \in Client \ {c} : inTransaction'[d] = inTransaction[d] BY <1>1
<1>4. CASE c \in Plain
  <2>1. at[c] = "granted" /\ executed[c] = 0 BY <1>1, <1>4, NextRow
  <2>2. at[c] \in Owning /\ at[c] \notin Working BY <2>1 DEF Owning, Working
  <2>3. transaction = None BY <2>2, AloneAtWork
  <2>4. /\ at' = [at EXCEPT ![c] = "executed"] /\ UNCHANGED uncommitted
        /\ database' = database \cup {<<c, 1>>}
    BY <1>4, <2>1, <2>3 DEF Execute, Goto
  <2>5. at'[c] = "executed" /\ \A d \in Client \ {c} : at'[d] = at[d] BY <2>4 DEF TypeOK
  <2>6. ~inTransaction'[c] BY <1>1, <2>1 DEF LockInv, InTransaction
  <2>7. LockInv' BY <1>1, <1>3, <2>2, <2>4, <2>6, LockKept DEF Owning, InTransaction
  <2>8. TransactionInv' BY <1>1, <1>2, <2>1, <2>4, <2>5, TransactionKept DEF Working
  <2>9. RowsOf(c) = {<<c, 1>>} BY <1>4, RowsByNumber
  <2>10. DataInv' /\ Serial!Perform(c) BY <1>1, <2>1, <2>4, <2>9, DataPerformed DEF Undone
  <2>11. QED BY <2>7, <2>8, <2>10 DEF SerialAfter, Serial!Next
<1>5. CASE c \notin Plain
  <2>1. at[c] = "callback" BY <1>1, <1>5, NextRow
  <2>2. at[c] \in Owning /\ at[c] \in Working BY <2>1 DEF Owning, InTransaction, Working
  <2>3. transaction = c /\ \A d \in Client \ {c} : at[d] \notin Working BY <2>2, AloneAtWork
  <2>4. transaction # None BY <2>3, ClientAssumption
  <2>5. /\ at' = [at EXCEPT ![c] = "callback"] /\ UNCHANGED database
        /\ uncommitted' = uncommitted \cup {<<c, executed[c] + 1>>}
    BY <1>5, <2>4 DEF Execute, Goto
  <2>6. at' = at BY <2>1, <2>5 DEF TypeOK
  <2>7. LockInv' BY <1>1, <2>6 DEF LockInv
  <2>8. DataInv' BY <1>1, <2>1, <2>5, DataKept DEF Undone
  <2>9. TransactionInv'
    <3>1. executed[c] \in Nat /\ executed'[c] = executed[c] + 1 BY <1>2, BoundAssumption DEF TypeOK
    <3>2. 1 .. executed[c] + 1 = (1 .. executed[c]) \cup {executed[c] + 1} BY <3>1
    <3>3. uncommitted = {<<c, n>> : n \in 1 .. executed[c]} BY <2>1 DEF TransactionInv
    <3>4. uncommitted' = {<<c, n>> : n \in 1 .. executed'[c]} BY <2>5, <3>1, <3>2, <3>3
    <3>5. \A d \in Client : at'[d] = "callback" => d = c BY <2>3, <2>6 DEF Working
    <3>6. \A d \in Client : transaction' = d <=> at'[d] \in {"callback", "rollback"}
      BY <1>1, <2>6 DEF TransactionInv
    <3>7. ~aborted' /\ transaction' # None BY <1>1, <2>4
    <3>8. QED BY <3>4, <3>5, <3>6, <3>7 DEF TransactionInv
  <2>10. UNCHANGED Serial!vars BY <1>1, <2>5 DEF Serial!vars
  <2>11. QED BY <2>7, <2>8, <2>9, <2>10 DEF SerialAfter
<1>6. QED BY <1>4, <1>5

\* A statement that fails aborts at most the transaction of its own client.
LEMMA SerialStatementFails ==
    ASSUME Before, NEW c \in Client, StatementFails(c)
    PROVE  SerialAfter
<1> USE DEF Before, BaseInv
<1>1. /\ MayExecute(c)
      /\ UNCHANGED <<held, inTransaction, transaction, uncommitted, database, executed, answer>>
  BY DEF StatementFails, lock
<1>2. CASE c \in Plain
  <2>1. at[c] = "granted" BY <1>1, <1>2, NextRow
  <2>2. at[c] \in Owning /\ at[c] \notin Working BY <2>1 DEF Owning, Working
  <2>3. transaction = None /\ ~aborted BY <2>2, AloneAtWork
  <2>4. at' = [at EXCEPT ![c] = "failed"] /\ ~aborted' BY <1>2, <2>3 DEF StatementFails, Goto
  <2>5. UNCHANGED aborted BY <2>3, <2>4 DEF StatementFails, TypeOK
  <2>6. at'[c] = "failed" /\ \A d \in Client \ {c} : at'[d] = at[d] BY <2>4 DEF TypeOK
  <2>7. ~inTransaction'[c] BY <1>1, <2>1 DEF LockInv, InTransaction
  <2>8. LockInv' BY <1>1, <2>2, <2>4, <2>7, LockKept DEF Owning, InTransaction
  <2>9. TransactionInv' BY <1>1, <2>1, <2>5, <2>6, TransactionKept DEF Working
  <2>10. DataInv' BY <1>1, <2>1, <2>4, DataKept DEF Undone
  <2>11. QED BY <1>1, <2>8, <2>9, <2>10 DEF SerialAfter, Serial!vars
<1>3. CASE c \notin Plain
  <2>1. at[c] = "callback" BY <1>1, <1>3, NextRow
  <2>2. at[c] \in Owning /\ at[c] \in Working BY <2>1 DEF Owning, InTransaction, Working
  <2>3. transaction = c /\ \A d \in Client \ {c} : at[d] \notin Working BY <2>2, AloneAtWork
  <2>4. at' = [at EXCEPT ![c] = "rollback"] BY <1>3 DEF StatementFails, Goto
  <2>5. at'[c] = "rollback" /\ \A d \in Client \ {c} : at'[d] = at[d] BY <2>4 DEF TypeOK
  <2>6. inTransaction'[c] BY <1>1, <2>1 DEF LockInv, InTransaction
  <2>7. LockInv' BY <1>1, <2>2, <2>4, <2>6, LockKept DEF Owning, InTransaction
  <2>8. DataInv' BY <1>1, <2>1, <2>4, DataKept DEF Undone
  <2>9. TransactionInv' BY <1>1, <2>3, <2>5, ClientAssumption DEF TransactionInv, Working
  <2>10. QED BY <1>1, <2>7, <2>8, <2>9 DEF SerialAfter, Serial!vars
<1>4. QED BY <1>2, <1>3

\* A callback that throws changes nothing of the session.
LEMMA SerialCallbackThrows ==
    ASSUME Before, NEW c \in Client, CallbackThrows(c)
    PROVE  SerialAfter
<1> USE DEF Before, BaseInv
<1>1. /\ at[c] = "callback" /\ at' = [at EXCEPT ![c] = "rollback"]
      /\ UNCHANGED <<held, inTransaction, transaction, aborted, uncommitted, database, executed, answer>>
  BY DEF CallbackThrows, Goto, lock, session
<1>2. at[c] \in Owning /\ at[c] \in Working BY <1>1 DEF Owning, InTransaction, Working
<1>3. transaction = c /\ \A d \in Client \ {c} : at[d] \notin Working BY <1>2, AloneAtWork
<1>4. at'[c] = "rollback" /\ \A d \in Client \ {c} : at'[d] = at[d] BY <1>1 DEF TypeOK
<1>5. inTransaction'[c] BY <1>1 DEF LockInv, InTransaction
<1>6. LockInv' BY <1>1, <1>2, <1>5, LockKept DEF Owning, InTransaction
<1>7. DataInv' BY <1>1, DataKept DEF Undone
<1>8. TransactionInv' BY <1>1, <1>3, <1>4, ClientAssumption DEF TransactionInv, Working
<1>9. QED BY <1>1, <1>6, <1>7, <1>8 DEF SerialAfter, Serial!vars

\* COMMIT performs the job of its client (pglite-dialect.ts:119-123).
LEMMA SerialCommit ==
    ASSUME Before, NEW c \in Client, Commit(c)
    PROVE  SerialAfter
<1> USE DEF Before, BaseInv
<1>1. /\ at[c] = "callback" /\ executed[c] = Statements /\ at' = [at EXCEPT ![c] = "committed"]
      /\ UNCHANGED <<held, inTransaction, executed, answer>>
      /\ transaction' = None /\ ~aborted' /\ uncommitted' = {}
  BY DEF Commit, Goto, lock, EndTransaction
<1>2. at[c] \in Owning /\ at[c] \in Working BY <1>1 DEF Owning, InTransaction, Working
<1>3. ~aborted /\ \A d \in Client \ {c} : at[d] \notin Working BY <1>1, <1>2, AloneAtWork
<1>4. at'[c] = "committed" /\ \A d \in Client \ {c} : at'[d] = at[d] BY <1>1 DEF TypeOK
<1>5. c \notin Plain BY <1>1 DEF PlainInv
<1>6. uncommitted = RowsOf(c) BY <1>1, <1>5, RowsByNumber DEF TransactionInv
<1>7. database' = database \cup RowsOf(c) BY <1>3, <1>6 DEF Commit
<1>8. inTransaction'[c] BY <1>1 DEF LockInv, InTransaction
<1>9. LockInv' BY <1>1, <1>2, <1>8, LockKept DEF Owning, InTransaction
<1>10. DataInv' /\ Serial!Perform(c) BY <1>1, <1>7, DataPerformed DEF Undone
<1>11. TransactionInv' BY <1>1, <1>3, <1>4, ClientAssumption DEF TransactionInv, Working
<1>12. QED BY <1>9, <1>10, <1>11 DEF SerialAfter, Serial!Next

\* ROLLBACK ends the transaction of its own client (pglite-dialect.ts:129-133).
LEMMA SerialRollback ==
    ASSUME Before, NEW c \in Client, Rollback(c)
    PROVE  SerialAfter
<1> USE DEF Before, BaseInv
<1>1. /\ at[c] = "rollback" /\ at' = [at EXCEPT ![c] = "rolledBack"]
      /\ UNCHANGED <<held, inTransaction, database, executed, answer>>
      /\ transaction' = None /\ ~aborted' /\ uncommitted' = {}
  BY DEF Rollback, Goto, lock, EndTransaction
<1>2. at[c] \in Owning BY <1>1 DEF Owning, InTransaction
<1>3. \A d \in Client \ {c} : at[d] \notin Working BY <1>2, AloneAtWork
<1>4. at'[c] = "rolledBack" /\ \A d \in Client \ {c} : at'[d] = at[d] BY <1>1 DEF TypeOK
<1>5. inTransaction'[c] BY <1>1 DEF LockInv, InTransaction
<1>6. LockInv' BY <1>1, <1>2, <1>5, LockKept DEF Owning, InTransaction
<1>7. DataInv' BY <1>1, DataKept DEF Undone
<1>8. TransactionInv' BY <1>1, <1>3, <1>4, ClientAssumption DEF TransactionInv, Working
<1>9. QED BY <1>1, <1>6, <1>7, <1>8 DEF SerialAfter, Serial!vars

\* Release answers truly and hands the lock to one client (pglite-dialect.ts:56-69).
LEMMA SerialRelease ==
    ASSUME Before, NEW c \in Client, Release(c)
    PROVE  SerialAfter
<1> USE DEF Before, BaseInv
<1>1. at[c] \in {"executed", "failed", "committed", "rolledBack"}
  BY ReleaseCases DEF LockInv, Releasing
<1>2. AfterRelease(c) = "done" /\ at[c] \in Owning
  BY <1>1 DEF AfterRelease, Owning, InTransaction
<1>3. UNCHANGED <<transaction, aborted, uncommitted, database, executed>>
  BY DEF Release, session
<1>4. /\ ~inTransaction'[c] /\ answer'[c] = AnswerAfterRelease(c)
      /\ \A d \in Client \ {c} : inTransaction'[d] = inTransaction[d] /\ answer'[d] = answer[d]
      /\ answer' = [answer EXCEPT ![c] = AnswerAfterRelease(c)]
  BY DEF Release, TypeOK
<1>5. at'[c] = "done" /\ \A d \in Client \ {c} :
         at'[d] = at[d] \/ (at[d] = "waiting" /\ at'[d] = "granted" /\ queue # <<>> /\ d = Head(queue))
  <2>1. CASE queue = <<>>
    <3>1. at' = [at EXCEPT ![c] = "done"] BY <2>1, <1>2, ReleaseCases
    <3>2. QED BY <3>1 DEF TypeOK
  <2>2. CASE queue # <<>>
    <3>1. PICK d \in Client :
             /\ d = Head(queue) /\ at[d] = "waiting" /\ d # c
             /\ at' = [at EXCEPT ![c] = AfterRelease(c), ![d] = "granted"]
      BY <2>2, ReleaseCases
    <3>2. QED BY <2>2, <3>1, <1>2 DEF TypeOK
  <2>3. QED BY <2>1, <2>2
<1>6. \A d \in Client \ {c} : at[d] \notin Owning BY <1>2, AloneAtWork
<1>7. LockInv'
  <2> USE DEF Owning, InTransaction
  <2>1. \A d \in Client : inTransaction'[d] <=> at'[d] \in InTransaction
    BY <1>4, <1>5 DEF LockInv
  <2>2. \A d \in Client : at'[d] # "commitFailed" BY <1>5 DEF LockInv
  <2>3. \A d \in Client : at'[d] \in Owning => queue # <<>> /\ d = Head(queue)
    <3>1. ASSUME NEW d \in Client, at'[d] \in Owning PROVE queue # <<>> /\ d = Head(queue)
      <4>1. d # c BY <3>1, <1>5
      <4>2. at[d] \notin Owning BY <4>1, <1>6
      <4>3. QED BY <3>1, <4>1, <4>2, <1>5
    <3>2. QED BY <3>1
  <2>4. held' <=> \E d \in Client : at'[d] \in Owning
    <3>1. CASE queue = <<>>
      <4>1. ~held' BY <3>1, ReleaseCases
      <4>2. QED BY <3>1, <4>1, <2>3
    <3>2. CASE queue # <<>>
      <4>1. PICK d \in Client :
               held' = held /\ d # c /\ at' = [at EXCEPT ![c] = AfterRelease(c), ![d] = "granted"]
        BY <3>2, ReleaseCases
      <4>2. held' BY <3>2, <4>1 DEF QueueInv
      <4>3. at'[d] = "granted" BY <4>1 DEF TypeOK
      <4>4. QED BY <4>2, <4>3
    <3>3. QED BY <3>1, <3>2
  <2>5. QED BY <2>1, <2>2, <2>3, <2>4 DEF LockInv
<1>8. TransactionInv'
  <2>1. \A d \in Client : at[d] \in Working \/ at'[d] \in Working => at'[d] = at[d]
    BY <1>1, <1>5 DEF Working
  <2>2. QED BY <1>3, <2>1, TransactionKept
<1>9. DataInv'
  <2>1. \A d \in Client : at'[d] \in {"executed", "committed"} => RowsOf(d) \subseteq database
    BY <1>5 DEF DataInv
  <2>2. \A d \in Client : at'[d] \in Undone => RowsOf(d) \cap database = {}
    BY <1>5 DEF DataInv, Undone
  <2>3. \A d \in Client : at'[d] # "done" => answer'[d] = "none" BY <1>4, <1>5 DEF DataInv
  <2>4. QED BY <1>3, <2>1, <2>2, <2>3 DEF DataInv, RowsOf
<1>10. Serial!Accept(c) \/ Serial!Reject(c)
  <2>1. answer[c] = "none" BY <1>1 DEF DataInv
  <2>2. CASE at[c] \in {"executed", "committed"}
    <3>1. AnswerAfterRelease(c) = "ok" BY <2>2 DEF AnswerAfterRelease
    <3>2. RowsOf(c) \subseteq database BY <2>2 DEF DataInv
    <3>3. QED BY <1>3, <1>4, <2>1, <3>1, <3>2 DEF Serial!Accept
  <2>3. CASE at[c] \in {"failed", "rolledBack"}
    <3>1. AnswerAfterRelease(c) = "error" BY <2>3 DEF AnswerAfterRelease
    <3>2. RowsOf(c) \cap database = {} BY <2>3 DEF DataInv, Undone
    <3>3. QED BY <1>3, <1>4, <2>1, <3>1, <3>2 DEF Serial!Reject
  <2>4. QED BY <1>1, <2>2, <2>3
<1>11. QED BY <1>7, <1>8, <1>9, <1>10 DEF SerialAfter, Serial!Next

\* A step after which still no COMMIT was refused keeps the invariant, and is a step
\* of SerialSession or changes nothing of it.
LEMMA SerialStep ==
    ASSUME IInv, [Next]_vars, refused' = 0
    PROVE  Before /\ SerialAfter
<1>1. refused = 0
  <2>1. refused \in Nat BY BoundAssumption DEF IInv, BaseInv, TypeOK
  <2>2. refused' = refused \/ refused' = refused + 1
    BY DEF Next, Step, Acquire, Begin, Execute, StatementFails, CallbackThrows, Commit,
           CommitRefused, Rollback, Release, vars
  <2>3. QED BY <2>1, <2>2
<1>2. Before BY <1>1 DEF IInv, SerialInv, Before
<1>3. ASSUME NEW c \in Client PROVE ~CommitRefused(c) BY <1>1 DEF CommitRefused
<1>4. CASE UNCHANGED vars
  <2>1. LockInv' BY <1>2, <1>4 DEF LockInv, vars, Before
  <2>2. TransactionInv' BY <1>2, <1>4 DEF TransactionInv, vars, Before
  <2>3. DataInv' BY <1>2, <1>4 DEF DataInv, RowsOf, vars, Before
  <2>4. UNCHANGED Serial!vars BY <1>4 DEF Serial!vars, vars
  <2>5. QED BY <1>2, <2>1, <2>2, <2>3, <2>4 DEF SerialAfter
<1>5. QED
  BY <1>2, <1>3, <1>4, SerialAcquire, SerialBegin, SerialExecute, SerialStatementFails,
     SerialCallbackThrows, SerialCommit, SerialRollback, SerialRelease DEF Next, Step

\* The invariant holds at every state of the dialect.
LEMMA Invariance == Spec => []IInv
<1>1. IInv /\ [Next]_vars => IInv'
  <2> SUFFICES ASSUME IInv, [Next]_vars PROVE IInv' OBVIOUS
  <2>1. BaseInv' BY BaseStep DEF IInv
  <2>2. refused' = 0 => LockInv' /\ TransactionInv' /\ DataInv' BY SerialStep DEF SerialAfter
  <2>3. QED BY <2>1, <2>2 DEF IInv, SerialInv
<1>2. QED BY InitIInv, <1>1, PTL DEF Spec

\* The lock has at most one owner, is held exactly while it has one, and queues
\* exactly those who wait, until a COMMIT is refused (SessionLock,
\* pglite-dialect.ts:42-70).
THEOREM OneOwnerCorrect == Spec => []OneOwner
<1>1. IInv => OneOwner
  <2> SUFFICES ASSUME IInv, refused = 0
               PROVE  /\ \A c, d \in Client : Owns(c) /\ Owns(d) => c = d
                      /\ held = \E c \in Client : Owns(c)
                      /\ QueueInv
    BY DEF OneOwner, QueueInv
  <2> USE DEF IInv, BaseInv, SerialInv
  <2>1. \A c \in Client : Owns(c) <=> at[c] \in Owning
    BY DEF Owns, LockInv, Owning, InTransaction
  <2>2. \A c, d \in Client : Owns(c) /\ Owns(d) => c = d BY <2>1 DEF LockInv
  <2>3. held <=> \E c \in Client : Owns(c) BY <2>1 DEF LockInv
  <2>4. held \in BOOLEAN BY DEF TypeOK
  <2>5. held = \E c \in Client : Owns(c) BY <2>3, <2>4
  <2>6. QED BY <2>2, <2>5
<1>2. QED BY <1>1, Invariance, PTL

\* Statements never run inside another's transaction, nor outside their own, and
\* nobody commits while a transaction is open, until a COMMIT is refused
\* (pglite-dialect.ts:16-24).
THEOREM RunsAloneCorrect == Spec => RunsAlone
<1>1. ASSUME IInv, [Next]_vars, refused' = 0
      PROVE /\ \A c \in Client : executed'[c] # executed[c] =>
                  transaction = IF c \in Plain THEN None ELSE c
            /\ transaction # None /\ transaction' = transaction => database' = database
  <2>1. Before BY <1>1, SerialStep
  <2> USE <1>1, <2>1 DEF Before, BaseInv
  <2>2. ASSUME NEW c \in Client, executed'[c] # executed[c]
        PROVE transaction = IF c \in Plain THEN None ELSE c
    <3>1. Execute(c)
      <4>1. PICK d \in Client : Execute(d)
        BY <2>2 DEF Next, Step, Acquire, Begin, StatementFails, CallbackThrows, Commit,
                    CommitRefused, Rollback, Release, vars
      <4>2. d = c BY <2>2, <4>1 DEF Execute, TypeOK
      <4>3. QED BY <4>1, <4>2
    <3>2. MayExecute(c) BY <3>1 DEF Execute
    <3>3. CASE c \in Plain
      <4>1. at[c] = "granted" BY <3>2, <3>3, NextRow
      <4>2. at[c] \in Owning /\ at[c] \notin Working BY <4>1 DEF Owning, Working
      <4>3. QED BY <3>3, <4>2, AloneAtWork
    <3>4. CASE c \notin Plain
      <4>1. at[c] = "callback" BY <3>2, <3>4, NextRow
      <4>2. at[c] \in Owning /\ at[c] \in Working BY <4>1 DEF Owning, InTransaction, Working
      <4>3. QED BY <3>4, <4>2, AloneAtWork
    <3>5. QED BY <3>3, <3>4
  <2>3. ASSUME transaction # None, transaction' = transaction PROVE database' = database
    BY <2>3 DEF Next, Step, Acquire, Begin, Execute, StatementFails, CallbackThrows, Commit,
                CommitRefused, Rollback, Release, EndTransaction, session, vars
  <2>4. QED BY <2>2, <2>3
<1>2. IInv /\ [Next]_vars =>
        [refused' = 0 =>
          /\ \A c \in Client : executed'[c] # executed[c] =>
                transaction = IF c \in Plain THEN None ELSE c
          /\ transaction # None /\ transaction' = transaction => database' = database]_vars
  BY <1>1
<1>3. Spec => []IInv BY Invariance
<1>4. QED BY <1>2, <1>3, PTL DEF Spec, RunsAlone

\* The dialect implements SerialSession until a COMMIT is refused: jobs take effect
\* whole and one after the other, and callers are told the truth.
THEOREM SessionRefinement == Spec => ImplementsSerialSession
<1>1. Init => Serial!Init BY DEF Init, Serial!Init
<1>2. IInv /\ [Next]_vars => [refused' = 0 => Serial!Next \/ UNCHANGED Serial!vars]_vars
  BY SerialStep DEF SerialAfter
<1>3. Spec => []IInv BY Invariance
<1>4. QED BY <1>1, <1>2, <1>3, PTL DEF Spec, ImplementsSerialSession
=============================================================================
