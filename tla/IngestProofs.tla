---------------------------- MODULE IngestProofs ----------------------------
(***************************************************************************)
(* Theorems about the ingest scheduler, for any set of connectors and      *)
(* documents and any bounds.                                               *)
(***************************************************************************)
EXTENDS Ingest, TLAPS

-----------------------------------------------------------------------------
(***************************************************************************)
(* Arithmetic of timestamps cut to the second.                             *)
(***************************************************************************)

(* The quotient of the integer division, bounded by its products.          *)
LEMMA DivisionBounds ==
  ASSUME NEW t \in Nat, NEW s \in Nat \ {0}
  PROVE  t \div s \in Nat /\ (t \div s) * s <= t /\ t < (t \div s) * s + s
OBVIOUS

(* The provers want closure of multiplication spelled out.                 *)
LEMMA ProductIsNat ==
  ASSUME NEW a \in Nat, NEW s \in Nat
  PROVE  a * s \in Nat
OBVIOUS

(* A product grows with its factor.                                        *)
LEMMA ProductMonotone ==
  ASSUME NEW a \in Int, NEW b \in Int, NEW s \in Nat, a <= b
  PROVE  a * s <= b * s
OBVIOUS

(* A timestamp cut to the second does not pass a whole second it reached.  *)
LEMMA CutKeepsSeconds ==
  ASSUME NEW t \in Nat, NEW s \in Nat \ {0}, NEW k \in Nat, k * s <= t
  PROVE  k * s <= (t \div s) * s
<1> DEFINE q == t \div s
<1>1. q \in Nat /\ t < q * s + s
  BY DivisionBounds
<1>2. CASE k <= q
  BY <1>1, <1>2, ProductMonotone
<1>3. CASE q + 1 <= k
  <2>1. (q + 1) * s <= k * s
    BY <1>1, <1>3, ProductMonotone
  <2>2. (q + 1) * s = q * s + s
    BY <1>1
  <2> QED
    BY <2>1, <2>2, <1>1, ProductIsNat
<1> QED
  BY <1>1, <1>2, <1>3

-----------------------------------------------------------------------------
(***************************************************************************)
(* Type correctness.                                                       *)
(***************************************************************************)

(* Every timestamp a fetch gives an alert is a time, cut ones included.    *)
LEMMA StampIsTime ==
  ASSUME TypeOK, NEW d \in Docs
  PROVE  Stamp(d) \in Nat
<1>1. CASE Source[d] = "graylog"
  <2>1. ts[d] \in Nat /\ Second \in Nat \ {0}
    BY BoundsAssumption DEF TypeOK, Times
  <2>2. (ts[d] \div Second) * Second \in Nat
    BY <2>1, DivisionBounds, ProductIsNat
  <2> QED
    BY <1>1, <2>2 DEF Stamp
<1>2. CASE Source[d] # "graylog"
  BY <1>2 DEF Stamp, TypeOK, Times
<1> QED
  BY <1>1, <1>2

(* The bound a request carries is a number, negative for a Graylog         *)
(* watermark ahead of the clock.                                           *)
LEMMA AskIsInt ==
  ASSUME TypeOK, NEW c \in Connectors
  PROVE  Ask(c) \in Int
<1>1. Since(c) \in Int
  BY BoundsAssumption DEF Since, TypeOK, Times, Marks, NoMark
<1> DEFINE t == now - Since(c)
<1>2. t \in Int
  BY <1>1 DEF TypeOK, Times
<1>3. NumSeconds(t) \in Int
  <2>1. Second \in Nat \ {0}
    BY BoundsAssumption
  <2>2. CASE t >= 0
    BY <1>2, <2>1, <2>2, DivisionBounds DEF NumSeconds
  <2>3. CASE ~(t >= 0)
    <3>1. -t \in Nat
      BY <1>2, <2>3
    <3> QED
      BY <3>1, <2>1, <2>3, DivisionBounds DEF NumSeconds
  <2> QED
    BY <2>2, <2>3
<1> QED
  BY <1>1, <1>3 DEF Ask

(* A new database and a process not yet started are well typed.            *)
LEMMA InitType == Init => TypeOK
BY BoundsAssumption DEF Init, TypeOK, Times, Marks, NoMark, Nobody

(* Clock, sources, analyst and timers keep the types.                      *)
LEMMA EnvironmentType ==
  ASSUME TypeOK, Environment \/ Timer
  PROVE  TypeOK'
<1> USE BoundsAssumption DEF TypeOK, upstream, alerts, jobs, process, request
<1>1. CASE Tick
  BY <1>1 DEF Tick, Times
<1>2. ASSUME NEW d \in Docs, Index(d) PROVE TypeOK'
  <2> PICK t \in (now - MaxLag)..(now + MaxSkew) :
         /\ ts' = [ts EXCEPT ![d] = t]
         /\ late' = IF t < now THEN late \cup {d} ELSE late
    BY <1>2 DEF Index
  <2>1. t \in Nat
    BY DEF Times
  <2> QED
    BY <1>2, <2>1 DEF Index, Times
<1>3. ASSUME NEW d \in Docs, CloseAlert(d) PROVE TypeOK'
  BY <1>3 DEF CloseAlert
<1>4. ASSUME NEW d \in Docs, ReopenAlert(d) PROVE TypeOK'
  BY <1>4 DEF ReopenAlert
<1>5. ASSUME NEW c \in Connectors, TimerElapses(c) PROVE TypeOK'
  BY <1>5 DEF TimerElapses
<1> QED
  BY <1>1, <1>2, <1>3, <1>4, <1>5 DEF Environment, Timer

(* Failed calls and crashes keep the types.                                *)
LEMMA FailureType ==
  ASSUME TypeOK, Failure
  PROVE  TypeOK'
<1> USE BoundsAssumption
    DEF TypeOK, upstream, alerts, jobs, process, request, Fault, Nobody, NoMark, Marks
<1>1. CASE SeedFails
  BY <1>1 DEF SeedFails
<1>2. CASE FetchFails
  BY <1>2 DEF FetchFails
<1>3. CASE StoreFails
  BY <1>3 DEF StoreFails, Abandon
<1>4. CASE RecordErrorFails
  BY <1>4 DEF RecordErrorFails, BackToLoop
<1>5. CASE Crash
  BY <1>5 DEF Crash
<1> QED
  BY <1>1, <1>2, <1>3, <1>4, <1>5 DEF Failure

(* Every step of the loop keeps the types.                                 *)
LEMMA ProcessType ==
  ASSUME TypeOK, Process
  PROVE  TypeOK'
<1> USE BoundsAssumption
    DEF TypeOK, upstream, alerts, jobs, process, request, Nobody, NoMark, Marks
<1>1. CASE Start
  BY <1>1, ConnectorsAssumption DEF Start
<1>2. ASSUME NEW c \in Connectors, SeedJob(c) PROVE TypeOK'
  BY <1>2 DEF SeedJob, SeededMark
<1>3. CASE LoopTick
  BY <1>3 DEF LoopTick, DueJobs
<1>4. ASSUME NEW c \in Connectors, StartJob(c) PROVE TypeOK'
  BY <1>4, AskIsInt, ConnectorsAssumption DEF StartJob, Kinds
<1>5. CASE QueryServed
  BY <1>5 DEF QueryServed, Hits, WazuhHits, VelociraptorHits, GraylogHits, Held
<1>6. CASE MapReply
  <2>1. PICK t \in {NoMark} \cup {Stamp(d) : d \in batch} : top' = t
    BY <1>6 DEF MapReply
  <2>2. t \in Marks
    BY <2>1, StampIsTime DEF Times
  <2> QED
    BY <1>6, <2>1, <2>2 DEF MapReply, Mapped
<1>7. ASSUME NEW d \in Docs, UpsertRow(d) PROVE TypeOK'
  BY <1>7 DEF UpsertRow, RowsAfter, OpenAfter
<1>8. ASSUME NEW d \in Docs, RowRejected(d) PROVE TypeOK'
  BY <1>8 DEF RowRejected, Abandon
<1>9. CASE Finish
  BY <1>9 DEF Finish, BackToLoop, Coalesced
<1>10. CASE RecordError
  BY <1>10 DEF RecordError, BackToLoop
<1> QED
  BY <1>1, <1>2, <1>3, <1>4, <1>5, <1>6, <1>7, <1>8, <1>9, <1>10 DEF Process

(* So does every step of the system.                                       *)
LEMMA NextType ==
  ASSUME TypeOK, [Next]_vars
  PROVE  TypeOK'
<1>1. CASE UNCHANGED vars
  BY <1>1 DEF TypeOK, vars, upstream, alerts, jobs, process, request
<1> QED
  BY <1>1, EnvironmentType, ProcessType, FailureType DEF Next

(* Every variable keeps its type: among the rest, no timestamp and no      *)
(* watermark is ever negative, an alert has no more open rows than rows,   *)
(* and a job is running exactly between its start and its bookkeeping.     *)
THEOREM TypeCorrect == Spec => []TypeOK
<1>1. Init => TypeOK
  BY InitType
<1>2. TypeOK /\ [Next]_vars => TypeOK'
  BY NextType
<1> QED
  BY <1>1, <1>2, PTL DEF Spec

-----------------------------------------------------------------------------
(***************************************************************************)
(* The inductive invariant.  Its parts say nothing of timers, statuses or  *)
(* open rows, so a step that changes no other variable is idle; the steps  *)
(* that end a job without success differ only in what they record.         *)
(***************************************************************************)

Idle == UNCHANGED <<upstream, rows, seeded, mark, process, cut>>

GivesUp ==
  /\ pc \in {"query", "upsert"} /\ pc' = "error"
  /\ batch' \subseteq batch /\ (top' = NoMark \/ (pc = "query" /\ top' = top))
  /\ UNCHANGED <<upstream, rows, seeded, mark, registered, toSeed, due, snap, cur,
                 cut>>

Leaves ==
  /\ pc = "error"
  /\ mark' = mark
  /\ BackToLoop

(* The steps of the system, those that matter to the invariant one by one. *)
LEMMA StepCases ==
  ASSUME TypeOK, [Next]_vars
  PROVE  \/ Idle \/ Tick \/ (\E d \in Docs : Index(d))
         \/ Start \/ (\E c \in Connectors : SeedJob(c)) \/ SeedFails \/ Crash
         \/ LoopTick \/ (\E c \in Connectors : StartJob(c))
         \/ QueryServed \/ MapReply \/ (\E d \in Docs : UpsertRow(d))
         \/ Finish \/ GivesUp \/ Leaves
<1> USE DEF upstream, alerts, jobs, process, request
<1>1. CASE UNCHANGED vars
  BY <1>1 DEF vars, Idle
<1>2. ASSUME NEW d \in Docs, CloseAlert(d) \/ ReopenAlert(d) PROVE Idle
  BY <1>2 DEF CloseAlert, ReopenAlert, Idle
<1>3. ASSUME NEW c \in Connectors, TimerElapses(c) PROVE Idle
  BY <1>3 DEF TimerElapses, Idle
<1>4. ASSUME NEW d \in Docs, RowRejected(d) PROVE GivesUp
  BY <1>4 DEF RowRejected, Abandon, GivesUp
<1>5. CASE FetchFails
  BY <1>5 DEF FetchFails, GivesUp
<1>6. CASE StoreFails
  BY <1>6 DEF StoreFails, Abandon, GivesUp
<1>7. CASE RecordError \/ RecordErrorFails
  BY <1>7 DEF RecordError, RecordErrorFails, Leaves
<1> QED
  BY <1>1, <1>2, <1>3, <1>4, <1>5, <1>6, <1>7
  DEF Next, Environment, Process, Failure, Timer

(* A search finds documents of its own source only.                        *)
LEMMA HitsAreHeld ==
  ASSUME NEW c \in Connectors, NEW hits \in Hits(c)
  PROVE  hits \subseteq Held(c)
<1>1. c \in Kinds
  BY ConnectorsAssumption
<1> QED
  BY <1>1 DEF Kinds, Hits, WazuhHits, VelociraptorHits, GraylogHits

(* What QueryServed says of its hits and its page, in a form to pick       *)
(* witnesses from.                                                         *)
LEMMA ServedPage ==
  ASSUME QueryServed
  PROVE  \E hits \in Hits(cur) : \E page \in SUBSET hits :
           /\ Page(cur, hits, page)
           /\ batch' = page
           /\ cut' = cut \cup (hits \ page)
                         \cup (IF snap[cur] = NoMark THEN Held(cur) \ hits ELSE {})
BY Zenon DEF QueryServed

(* The copy a cycle works with stays equal to the jobs table: only the end *)
(* of the running job writes a watermark.                                  *)
LEMMA CycleStep ==
  ASSUME TypeOK, CycleInv, [Next]_vars
  PROVE  CycleInv'
<1> USE DEF TypeOK, CycleInv, upstream, alerts, jobs, process, request, Nobody
<1>1. CASE Idle
  BY <1>1 DEF Idle
<1>2. CASE Tick
  BY <1>2 DEF Tick
<1>3. ASSUME NEW d \in Docs, Index(d) PROVE CycleInv'
  BY <1>3 DEF Index
<1>4. CASE Start
  BY <1>4 DEF Start
<1>5. ASSUME NEW c \in Connectors, SeedJob(c) PROVE CycleInv'
  BY <1>5 DEF SeedJob, SeededMark
<1>6. CASE SeedFails
  BY <1>6 DEF SeedFails
<1>7. CASE Crash
  BY <1>7, ConnectorsAssumption DEF Crash, Kinds
<1>8. CASE LoopTick
  BY <1>8, ConnectorsAssumption DEF LoopTick, DueJobs, Kinds
<1>9. ASSUME NEW c \in Connectors, StartJob(c) PROVE CycleInv'
  BY <1>9, ConnectorsAssumption, DocsAssumption DEF StartJob, Kinds
<1>10. CASE QueryServed
  <2>1. PICK hits \in Hits(cur) : \E page \in SUBSET hits :
               batch' = page
    BY <1>10, ServedPage
  <2>2. cur \in Connectors
    BY <1>10 DEF QueryServed
  <2>3. \A d \in batch' : d \in visible /\ Source[d] = cur
    BY <2>1, <2>2, HitsAreHeld DEF Held
  <2> QED
    BY <1>10, <2>3 DEF QueryServed
<1>11. CASE MapReply
  BY <1>11 DEF MapReply, Mapped
<1>12. ASSUME NEW d \in Docs, UpsertRow(d) PROVE CycleInv'
  BY <1>12 DEF UpsertRow
<1>13. CASE Finish
  BY <1>13, ConnectorsAssumption DEF Finish, BackToLoop, Coalesced, Kinds
<1>14. CASE GivesUp
  BY <1>14 DEF GivesUp
<1>15. CASE Leaves
  BY <1>15, ConnectorsAssumption DEF Leaves, BackToLoop, Kinds
<1> QED
  BY StepCases, <1>1, <1>2, <1>3, <1>4, <1>5, <1>6, <1>7, <1>8, <1>9, <1>10,
     <1>11, <1>12, <1>13, <1>14, <1>15

(* Without skewed sources no timestamp gets ahead of the clock.            *)
LEMMA ClockStep ==
  ASSUME TypeOK, CycleInv, ClockInv, [Next]_vars
  PROVE  ClockInv'
<1> SUFFICES ASSUME MaxSkew = 0 PROVE ClockInv'
  BY DEF ClockInv
<1> USE DEF TypeOK, ClockInv, upstream, alerts, jobs, process, request, Nobody,
            Times, Marks, NoMark
<1>1. CASE Idle
  BY <1>1 DEF Idle
<1>2. CASE Tick
  BY <1>2 DEF Tick
<1>3. ASSUME NEW d \in Docs, Index(d) PROVE ClockInv'
  <2> PICK t \in (now - MaxLag)..(now + MaxSkew) : ts' = [ts EXCEPT ![d] = t]
    BY <1>3 DEF Index
  <2>1. t <= now
    BY BoundsAssumption
  <2> QED
    BY <1>3, <2>1 DEF Index
<1>4. CASE Start
  BY <1>4 DEF Start
<1>5. ASSUME NEW c \in Connectors, SeedJob(c) PROVE ClockInv'
  BY <1>5 DEF SeedJob, SeededMark
<1>6. CASE SeedFails
  BY <1>6 DEF SeedFails
<1>7. CASE Crash
  BY <1>7 DEF Crash
<1>8. CASE LoopTick
  BY <1>8 DEF LoopTick
<1>9. ASSUME NEW c \in Connectors, StartJob(c) PROVE ClockInv'
  BY <1>9 DEF StartJob
<1>10. CASE QueryServed
  BY <1>10 DEF QueryServed
<1>11. CASE MapReply
  <2>1. \A d \in batch : Stamp(d) <= now
    <3> TAKE d \in batch
    <3>1. ts[d] \in Nat /\ ts[d] <= now /\ now \in Nat
      BY DEF CycleInv
    <3>2. CASE Source[d] = "graylog"
      BY <3>1, <3>2, DivisionBounds, BoundsAssumption DEF Stamp
    <3>3. CASE Source[d] # "graylog"
      BY <3>1, <3>3 DEF Stamp
    <3> QED
      BY <3>2, <3>3
  <2>2. top' <= now
    BY <1>11, <2>1 DEF MapReply
  <2> QED
    BY <1>11, <2>2 DEF MapReply
<1>12. ASSUME NEW d \in Docs, UpsertRow(d) PROVE ClockInv'
  BY <1>12 DEF UpsertRow
<1>13. CASE Finish
  BY <1>13 DEF Finish, BackToLoop, Coalesced
<1>14. CASE GivesUp
  BY <1>14 DEF GivesUp
<1>15. CASE Leaves
  BY <1>15 DEF Leaves, BackToLoop
<1> QED
  BY StepCases, <1>1, <1>2, <1>3, <1>4, <1>5, <1>6, <1>7, <1>8, <1>9, <1>10,
     <1>11, <1>12, <1>13, <1>14, <1>15

(* A timestamp cut to the second is a whole second.                        *)
LEMMA CutIsWhole ==
  ASSUME NEW t \in Nat
  PROVE  IsWhole((t \div Second) * Second)
<1> DEFINE k == t \div Second
           w == k * Second
<1>1. Second \in Nat \ {0}
  BY BoundsAssumption
<1>2. k \in Nat /\ w \in Nat
  BY <1>1, DivisionBounds, ProductIsNat
<1>3. w <= (w \div Second) * Second
  BY <1>1, <1>2, CutKeepsSeconds
<1>4. (w \div Second) * Second <= w /\ w \div Second \in Nat
  BY <1>1, <1>2, DivisionBounds
<1>5. (w \div Second) * Second \in Nat
  BY <1>1, <1>4, ProductIsNat
<1> HIDE DEF k, w
<1>6. w = (w \div Second) * Second
  BY <1>2, <1>3, <1>4, <1>5
<1> QED
  BY <1>6 DEF IsWhole, w, k

(* Graylog's watermarks stay whole seconds.                                *)
LEMMA SecondsStep ==
  ASSUME TypeOK, CycleInv, SecondsInv, [Next]_vars
  PROVE  SecondsInv'
<1> USE DEF TypeOK, SecondsInv, upstream, alerts, jobs, process, request, Nobody
<1>0. IsWhole(NoMark)
  BY DEF IsWhole
<1>1. CASE Idle
  BY <1>1 DEF Idle, IsWhole
<1>2. CASE Tick
  BY <1>2 DEF Tick, IsWhole
<1>3. ASSUME NEW d \in Docs, Index(d) PROVE SecondsInv'
  BY <1>3 DEF Index, IsWhole
<1>4. CASE Start
  BY <1>4 DEF Start, IsWhole
<1>5. ASSUME NEW c \in Connectors, SeedJob(c) PROVE SecondsInv'
  BY <1>5 DEF SeedJob, SeededMark, IsWhole
<1>6. CASE SeedFails
  BY <1>6 DEF SeedFails, IsWhole
<1>7. CASE Crash
  BY <1>7 DEF Crash, IsWhole
<1>8. CASE LoopTick
  BY <1>8 DEF LoopTick, IsWhole
<1>9. ASSUME NEW c \in Connectors, StartJob(c) PROVE SecondsInv'
  BY <1>9 DEF StartJob, IsWhole, CycleInv
<1>10. CASE QueryServed
  BY <1>10 DEF QueryServed, IsWhole
<1>11. CASE MapReply
  <2>1. PICK t \in {NoMark} \cup {Stamp(d) : d \in batch} : top' = t
    BY <1>11 DEF MapReply
  <2>2. ASSUME cur = "graylog" PROVE IsWhole(t)
    <3>1. CASE t = NoMark
      BY <3>1, <1>0
    <3>2. ASSUME NEW d \in batch, t = Stamp(d) PROVE IsWhole(t)
      <4>1. t = (ts[d] \div Second) * Second
        BY <2>2, <3>2 DEF Stamp, CycleInv
      <4> QED
        BY <4>1, CutIsWhole DEF Times
    <3> QED
      BY <2>1, <3>1, <3>2
  <2> QED
    BY <1>11, <2>1, <2>2 DEF MapReply, IsWhole
<1>12. ASSUME NEW d \in Docs, UpsertRow(d) PROVE SecondsInv'
  BY <1>12 DEF UpsertRow, IsWhole
<1>13. CASE Finish
  BY <1>13 DEF Finish, BackToLoop, Coalesced, IsWhole
<1>14. CASE GivesUp
  BY <1>14 DEF GivesUp, IsWhole
<1>15. CASE Leaves
  BY <1>15 DEF Leaves, BackToLoop, IsWhole
<1> QED
  BY StepCases, <1>1, <1>2, <1>3, <1>4, <1>5, <1>6, <1>7, <1>8, <1>9, <1>10,
     <1>11, <1>12, <1>13, <1>14, <1>15

(* Graylog's number of seconds reaches back at least to the watermark.     *)
LEMMA AskReachesBack ==
  ASSUME NEW m \in Nat, NEW n \in Nat, m <= n
  PROVE  /\ NumSeconds(n - m) >= 0
         /\ n - NumSeconds(n - m) * Second >= m
<1> DEFINE t == n - m
           q == t \div Second
<1>1. t \in Nat /\ Second \in Nat \ {0}
  BY BoundsAssumption
<1>2. q \in Nat /\ q * Second <= t
  BY <1>1, DivisionBounds
<1>3. q * Second \in Nat
  BY <1>1, <1>2, ProductIsNat
<1>4. NumSeconds(t) = q
  BY <1>1 DEF NumSeconds
<1> HIDE DEF q
<1> QED
  BY <1>1, <1>2, <1>3, <1>4

(* As ProductIsNat, for a negative factor.                                 *)
LEMMA ProductIsInt ==
  ASSUME NEW a \in Int, NEW s \in Nat
  PROVE  a * s \in Int
OBVIOUS

(* Request, batch and new watermark of the running job stay at or above    *)
(* its old watermark.                                                      *)
LEMMA AboveStep ==
  ASSUME TypeOK, CycleInv, ClockInv, SecondsInv, AboveInv, [Next]_vars
  PROVE  AboveInv'
<1> USE DEF TypeOK, AboveInv, Ordered, upstream, alerts, jobs, process, request,
            Nobody, Times, Marks, NoMark
<1>1. CASE Idle
  BY <1>1 DEF Idle
<1>2. CASE Tick
  <2>1. ask * Second \in Int
    BY ProductIsInt, BoundsAssumption
  <2> QED
    BY <1>2, <2>1 DEF Tick
<1>3. ASSUME NEW d \in Docs, Index(d) PROVE AboveInv'
  <2>1. \A e \in batch : ts'[e] = ts[e]
    BY <1>3 DEF Index, CycleInv
  <2> QED
    BY <1>3, <2>1 DEF Index
<1>4. CASE Start
  BY <1>4 DEF Start
<1>5. ASSUME NEW c \in Connectors, SeedJob(c) PROVE AboveInv'
  BY <1>5 DEF SeedJob
<1>6. CASE SeedFails
  BY <1>6 DEF SeedFails
<1>7. CASE Crash
  BY <1>7 DEF Crash
<1>8. CASE LoopTick
  BY <1>8, ConnectorsAssumption DEF LoopTick, Kinds
<1>9. ASSUME NEW c \in Connectors, StartJob(c) PROVE AboveInv'
  <2>1. CASE pc' = "error"
    BY <1>9, <2>1 DEF StartJob
  <2>2. CASE pc' = "upsert"
    BY <1>9, <2>2 DEF StartJob, CycleInv
  <2>3. CASE pc' = "query"
    <3>1. ask' = Ask(c) /\ cur' = c /\ snap' = snap /\ now' = now
      BY <1>9, <2>3 DEF StartJob
    <3>2. SUFFICES ASSUME MaxSkew = 0 \/ c = "wazuh", snap[c] # NoMark
                   PROVE  IF c = "graylog"
                            THEN ask' >= 0 /\ now - ask' * Second >= snap[c]
                            ELSE ask' = snap[c]
      BY <3>1, <2>3
    <3>3. Since(c) = snap[c] /\ snap[c] \in Nat
      BY <3>2 DEF Since
    <3>4. CASE c # "graylog"
      BY <3>1, <3>3, <3>4 DEF Ask
    <3>5. CASE c = "graylog"
      <4>1. snap[c] <= now
        BY <1>9, <3>2, <3>5 DEF StartJob, CycleInv, ClockInv
      <4>2. ask' = NumSeconds(now - snap[c])
        BY <3>1, <3>3, <3>5 DEF Ask
      <4> QED
        BY <3>3, <3>5, <4>1, <4>2, AskReachesBack
    <3> QED
      BY <3>4, <3>5
  <2> QED
    BY <1>9, <2>1, <2>2, <2>3 DEF StartJob
<1>10. CASE QueryServed
  <2>1. PICK hits \in Hits(cur) : \E page \in SUBSET hits : batch' = page
    BY <1>10, ServedPage
  <2>2. /\ pc = "query" /\ pc' = "reply" /\ cur' = cur /\ snap' = snap
        /\ ts' = ts /\ cur \in Connectors
    BY <1>10 DEF QueryServed
  <2>3. SUFFICES ASSUME MaxSkew = 0 \/ cur = "wazuh", snap[cur] # NoMark,
                        NEW d \in hits
                 PROVE  ts[d] >= snap[cur]
    BY <2>1, <2>2
  <2>4. d \in Docs /\ ts[d] \in Nat /\ snap[cur] \in Nat
    BY <2>2, <2>3, HitsAreHeld DEF Held
  <2>5. cur \in Kinds
    BY <2>2, ConnectorsAssumption
  <2>6. CASE cur = "wazuh"
    BY <2>2, <2>3, <2>4, <2>6 DEF Hits, WazuhHits
  <2>7. CASE cur = "velociraptor"
    BY <2>2, <2>3, <2>4, <2>7 DEF Hits, VelociraptorHits
  <2>8. CASE cur = "graylog"
    <3>1. ask >= 0 /\ now - ask * Second >= snap[cur] /\ ask * Second \in Int
      BY <2>2, <2>3, <2>8, ProductIsInt, BoundsAssumption
    <3>2. d \in GraylogHits
      BY <2>8 DEF Hits
    <3>3. ts[d] >= now - ask * Second
      BY <3>1, <3>2 DEF GraylogHits
    <3> QED
      BY <2>4, <3>1, <3>3
  <2>9. CASE cur = "shuffle"
    BY <2>9 DEF Hits
  <2> QED
    BY <2>5, <2>6, <2>7, <2>8, <2>9 DEF Kinds
<1>11. CASE MapReply
  <2>1. /\ pc = "reply" /\ pc' = "upsert" /\ cur' = cur /\ snap' = snap
        /\ cur \in Connectors
    BY <1>11 DEF MapReply
  <2>2. PICK t \in {NoMark} \cup {Stamp(d) : d \in batch} : top' = t
    BY <1>11 DEF MapReply
  <2>3. SUFFICES ASSUME MaxSkew = 0 \/ cur = "wazuh", snap[cur] # NoMark,
                        NEW d \in batch
                 PROVE  Stamp(d) >= snap[cur]
    BY <2>1, <2>2
  <2>4. ts[d] >= snap[cur] /\ Source[d] = cur /\ ts[d] \in Nat /\ snap[cur] \in Nat
    BY <2>1, <2>3 DEF CycleInv
  <2>5. CASE cur = "graylog"
    <3> DEFINE k == snap[cur] \div Second
    <3>1. snap[cur] = k * Second
      BY <2>3, <2>5, <2>1 DEF SecondsInv, CycleInv, IsWhole
    <3>2. k \in Nat /\ Second \in Nat \ {0}
      BY <2>4, BoundsAssumption, DivisionBounds
    <3>3. k * Second <= (ts[d] \div Second) * Second
      BY <2>4, <3>1, <3>2, CutKeepsSeconds
    <3> QED
      BY <2>4, <2>5, <3>1, <3>3 DEF Stamp
  <2>6. CASE cur # "graylog" /\ Stamp(d) = ts[d]
    BY <2>4, <2>6
  <2>7. CASE cur = "velociraptor" /\ Stamp(d) = now
    <3>1. snap[cur] <= now
      BY <2>1, <2>3, <2>7 DEF CycleInv, ClockInv
    <3> QED
      BY <2>7, <3>1, <2>4
  <2> QED
    BY <2>4, <2>5, <2>6, <2>7 DEF Stamp
<1>12. ASSUME NEW d \in Docs, UpsertRow(d) PROVE AboveInv'
  BY <1>12 DEF UpsertRow
<1>13. CASE Finish
  BY <1>13 DEF Finish, BackToLoop
<1>14. CASE GivesUp
  BY <1>14 DEF GivesUp
<1>15. CASE Leaves
  BY <1>15 DEF Leaves, BackToLoop
<1> QED
  BY StepCases, <1>1, <1>2, <1>3, <1>4, <1>5, <1>6, <1>7, <1>8, <1>9, <1>10,
     <1>11, <1>12, <1>13, <1>14, <1>15

(* The part the property is about.  Either side of the conjunction needs   *)
(* the other: a search from the watermark covers what is newer because     *)
(* what is older is stored, and the watermark may move because the batch   *)
(* covered what is older.                                                  *)
GapInv == "wazuh" \in Connectors => NoSilentGap

(* Every step keeps both; the hard ones are a page that is served, its      *)
(* mapping, and the end of a job.                                          *)
LEMMA CoverStep ==
  ASSUME TypeOK, CycleInv, ClockInv, AboveInv, CoverInv, GapInv, [Next]_vars
  PROVE  CoverInv' /\ GapInv'
<1> SUFFICES ASSUME MaxSkew = 0 PROVE CoverInv' /\ GapInv'
  BY DEF CoverInv, GapInv, NoSilentGap
<1> USE DEF TypeOK, CoverInv, GapInv, NoSilentGap, WazuhEvents, Stored, Excused,
            upstream, alerts, jobs, process, request, Nobody, Times, Marks, NoMark
<1>1. CASE Idle
  BY <1>1 DEF Idle
<1>2. CASE Tick
  BY <1>2 DEF Tick
<1>3. ASSUME NEW d \in Docs, Index(d) PROVE CoverInv' /\ GapInv'
  <2>1. PICK t \in (now - MaxLag)..(now + MaxSkew) :
          /\ ts' = [ts EXCEPT ![d] = t]
          /\ late' = IF t < now THEN late \cup {d} ELSE late
    BY <1>3 DEF Index
  <2>2. t = now \/ (t < now /\ d \in late')
    BY <2>1, BoundsAssumption
  <2>3. \A e \in visible : e # d /\ ts'[e] = ts[e] /\ ts[e] \in Nat /\ ts[e] <= now
    BY <1>3, <2>1 DEF Index, ClockInv
  <2>4. ts'[d] = t /\ visible' = visible \cup {d} /\ late \subseteq late'
    BY <1>3, <2>1 DEF Index
  <2>5. /\ UNCHANGED <<rows, mark, pc, cur, batch, top, cut>>
        /\ now \in Nat /\ top <= now /\ \A c \in Connectors : mark[c] <= now
    BY <1>3 DEF Index, ClockInv
  <2>6. \A e \in batch : e \in visible
    BY DEF CycleInv
  <2>7. GapInv'
    BY <2>2, <2>3, <2>4, <2>5
  <2>8. CoverInv'
    BY <2>2, <2>3, <2>4, <2>5, <2>6
  <2> QED
    BY <2>7, <2>8
<1>4. CASE Start
  BY <1>4 DEF Start
<1>5. ASSUME NEW c \in Connectors, SeedJob(c) PROVE CoverInv' /\ GapInv'
  BY <1>5 DEF SeedJob, SeededMark, CycleInv
<1>6. CASE SeedFails
  BY <1>6 DEF SeedFails
<1>7. CASE Crash
  BY <1>7 DEF Crash
<1>8. CASE LoopTick
  BY <1>8 DEF LoopTick
<1>9. ASSUME NEW c \in Connectors, StartJob(c) PROVE CoverInv' /\ GapInv'
  BY <1>9 DEF StartJob
<1>10. CASE QueryServed
  <2>1. PICK hits \in Hits(cur) : \E page \in SUBSET hits :
          /\ batch' = page
          /\ cut' = cut \cup (hits \ page)
                        \cup (IF snap[cur] = NoMark THEN Held(cur) \ hits ELSE {})
    BY <1>10, ServedPage
  <2>2. /\ pc = "query" /\ pc' = "reply" /\ cur' = cur /\ cur \in Connectors
        /\ UNCHANGED <<rows, mark, visible, late, ts, snap>>
    BY <1>10 DEF QueryServed
  <2>3. cut \subseteq cut'
    BY <2>1
  <2>4. GapInv'
    BY <2>2, <2>3
  <2>5. ASSUME cur = "wazuh", NEW d \in visible \cap WazuhEvents
        PROVE  Stored(d) \/ d \in late \/ d \in cut' \/ d \in batch'
    <3>1. hits = WazuhHits
      BY <2>1, <2>5 DEF Hits
    <3>2. CASE d \in hits
      BY <2>1, <3>2
    <3>3. CASE d \notin hits /\ snap[cur] = NoMark
      BY <2>1, <2>5, <3>3 DEF Held
    <3>4. CASE d \notin hits /\ snap[cur] # NoMark
      <4>1. ask = mark["wazuh"]
        BY <2>2, <2>5, <3>4 DEF CycleInv, AboveInv, Ordered
      <4>2. ts[d] < ask
        BY <2>5, <3>1, <3>4, <4>1 DEF WazuhHits, Held
      <4> QED
        BY <2>2, <2>3, <2>5, <4>1, <4>2
    <3> QED
      BY <3>2, <3>3, <3>4
  <2>6. CoverInv'
    BY <2>2, <2>5
  <2> QED
    BY <2>4, <2>6
<1>11. CASE MapReply
  <2>1. /\ pc = "reply" /\ pc' = "upsert" /\ batch' = Mapped(batch)
        /\ UNCHANGED <<rows, mark, visible, late, ts, cut, cur>>
    BY <1>11 DEF MapReply
  <2>2. ASSUME cur = "wazuh" PROVE top' = NoMark \/ \E e \in batch : top' = ts[e]
    <3>1. PICK t \in {NoMark} \cup {Stamp(d) : d \in batch} : top' = t
      BY <1>11 DEF MapReply
    <3>2. \A e \in batch : Stamp(e) = ts[e]
      BY <2>2 DEF CycleInv, Stamp
    <3> QED
      BY <3>1, <3>2
  <2>3. ASSUME cur = "wazuh", NEW d \in visible \cap WazuhEvents
        PROVE  Stored(d) \/ Excused(d) \/ d \in batch' \/ top' <= ts[d]
    BY <2>1, <2>2, <2>3 DEF Mapped
  <2> QED
    BY <2>1, <2>3
<1>12. ASSUME NEW d \in Docs, UpsertRow(d) PROVE CoverInv' /\ GapInv'
  <2>1. /\ rows' = [rows EXCEPT ![d] = RowsAfter(d)] /\ batch' = batch \ {d}
        /\ pc = "upsert"
        /\ UNCHANGED <<mark, visible, late, ts, cut, cur, pc, top>>
    BY <1>12 DEF UpsertRow
  <2>2. RowsAfter(d) > 0
    BY BoundsAssumption DEF RowsAfter, Conflicts
  <2> QED
    BY <2>1, <2>2
<1>13. CASE Finish
  <2>1. /\ pc = "upsert" /\ batch = {} /\ cur' = Nobody /\ cur \in Connectors
        /\ mark' = [mark EXCEPT ![cur] = Coalesced(cur)]
        /\ UNCHANGED <<rows, visible, late, ts, cut>>
    BY <1>13 DEF Finish, BackToLoop
  <2>2. CASE cur = "wazuh"
    BY <2>1, <2>2, ConnectorsAssumption DEF Coalesced, Kinds
  <2>3. CASE cur # "wazuh"
    BY <2>1, <2>3
  <2> QED
    BY <2>2, <2>3
<1>14. CASE GivesUp
  BY <1>14 DEF GivesUp
<1>15. CASE Leaves
  BY <1>15 DEF Leaves, BackToLoop
<1> QED
  BY StepCases, <1>1, <1>2, <1>3, <1>4, <1>5, <1>6, <1>7, <1>8, <1>9, <1>10,
     <1>11, <1>12, <1>13, <1>14, <1>15

-----------------------------------------------------------------------------
(***************************************************************************)
(* The theorems.                                                           *)
(***************************************************************************)

(* The invariant holds of a new database.                                  *)
LEMMA InitInv == Init => IngestInv
BY BoundsAssumption, ConnectorsAssumption
DEF Init, IngestInv, CycleInv, ClockInv, SecondsInv, AboveInv, CoverInv, NoSilentGap,
    IsWhole, WazuhEvents, Nobody, NoMark, Kinds

(* Every step keeps the invariant.                                         *)
LEMMA NextInv ==
  ASSUME TypeOK, IngestInv, [Next]_vars
  PROVE  IngestInv'
BY CycleStep, ClockStep, SecondsStep, AboveStep, CoverStep DEF IngestInv, GapInv

(* The inductive invariant, for any connectors, documents and bounds.      *)
THEOREM Invariance == Spec => []IngestInv
<1>1. Init => IngestInv
  BY InitInv
<1>2. TypeOK /\ IngestInv /\ [Next]_vars => IngestInv'
  BY NextInv
<1> QED
  BY <1>1, <1>2, TypeCorrect, PTL DEF Spec

(* The watermark of Wazuh never passes an event that is neither stored nor *)
(* excused, whatever fails and wherever the process dies.                  *)
THEOREM GapFree ==
  ASSUME "wazuh" \in Connectors
  PROVE  Spec => []NoSilentGap
<1>1. IngestInv => NoSilentGap
  BY DEF IngestInv
<1> QED
  BY <1>1, Invariance, PTL

(* One step does not move a watermark back: seeding keeps what a row has,  *)
(* and the end of a job writes what AboveInv says of its new watermark.    *)
LEMMA StepKeepsWatermarks ==
  ASSUME TypeOK, IngestInv, [Next]_vars, NEW c \in Connectors, Ordered(c)
  PROVE  mark'[c] >= mark[c]
<1> USE DEF TypeOK, Marks, Times, NoMark, upstream, alerts, jobs, process, request
<1>1. CASE mark' = mark
  BY <1>1
<1>2. ASSUME NEW o \in Connectors, SeedJob(o) PROVE mark'[c] >= mark[c]
  BY <1>2 DEF SeedJob, SeededMark, IngestInv, CycleInv
<1>3. CASE Finish
  <2>1. /\ pc = "upsert" /\ cur \in Connectors
        /\ mark' = [mark EXCEPT ![cur] = Coalesced(cur)]
    BY <1>3 DEF Finish
  <2>2. CASE c = cur
    BY <2>1, <2>2 DEF Coalesced, IngestInv, CycleInv, AboveInv, Nobody
  <2> QED
    BY <2>1, <2>2
<1> QED
  BY StepCases, <1>1, <1>2, <1>3
  DEF Idle, Tick, Index, Start, SeedFails, Crash, LoopTick, StartJob, QueryServed,
      MapReply, UpsertRow, GivesUp, Leaves

(* No watermark ever moves back: not by an empty batch, by a cut timestamp, *)
(* or by a restart that seeds the jobs again.                              *)
THEOREM MarksOnlyAdvance == Spec => WatermarkNeverRetreats
<1>1. TypeOK /\ IngestInv /\ [Next]_vars
        => [\A c \in Connectors : Ordered(c) => mark'[c] >= mark[c]]_mark
  BY StepKeepsWatermarks
<1> QED
  BY <1>1, TypeCorrect, Invariance, PTL DEF Spec, WatermarkNeverRetreats

(* One step opens a stored alert again only if it is the analyst's: an     *)
(* insert that conflicts leaves the status of the row alone.               *)
LEMMA StepKeepsTriage ==
  ASSUME TypeOK, [Next]_vars, NEW d \in Docs,
         Stored(d), StableId(d), open'[d] > open[d]
  PROVE  rows' = rows /\ UNCHANGED process
<1> USE DEF TypeOK, upstream, alerts, jobs, process, request
<1>1. CASE open' = open
  BY <1>1
<1>2. ASSUME NEW e \in Docs, UpsertRow(e) PROVE FALSE
  <2>1. open' = [open EXCEPT ![e] = OpenAfter(e)]
    BY <1>2 DEF UpsertRow
  <2>2. OpenAfter(d) = open[d]
    BY DEF OpenAfter, Conflicts, Stored
  <2> QED
    BY <2>1, <2>2
<1>3. ASSUME NEW e \in Docs, CloseAlert(e) \/ ReopenAlert(e)
      PROVE  rows' = rows /\ UNCHANGED process
  BY <1>3 DEF CloseAlert, ReopenAlert
<1>4. CASE UNCHANGED vars
  BY <1>4 DEF vars
<1>5. CASE Environment
  BY <1>1, <1>3, <1>5 DEF Environment, Tick, Index
<1>6. CASE Process
  BY <1>1, <1>2, <1>6
  DEF Process, Start, SeedJob, LoopTick, StartJob, QueryServed, MapReply, RowRejected,
      Abandon, Finish, RecordError, BackToLoop
<1>7. CASE Failure \/ Timer
  BY <1>1, <1>7
  DEF Failure, Timer, SeedFails, FetchFails, StoreFails, Abandon, RecordErrorFails,
      BackToLoop, Crash, TimerElapses
<1> QED
  BY <1>4, <1>5, <1>6, <1>7 DEF Next

(* What an analyst closed stays closed, until an analyst opens it again.   *)
THEOREM TriageKept == Spec => TriageSticks
<1>1. TypeOK /\ [Next]_vars
        => [\A d \in Docs :
              Stored(d) /\ StableId(d) /\ open'[d] > open[d]
                => rows' = rows /\ UNCHANGED process]_alerts
  BY StepKeepsTriage
<1> QED
  BY <1>1, TypeCorrect, PTL DEF Spec, TriageSticks

-----------------------------------------------------------------------------
(***************************************************************************)
(* The scheduler implements AlertFeed.                                     *)
(***************************************************************************)

(* The scheduler starts where the feed starts.                             *)
LEMMA FeedInit == Init => Feed!Init
BY DEF Init, Feed!Init, WazuhEvents

(* Every step of the scheduler is a step of the feed or leaves it alone.   *)
LEMMA FeedStep ==
  ASSUME "wazuh" \in Connectors, MaxSkew = 0,
         TypeOK, IngestInv, TypeOK', IngestInv', [Next]_vars
  PROVE  [Feed!Next]_Feed!feed
<1> DEFINE Pub == visible \cap WazuhEvents
           Del == {d \in WazuhEvents : rows[d] > 0}
           Exc == (late \cup cut) \cap WazuhEvents
           Pas == {d \in visible \cap WazuhEvents : ts[d] < Position}
<1>0. Position = mark["wazuh"] /\ Position' = mark'["wazuh"]
  BY DEF Position
<1>a. WazuhEvents \subseteq Docs
  BY DEF WazuhEvents
<1> USE DEF TypeOK, upstream, alerts, jobs, process, request, Nobody, Times, Marks,
            NoMark
<1>1. ASSUME UNCHANGED <<visible, ts, late, rows, mark, cut>>
      PROVE  UNCHANGED Feed!feed
  BY <1>0, <1>1 DEF Feed!feed
<1>2. ASSUME NEW d \in Docs, Index(d)
      PROVE  [Feed!Next]_Feed!feed
  <2>1. PICK t \in (now - MaxLag)..(now + MaxSkew) :
          /\ ts' = [ts EXCEPT ![d] = t]
          /\ late' = IF t < now THEN late \cup {d} ELSE late
    BY <1>2 DEF Index
  <2>2. /\ d \notin visible /\ visible' = visible \cup {d}
        /\ UNCHANGED <<rows, mark, cut>>
        /\ \A e \in visible : ts'[e] = ts[e]
        /\ ts'[d] = t
    BY <1>2, <2>1 DEF Index
  <2>3. CASE d \notin WazuhEvents
    <3>1. Pub' = Pub /\ Del' = Del /\ Exc' = Exc
      BY <2>1, <2>2, <2>3
    <3>2. Pas' = Pas
      BY <1>0, <2>2, <2>3
    <3> QED
      BY <3>1, <3>2 DEF Feed!feed
  <2>4. CASE d \in WazuhEvents
    <3>1. Pub' = Pub \cup {d} /\ Del' = Del /\ d \notin Pub
      BY <2>2, <2>4
    <3>2. Exc' \in {Exc, Exc \cup {d}}
      BY <2>1, <2>2, <2>4
    <3>3. Pas' \in {Pas, Pas \cup {d}}
      BY <1>0, <2>2, <2>4
    <3>4. ASSUME d \in Pas' PROVE d \in Exc'
      <4>1. ts'[d] < mark["wazuh"] /\ mark["wazuh"] <= now
        BY <1>0, <2>2, <3>4 DEF IngestInv, ClockInv
      <4>2. t < now
        BY <2>2, <4>1
      <4> QED
        BY <2>1, <2>4, <4>2
    <3>5. Feed!Publish(d)
      BY <3>1, <3>2, <3>3, <3>4 DEF Feed!Publish
    <3> QED
      BY <2>4, <3>5 DEF Feed!Next
  <2> QED
    BY <2>3, <2>4
<1>3. CASE QueryServed
  <2>1. PICK hits \in Hits(cur) : \E page \in SUBSET hits :
          cut' = cut \cup (hits \ page)
                     \cup (IF snap[cur] = NoMark THEN Held(cur) \ hits ELSE {})
    BY <1>3, ServedPage
  <2>2. UNCHANGED <<visible, ts, late, rows, mark>> /\ cur \in Connectors
    BY <1>3 DEF QueryServed
  <2>3. hits \subseteq visible /\ Held(cur) \subseteq visible
    BY <2>2, HitsAreHeld DEF Held
  <2>4. cut \subseteq cut' /\ cut' \subseteq cut \cup visible
    BY <2>1, <2>3
  <2> DEFINE D == (cut' \ cut) \cap WazuhEvents
  <2>5. D \subseteq Pub /\ Exc' = Exc \cup D
    BY <2>2, <2>4
  <2>6. Pub' = Pub /\ Del' = Del /\ Pas' = Pas
    BY <1>0, <2>2
  <2>7. Feed!Excuse(D)
    BY <2>5, <2>6 DEF Feed!Excuse
  <2>8. D \in SUBSET WazuhEvents
    OBVIOUS
  <2> HIDE DEF D
  <2> QED
    BY <2>7, <2>8 DEF Feed!Next
<1>4. ASSUME NEW d \in Docs, UpsertRow(d)
      PROVE  [Feed!Next]_Feed!feed
  <2>1. /\ rows' = [rows EXCEPT ![d] = RowsAfter(d)] /\ d \in batch
        /\ UNCHANGED <<visible, ts, late, mark, cut>>
    BY <1>4 DEF UpsertRow, NextInBatch
  <2>2. RowsAfter(d) > 0
    BY BoundsAssumption DEF RowsAfter, Conflicts
  <2>3. Pub' = Pub /\ Exc' = Exc /\ Pas' = Pas
    BY <1>0, <2>1
  <2>4. CASE d \notin WazuhEvents
    <3>1. Del' = Del
      BY <1>a, <2>1, <2>4
    <3> QED
      BY <2>3, <3>1 DEF Feed!feed
  <2>5. CASE d \in WazuhEvents
    <3>1. Del' = Del \cup {d}
      BY <1>a, <2>1, <2>2, <2>5
    <3>2. d \in Pub
      BY <2>1, <2>5 DEF IngestInv, CycleInv
    <3>3. Feed!Deliver(d)
      BY <2>3, <3>1, <3>2 DEF Feed!Deliver
    <3> QED
      BY <2>5, <3>3 DEF Feed!Next
  <2> QED
    BY <2>4, <2>5
<1>5. CASE Finish
  <2>1. UNCHANGED <<visible, ts, late, rows, cut>>
    BY <1>5 DEF Finish, BackToLoop
  <2>2. Pub' = Pub /\ Exc' = Exc /\ Del' = Del
    BY <2>1
  <2>3. mark'["wazuh"] >= mark["wazuh"]
    BY StepKeepsWatermarks DEF Ordered
  <2>4. Pas' = Pas \cup Pas'
    <3>1. \A d \in Pas : d \in Pas'
      BY <1>0, <1>a, <2>1, <2>3
    <3> QED
      BY <3>1
  <2>5. \A d \in Pas' : d \in Pub \cap (Del \cup Exc)
    BY <1>0, <2>1 DEF IngestInv, NoSilentGap, Stored, Excused
  <2>6. PICK P \in SUBSET WazuhEvents : P = Pas'
    BY DEF WazuhEvents
  <2>7. Feed!Advance(P)
    BY <2>2, <2>4, <2>5, <2>6 DEF Feed!Advance
  <2> QED
    BY <2>7 DEF Feed!Next
<1>6. ASSUME NEW c \in Connectors, SeedJob(c)
      PROVE  UNCHANGED <<visible, ts, late, rows, mark, cut>>
  <2>1. SeededMark(c) = mark[c]
    BY DEF SeededMark, IngestInv, CycleInv
  <2> QED
    BY <1>6, <2>1 DEF SeedJob
<1>7. ASSUME \/ Idle \/ Tick \/ Start \/ SeedFails \/ Crash \/ LoopTick
             \/ (\E c \in Connectors : StartJob(c)) \/ MapReply \/ GivesUp \/ Leaves
      PROVE  UNCHANGED <<visible, ts, late, rows, mark, cut>>
  BY <1>7 DEF Idle, Tick, Start, SeedFails, Crash, LoopTick, StartJob, MapReply,
              GivesUp, Leaves, BackToLoop
<1> QED
  BY StepCases, <1>1, <1>2, <1>3, <1>4, <1>5, <1>6, <1>7

(* Every behaviour of the scheduler is a behaviour of AlertFeed for the    *)
(* events of Wazuh, when its source stamps none of them in the future.     *)
THEOREM Refinement ==
  ASSUME "wazuh" \in Connectors, MaxSkew = 0
  PROVE  Spec => ImplementsFeed
<1>1. Init => Feed!Init
  BY FeedInit
<1>2. /\ TypeOK /\ IngestInv /\ TypeOK' /\ IngestInv'
      /\ [Next]_vars
      => [Feed!Next]_Feed!feed
  BY FeedStep
<1> QED
  BY <1>1, <1>2, TypeCorrect, Invariance, PTL DEF Spec, ImplementsFeed, Feed!Spec
=============================================================================
