------------------------------- MODULE Ingest -------------------------------
(***************************************************************************)
(* The ingest scheduler of services/ingest.rs, with everything it touches: *)
(* the jobs table, the alerts table (services/alerts.rs), the fetch of     *)
(* each connector, the process that seeds and runs it (main.rs), and the   *)
(* analyst who triages what it stored.                                     *)
(*                                                                         *)
(* One task runs the loop.  Every await of a job is a step of its own, so  *)
(* the clock, the upstream sources, the analyst and a crash of the process *)
(* come in between:                                                        *)
(*                                                                         *)
(*    down -> boot -> ready -> query -> reply -> upsert -> ready           *)
(*                                 \--------------\--> error -> ready      *)
(*                                                                         *)
(* Nothing in the repository writes jobs.enabled (TRUE by default) or      *)
(* removes a job or an alert.                                              *)
(***************************************************************************)
EXTENDS Integers, FiniteSets

CONSTANTS
  Connectors,   \* the connectors some start of the process registers
  Docs,         \* events of the upstream sources
  Source,       \* Source[d]: the connector whose source holds d
  Form,         \* Form[d]: what the document looks like (see Forms)
  Window,       \* INITIAL_WINDOW_HOURS, in units of the clock
  Cap,          \* the 500 results of a search
  Second,       \* units of the clock in a second
  MaxTime,      \* bound: the clock stops here
  MaxLag,       \* bound: how long after its timestamp an event is searchable
  MaxSkew,      \* bound: how far in the future a source may stamp an event
  MaxCopies,    \* bound: rows counted per document
  MaxFaults     \* bound: crashes and failed calls in a behaviour

Kinds    == {"wazuh", "velociraptor", "shuffle", "graylog"}
Optional == {"shuffle", "graylog"}     \* registered only when configured

(***************************************************************************)
(* A document is well formed ("ok"), dropped by the connector's mapping    *)
(* ("unmappable"), mapped to a row PostgreSQL refuses, such as one with a  *)
(* NUL character in its payload ("rejected"), or a Velociraptor row        *)
(* without a usable id ("noid") or timestamp ("notime").                   *)
(***************************************************************************)
Forms == {"ok", "unmappable", "rejected", "noid", "notime"}

NoMark == -1        \* last_watermark IS NULL; also the maximum of no timestamps
Nobody == "none"    \* no job is running

Times == Nat
Marks == Times \cup {NoMark}

ASSUME ConnectorsAssumption == Connectors \subseteq Kinds

ASSUME DocsAssumption ==
  /\ IsFiniteSet(Docs)
  /\ Source \in [Docs -> Connectors \ {"shuffle"}]
  /\ Form \in [Docs -> Forms]
  /\ \A d \in Docs :
       /\ Form[d] = "unmappable" => Source[d] # "velociraptor"
       /\ Form[d] \in {"noid", "notime"} => Source[d] = "velociraptor"

ASSUME BoundsAssumption ==
  /\ {Window, MaxTime, MaxLag, MaxSkew, MaxFaults} \subseteq Nat
  /\ {Cap, Second, MaxCopies} \subseteq Nat \ {0}
  /\ MaxLag <= Window        \* the clock starts at Window: no time is negative

VARIABLES
  now,         \* the clock, one for all hosts
  visible,     \* documents a search can find
  ts,          \* ts[d]: the timestamp the source gave d
  late,        \* documents that were searchable only after their timestamp
  rows,        \* rows[d]: how many rows of the alerts table hold d
  open,        \* open[d]: how many of those have status 'open'
  seeded,      \* jobs: connectors that have a row
  mark,        \* jobs.last_watermark
  waiting,     \* jobs: rows whose next_run_at is in the future
  status,      \* jobs.last_status
  registered,  \* the connector registry of the running process
  toSeed,      \* connectors seed_jobs has not reached
  pc,          \* where the process is
  due,         \* jobs of this cycle that have not started
  snap,        \* snap[c]: DueJob.last_watermark, read when the cycle began
  cur,         \* the connector of the running job
  ask,         \* the lower bound its request carries
  batch,       \* the alerts fetched and not yet stored
  top,         \* new_watermark
  faults,      \* failures that may still happen
  cut          \* history: documents a search left out by its window or cap

upstream == <<now, visible, ts, late>>
alerts   == <<rows, open>>
jobs     == <<seeded, mark, waiting, status>>
request  == <<ask, batch, top>>
process  == <<registered, toSeed, pc, due, snap, cur, request>>
vars     == <<upstream, alerts, jobs, process, faults, cut>>

TypeOK ==
  /\ now \in Times /\ now >= Window
  /\ visible \in SUBSET Docs /\ late \in SUBSET Docs /\ cut \in SUBSET Docs
  /\ ts \in [Docs -> Times]
  /\ rows \in [Docs -> 0..MaxCopies] /\ open \in [Docs -> 0..MaxCopies]
  /\ \A d \in Docs : open[d] <= rows[d]
  /\ seeded \in SUBSET Connectors /\ waiting \in SUBSET Connectors
  /\ mark \in [Connectors -> Marks] /\ snap \in [Connectors -> Marks]
  /\ status \in [Connectors -> {"none", "success", "error"}]
  /\ registered \in SUBSET Connectors /\ toSeed \in SUBSET Connectors
  /\ due \in SUBSET Connectors /\ cur \in Connectors \cup {Nobody}
  /\ pc \in {"down", "boot", "ready", "query", "reply", "upsert", "error"}
  /\ pc \in {"query", "reply", "upsert", "error"} <=> cur # Nobody
  /\ ask \in Int /\ top \in Marks /\ batch \in SUBSET Docs
  /\ faults \in 0..MaxFaults

Init ==
  /\ now = Window
  /\ visible = {} /\ late = {} /\ cut = {}
  /\ ts = [d \in Docs |-> 0]
  /\ rows = [d \in Docs |-> 0] /\ open = [d \in Docs |-> 0]
  /\ seeded = {} /\ waiting = {}
  /\ mark = [c \in Connectors |-> NoMark]
  /\ status = [c \in Connectors |-> "none"]
  /\ registered = {} /\ toSeed = {} /\ due = {}
  /\ snap = [c \in Connectors |-> NoMark]
  /\ pc = "down" /\ cur = Nobody
  /\ ask = 0 /\ batch = {} /\ top = NoMark
  /\ faults = MaxFaults

-----------------------------------------------------------------------------
(***************************************************************************)
(* The environment: time, the upstream sources, the analyst.               *)
(***************************************************************************)

Tick ==
  /\ now < MaxTime
  /\ now' = now + 1
  /\ UNCHANGED <<visible, ts, late, alerts, jobs, process, faults, cut>>

(* A source indexes a document, stamped up to MaxLag ago or MaxSkew ahead. *)
Index(d) ==
  /\ d \notin visible
  /\ \E t \in (now - MaxLag)..(now + MaxSkew) :
       /\ ts' = [ts EXCEPT ![d] = t]
       /\ late' = IF t < now THEN late \cup {d} ELSE late
  /\ visible' = visible \cup {d}
  /\ UNCHANGED <<now, alerts, jobs, process, faults, cut>>

(* update_alert_status: any status may follow any other; only "is it still *)
(* open" matters here.                                                     *)
CloseAlert(d) ==
  /\ open[d] > 0
  /\ open' = [open EXCEPT ![d] = @ - 1]
  /\ UNCHANGED <<upstream, rows, jobs, process, faults, cut>>

ReopenAlert(d) ==
  /\ open[d] < rows[d]
  /\ open' = [open EXCEPT ![d] = @ + 1]
  /\ UNCHANGED <<upstream, rows, jobs, process, faults, cut>>

(* next_run_at <= NOW() becomes true. *)
TimerElapses(c) ==
  /\ c \in waiting
  /\ waiting' = waiting \ {c}
  /\ UNCHANGED <<upstream, alerts, seeded, mark, status, process, faults, cut>>

Fault ==
  /\ faults > 0
  /\ faults' = faults - 1

-----------------------------------------------------------------------------
(***************************************************************************)
(* Start of the process: build the registry, seed the jobs, enter the loop.*)
(***************************************************************************)

(* main registers Wazuh and Velociraptor always, the others if configured. *)
Start ==
  /\ pc = "down"
  /\ \E extra \in SUBSET (Connectors \cap Optional) :
       registered' = (Connectors \ Optional) \cup extra
  /\ toSeed' = registered'
  /\ pc' = IF toSeed' = {} THEN "ready" ELSE "boot"
  /\ UNCHANGED <<upstream, alerts, jobs, due, snap, cur, request, faults, cut>>

Rank == [wazuh |-> 1, velociraptor |-> 2, shuffle |-> 3, graylog |-> 4]

(* INSERT .. ON CONFLICT (connector_id) DO NOTHING, in registry order.     *)
SeededMarkReset(c) == NoMark          \* mutant: ON CONFLICT DO UPDATE
SeededMark(c) == IF c \in seeded THEN mark[c] ELSE NoMark

SeedJob(c) ==
  /\ pc = "boot"
  /\ c \in toSeed
  /\ \A o \in toSeed : Rank[c] <= Rank[o]
  /\ seeded' = seeded \cup {c}
  /\ mark' = [mark EXCEPT ![c] = SeededMark(c)]
  /\ toSeed' = toSeed \ {c}
  /\ pc' = IF toSeed' = {} THEN "ready" ELSE "boot"
  /\ UNCHANGED <<upstream, alerts, waiting, status, registered, due, snap, cur,
                 request, faults, cut>>

(* A failed INSERT ends seed_jobs; main warns and starts the loop anyway.  *)
SeedFails ==
  /\ pc = "boot"
  /\ Fault
  /\ toSeed' = {}
  /\ pc' = "ready"
  /\ UNCHANGED <<upstream, alerts, jobs, registered, due, snap, cur, request, cut>>

(* The process dies; what it held in memory is gone. *)
Crash ==
  /\ pc # "down"
  /\ Fault
  /\ pc' = "down"
  /\ registered' = {} /\ toSeed' = {} /\ due' = {}
  /\ snap' = [c \in Connectors |-> NoMark]
  /\ cur' = Nobody
  /\ ask' = 0 /\ batch' = {} /\ top' = NoMark
  /\ UNCHANGED <<upstream, alerts, jobs, cut>>

-----------------------------------------------------------------------------
(***************************************************************************)
(* One cycle of the loop.                                                  *)
(***************************************************************************)

(* The jobs the SELECT of run_due_jobs finds: next_run_at is NULL or past. *)
DueJobsOk == {c \in seeded \ waiting : status[c] # "error"}  \* mutant
DueJobs == seeded \ waiting

(* A tick of run_ingest_loop that finds work.  A failing SELECT is logged  *)
(* and changes nothing, so it is a stuttering step.                        *)
LoopTick ==
  /\ pc = "ready" /\ due = {}
  /\ DueJobs # {}
  /\ due' = DueJobs
  /\ snap' = [c \in Connectors |-> IF c \in DueJobs THEN mark[c] ELSE NoMark]
  /\ UNCHANGED <<upstream, alerts, jobs, registered, toSeed, pc, cur, request,
                 faults, cut>>

(* Duration::num_seconds: whole seconds, truncated towards zero.           *)
NumSeconds(t) == IF t >= 0 THEN t \div Second ELSE -((-t) \div Second)

Since(c) == IF snap[c] = NoMark THEN now - Window ELSE snap[c]

(* What the request carries: `since` itself, or for Graylog how many       *)
(* seconds ago it was.  (Graylog: negative stands for the huge u64 the     *)
(* cast makes of it.)                                                      *)
Ask(c) == IF c = "graylog" THEN NumSeconds(now - Since(c)) ELSE Since(c)

(* The loop takes the next due job, in the SELECT's unspecified order, and *)
(* runs to its first await: no connector has that id, or the connector is  *)
(* Shuffle, whose fetch_alerts is empty, or a request is sent.             *)
StartJob(c) ==
  /\ pc = "ready"
  /\ c \in due
  /\ due' = due \ {c}
  /\ cur' = c
  /\ \/ /\ c \notin registered
        /\ pc' = "error"
        /\ ask' = ask
     \/ /\ c \in registered
        /\ c = "shuffle"
        /\ pc' = "upsert"
        /\ ask' = ask
     \/ /\ c \in registered
        /\ c # "shuffle"
        /\ pc' = "query"
        /\ ask' = Ask(c)
  /\ UNCHANGED <<upstream, alerts, jobs, registered, toSeed, snap, batch, top,
                 faults, cut>>

Held(c) == {d \in visible : Source[d] = c}

(* The documents the request of connector c matches when the source        *)
(* evaluates it.  Wazuh: a range query with gte.  Velociraptor: the        *)
(* artifact behind Since='..' is not in the repository, so its bound is    *)
(* either inclusive or exclusive.  Graylog: a range relative to the time   *)
(* of the evaluation; a wrapped-around range reaches back to everything.   *)
WazuhHitsGt      == {d \in Held("wazuh") : ts[d] > ask}     \* mutant: gt for gte
WazuhHits        == {d \in Held("wazuh") : ts[d] >= ask}
VelociraptorHits == {d \in Held("velociraptor") : ts[d] >= ask}
GraylogHits      == {d \in Held("graylog") : ask < 0 \/ ts[d] >= now - ask * Second}

Hits(c) ==
  CASE c = "wazuh"        -> {WazuhHits}
    [] c = "velociraptor" -> {VelociraptorHits,
                              {d \in VelociraptorHits : ts[d] # ask}}
    [] c = "graylog"      -> {GraylogHits}
    [] OTHER              -> {{}}

(* What of the matches fits the cap: the newest, except for Velociraptor.  *)
Page(c, hits, page) ==
  /\ IF Cardinality(hits) <= Cap THEN page = hits ELSE Cardinality(page) = Cap
  /\ c # "velociraptor" => \A p \in page, q \in hits \ page : ts[p] >= ts[q]

(* The source evaluates the request.  A first fetch leaves out what is     *)
(* older than its window, a capped page what does not fit.                 *)
QueryServed ==
  /\ pc = "query"
  /\ \E hits \in Hits(cur) : \E page \in SUBSET hits :
       /\ Page(cur, hits, page)
       /\ batch' = page
       /\ cut' = cut \cup (hits \ page)
                     \cup (IF snap[cur] = NoMark THEN Held(cur) \ hits ELSE {})
  /\ pc' = "reply"
  /\ UNCHANGED <<upstream, alerts, jobs, registered, toSeed, due, snap, cur, ask,
                 top, faults>>

(* The request, or its reply, is lost or refused: an evaluation leaves     *)
(* nothing behind at the source, so the two are one action.                *)
FetchFails ==
  /\ pc = "query"
  /\ Fault
  /\ pc' = "error"
  /\ UNCHANGED <<upstream, alerts, jobs, registered, toSeed, due, snap, cur,
                 request, cut>>

(* The timestamp of the alert made of document d: map_hit keeps it,        *)
(* map_gelf_message truncates it to the second, Velociraptor's fetch puts  *)
(* the present in place of one it cannot parse.                            *)
Stamp(d) ==
  CASE Source[d] = "graylog" -> (ts[d] \div Second) * Second
    [] Source[d] = "velociraptor" /\ Form[d] = "notime" -> now
    [] OTHER -> ts[d]

MappedStorable(docs) == {d \in docs : Form[d] \notin {"unmappable", "rejected"}}  \* mutant
Mapped(docs) == {d \in docs : Form[d] # "unmappable"}

IsNewest(t, docs) ==
  IF docs = {} THEN t = NoMark
               ELSE /\ \E d \in docs : t = Stamp(d)
                    /\ \A d \in docs : t >= Stamp(d)

(* The reply arrives and is mapped.                                        *)
MapReply ==
  /\ pc = "reply"
  /\ batch' = Mapped(batch)
  /\ \E t \in {NoMark} \cup {Stamp(d) : d \in batch} :
       IsNewest(t, batch') /\ top' = t
  /\ pc' = "upsert"
  /\ UNCHANGED <<upstream, alerts, jobs, registered, toSeed, due, snap, cur, ask,
                 faults, cut>>

-----------------------------------------------------------------------------
(***************************************************************************)
(* upsert_alerts: one statement, one commit per row.                       *)
(***************************************************************************)

(* The source_id a fetch gives d is the same every time; otherwise it is a *)
(* fresh UUID per fetch.                                                   *)
StableId(d) == Source[d] # "graylog" /\ Form[d] # "noid"

(* INSERT .. ON CONFLICT (connector_id, source_id) DO UPDATE: a known row  *)
(* keeps its id and its status.                                            *)
Conflicts(d) == StableId(d) /\ rows[d] > 0

RowsAfter(d) ==
  IF Conflicts(d) \/ rows[d] = MaxCopies THEN rows[d] ELSE rows[d] + 1

OpenAfterReset(d) ==                  \* mutant: status = EXCLUDED.status
  IF rows[d] = MaxCopies THEN rows[d] ELSE open[d] + 1
OpenAfterCount(d) == open[d] + 1      \* mutant: a conflict counted as an insert
OpenAfter(d) ==
  IF Conflicts(d) \/ rows[d] = MaxCopies THEN open[d] ELSE open[d] + 1

(* The batch is stored in the order of the reply: newest first, but for    *)
(* Velociraptor in any order.                                              *)
NextInBatch(d) ==
  /\ d \in batch
  /\ cur # "velociraptor" => \A o \in batch : ts[d] >= ts[o]

UpsertRow(d) ==
  /\ pc = "upsert"
  /\ NextInBatch(d)
  /\ Form[d] # "rejected"
  /\ rows' = [rows EXCEPT ![d] = RowsAfter(d)]
  /\ open' = [open EXCEPT ![d] = OpenAfter(d)]
  /\ batch' = batch \ {d}
  /\ UNCHANGED <<upstream, jobs, registered, toSeed, pc, due, snap, cur, ask, top,
                 faults, cut>>

(* A statement fails: because of its row, always, or because of the        *)
(* database, once (the UPDATE of the job row after the batch included).    *)
(* What earlier statements stored stays stored.                            *)
Abandon ==
  /\ pc' = "error"
  /\ ask' = 0 /\ batch' = {} /\ top' = NoMark
  /\ UNCHANGED <<upstream, alerts, jobs, registered, toSeed, due, snap, cur, cut>>

RowRejected(d) ==
  /\ pc = "upsert"
  /\ NextInBatch(d)
  /\ Form[d] = "rejected"
  /\ Abandon
  /\ UNCHANGED faults

StoreFails ==
  /\ pc = "upsert"
  /\ Fault
  /\ Abandon

-----------------------------------------------------------------------------
(***************************************************************************)
(* The end of a job: the UPDATE of its row.                                *)
(***************************************************************************)

BackToLoop ==
  /\ pc' = "ready"
  /\ cur' = Nobody
  /\ snap' = [snap EXCEPT ![cur] = NoMark]
  /\ ask' = 0 /\ batch' = {} /\ top' = NoMark
  /\ UNCHANGED <<upstream, alerts, seeded, registered, toSeed, due, cut>>

(* COALESCE(new_watermark, last_watermark).                                *)
CoalescedNot(c) == top                \* mutant: no COALESCE
Coalesced(c) == IF top = NoMark THEN mark[c] ELSE top

Finish ==
  /\ pc = "upsert" /\ batch = {}
  /\ mark' = [mark EXCEPT ![cur] = Coalesced(cur)]
  /\ status' = [status EXCEPT ![cur] = "success"]
  /\ waiting' = waiting \cup {cur}
  /\ BackToLoop
  /\ UNCHANGED faults

(* record_job_error: the watermark is left alone.                          *)
RecordError ==
  /\ pc = "error"
  /\ status' = [status EXCEPT ![cur] = "error"]
  /\ waiting' = waiting \cup {cur}
  /\ BackToLoop
  /\ UNCHANGED <<mark, faults>>

(* Its own failure is only logged: the job row keeps its past next_run_at. *)
RecordErrorFails ==
  /\ pc = "error"
  /\ Fault
  /\ UNCHANGED <<mark, status, waiting>>
  /\ BackToLoop

-----------------------------------------------------------------------------
Environment ==
  \/ Tick
  \/ \E d \in Docs : Index(d)
  \/ \E d \in Docs : CloseAlert(d)
  \/ \E d \in Docs : ReopenAlert(d)

Process ==
  \/ Start
  \/ \E c \in Connectors : SeedJob(c)
  \/ LoopTick
  \/ \E c \in Connectors : StartJob(c)
  \/ QueryServed
  \/ MapReply
  \/ \E d \in Docs : UpsertRow(d)
  \/ \E d \in Docs : RowRejected(d)
  \/ Finish
  \/ RecordError

Failure ==
  \/ SeedFails
  \/ FetchFails
  \/ StoreFails
  \/ RecordErrorFails
  \/ Crash

Timer == \E c \in Connectors : TimerElapses(c)

Next == Environment \/ Process \/ Failure \/ Timer

Spec == Init /\ [][Next]_vars

(* The loop task is always scheduled, a supervisor restarts the process,   *)
(* every job becomes due, and every await ends: the HTTP clients carry a   *)
(* timeout; the gRPC client of Velociraptor enforces its own only up to    *)
(* the headers of the reply, so that its server is taken to keep to the    *)
(* deadline sent along, and PostgreSQL to answer or to drop the connection.*)
(* Nothing is assumed of what a source holds or answers, of the analyst,   *)
(* or of the clock.                                                        *)
Fairness ==
  /\ WF_vars(Process)
  /\ \A c \in Connectors : WF_vars(TimerElapses(c))

FairSpec == Spec /\ Fairness

-----------------------------------------------------------------------------
(***************************************************************************)
(* What the scheduler promises.                                            *)
(***************************************************************************)

Stored(d) == rows[d] > 0

(* Nothing is promised of a document that a first fetch or a full page     *)
(* left out, which the code documents, nor of one that was searchable only *)
(* after its timestamp, which the watermark may have passed: that limit is *)
(* in the code and documented nowhere.                                     *)
Excused(d) == d \in late \/ d \in cut

(* The watermark of Wazuh never passes an event that is not stored: not    *)
(* when a fetch, a statement or the update of the job row fails, when the  *)
(* process dies in the middle of a batch stored newest first, or when a    *)
(* second event carries the timestamp of the newest one fetched.  It needs *)
(* sources that do not stamp events in the future.                         *)
WazuhEvents == {d \in Docs : Source[d] = "wazuh" /\ Form[d] # "unmappable"}

NoSilentGap ==
  MaxSkew = 0 =>
    \A d \in visible \cap WazuhEvents :
      ts[d] < mark["wazuh"] => Stored(d) \/ Excused(d)

(* No step moves a watermark back, whatever a cycle read at its beginning: *)
(* not an empty batch, not Graylog's timestamps cut to the second, not a   *)
(* restart that seeds the jobs again.                                      *)
Ordered(c) == MaxSkew = 0 \/ c = "wazuh"

WatermarkNeverRetreats ==
  [][ \A c \in Connectors : Ordered(c) => mark'[c] >= mark[c] ]_mark

(* An event an analyst closed is not opened again by the loop, however     *)
(* often a failed, repeated or overlapping fetch stores it again; only the *)
(* analyst reopens it.  It needs a stable source_id.                       *)
TriageSticks ==
  [][ \A d \in Docs :
        Stored(d) /\ StableId(d) /\ open'[d] > open[d] => rows' = rows /\ UNCHANGED process
    ]_alerts

(* A Wazuh event whose row the database takes is eventually stored, unless *)
(* a row of its source is refused: every failure is retried from a position*)
(* that still covers it, and the other connectors' failures do not stop    *)
(* the job.                                                                *)
Blocked(c) == \E d \in visible : Source[d] = c /\ Form[d] = "rejected"

EventuallyIngested ==
  \A d \in Docs :
    Source[d] = "wazuh" /\ Form[d] = "ok" /\ MaxSkew = 0 =>
      (d \in visible /\ "wazuh" \in seeded
         ~> Stored(d) \/ Excused(d) \/ Blocked("wazuh"))

(* A row the database refuses stops the job for good, and the job row says *)
(* so from some point on.  So does the job of a connector that is no       *)
(* longer registered.                                                      *)
StallIsObservable ==
  /\ \A d \in Docs :
       Source[d] = "wazuh" /\ Form[d] = "rejected" /\ MaxSkew = 0 =>
         (d \in visible /\ "wazuh" \in seeded
            ~> [](status["wazuh"] = "error") \/ Excused(d))
  /\ \A c \in Connectors \cap Optional :
       c \in seeded /\ c \notin registered /\ pc # "down"
         ~> status[c] = "error" \/ c \in registered

-----------------------------------------------------------------------------
(***************************************************************************)
(* The scheduler implements AlertFeed for the events of Wazuh: the         *)
(* position is last_watermark, and an event is passed when it is older.    *)
(***************************************************************************)

Position == IF "wazuh" \in Connectors THEN mark["wazuh"] ELSE NoMark

Feed == INSTANCE AlertFeed WITH
  Events    <- WazuhEvents,
  published <- visible \cap WazuhEvents,
  delivered <- {d \in WazuhEvents : rows[d] > 0},
  excused   <- (late \cup cut) \cap WazuhEvents,
  passed    <- {d \in visible \cap WazuhEvents : ts[d] < Position}

(* Every behaviour of the scheduler is one of AlertFeed: a stored event is *)
(* never lost, the position never goes back, and it passes an event only   *)
(* when the event is stored.                                               *)
ImplementsFeed == Feed!Spec

-----------------------------------------------------------------------------
(***************************************************************************)
(* Why it keeps its promises: an inductive invariant.                      *)
(***************************************************************************)

(* A cycle works on what the jobs table still says: nobody else writes a   *)
(* watermark between the SELECT and the end of the job.                    *)
CycleInv ==
  /\ pc \in {"down", "boot"} => due = {}
  /\ cur \notin due
  /\ \A c \in Connectors : c \in due \/ c = cur => c \in seeded /\ snap[c] = mark[c]
  /\ \A c \in Connectors : c \notin seeded => mark[c] = NoMark
  /\ \A d \in batch : d \in visible /\ Source[d] = cur
  /\ pc # "upsert" => top = NoMark

(* Without skewed sources, no timestamp is ahead of the clock.             *)
ClockInv ==
  MaxSkew = 0 =>
    /\ \A d \in visible : ts[d] <= now
    /\ \A c \in Connectors : mark[c] <= now
    /\ top <= now

(* Graylog's watermarks are whole seconds.                                 *)
IsWhole(t) == t = NoMark \/ t = (t \div Second) * Second

SecondsInv ==
  /\ "graylog" \in Connectors => IsWhole(mark["graylog"])
  /\ cur = "graylog" => IsWhole(top)

(* From the request to the new watermark, a job stays above the old one.   *)
AboveInv ==
  cur # Nobody /\ Ordered(cur) /\ snap[cur] # NoMark =>
    /\ pc = "query" /\ cur # "graylog" => ask = snap[cur]
    /\ pc = "query" /\ cur = "graylog" => ask >= 0 /\ now - ask * Second >= snap[cur]
    /\ pc = "reply" => \A d \in batch : ts[d] >= snap[cur]
    /\ pc = "upsert" => top = NoMark \/ top >= snap[cur]

(* What is older than the newest alert of a Wazuh batch is stored, in the  *)
(* batch, or excused.                                                      *)
CoverInv ==
  MaxSkew = 0 /\ cur = "wazuh" =>
    \A d \in visible \cap WazuhEvents :
      \/ Stored(d) \/ Excused(d) \/ d \in batch
      \/ pc \in {"query", "error"}
      \/ pc = "reply" /\ (\A e \in batch : ts[e] <= ts[d])
      \/ pc = "upsert" /\ top <= ts[d]

IngestInv ==
  /\ CycleInv
  /\ ClockInv
  /\ SecondsInv
  /\ AboveInv
  /\ CoverInv
  /\ "wazuh" \in Connectors => NoSilentGap

-----------------------------------------------------------------------------
(***************************************************************************)
(* What comments of the code say and the code does not do.                 *)
(***************************************************************************)

(* "Fetch all alerts newer than `since`" (connectors/mod.rs), but for what *)
(* the cap leaves out and what is stored.  A request to Graylog counts     *)
(* that asks for at least a second.                                        *)
FetchIsComplete ==
  [][ pc = "query" /\ pc' = "reply" /\ snap[cur] # NoMark /\ (cur = "graylog" => ask > 0) =>
        \A d \in Held(cur) :
          ts[d] > snap[cur] /\ ~Stored(d) => d \in batch' \cup cut' ]_vars

(* "re-fetching the same upstream event upserts rather than duplicates"    *)
(* (services/alerts.rs).                                                   *)
OneRowPerEvent == \A d \in Docs : rows[d] <= 1
=============================================================================
