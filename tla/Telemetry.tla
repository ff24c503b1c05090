----------------------------- MODULE Telemetry ------------------------------
(***************************************************************************)
(* The way of audit events and metric samples from an agent to the         *)
(* controller: the telemetry reporter of the agent drains the buffer of    *)
(* the fleet manager, sends the batch and puts it back unless it was told  *)
(* that the controller has it; the controller adds the samples to its      *)
(* metric points, appends the events to its log, bounds both and persists  *)
(* them under their ids, all in one transaction.                           *)
(***************************************************************************)
EXTENDS Fleet

CONSTANTS
  MaxStored,      \* MAX_STORED_EVENTS
  MaxMetrics,     \* MAX_STORED_METRICS
  MetricBucketMs, \* METRIC_BUCKET_MS
  MaxCount        \* bound: larger values of a counter are not told apart

ASSUME StoredAssumption ==
  /\ MaxStored \in Nat \ {0} /\ MaxMetrics \in Nat \ {0}
  /\ MetricBucketMs \in Nat \ {0} /\ MaxCount \in Nat \ {0}

VARIABLES
  reporter,   \* the batch the reporter has drained and what became of it
  events,     \* the event log in the memory of the controller
  table,      \* the event rows in SQLite
  metrics,    \* the metric points, in memory as on disk; 0 where there is none
  counted,    \* history: restarts that were added to the points
  bare,       \* history: the ones among them that came without any event
  cut         \* history: samples were cut off at the bound of the buffer

storeVars == <<events, table, metrics, counted, bare>>
vars == <<fleetVars, reporter, storeVars, cut>>

Reporter ==
  [phase : {"idle", "sending", "accepted", "refused"}, batch : Seq(Event), samples : Seq(Sample)]

Waiting == [phase |-> "idle", batch |-> << >>, samples |-> << >>]

\* Of the key of a point the name, the profile and the minute.
BucketStart(at) == at - (at % MetricBucketMs)

MetricKey(s) == [name |-> s.name, profile |-> s.profile, bucket |-> BucketStart(s.at)]

Key == [name : {"restart", "running"}, profile : Profile,
        bucket : {BucketStart(t) : t \in 1..MaxClock}]

Init ==
  /\ FleetInit
  /\ reporter = Waiting
  /\ events = << >>
  /\ table = {}
  /\ metrics = [k \in Key |-> 0]
  /\ counted = {}
  /\ bare = {}
  /\ cut = FALSE

Record ==
  /\ FleetStep
  /\ UNCHANGED <<reporter, storeVars, cut>>

DrainTelemetry ==
  /\ reporter.phase = "idle"
  /\ pending # << >> \/ samples # << >>
  /\ reporter' = [phase |-> "sending", batch |-> pending, samples |-> samples]
  /\ pending' = << >>
  /\ samples' = << >>
  /\ UNCHANGED <<browsers, pass, recorded, sampled, now, storeVars, cut>>

\* The last MaxStored entries of the log.
Bounded(log) ==
  SubSeq(log, IF Len(log) > MaxStored THEN Len(log) - MaxStored + 1 ELSE 1, Len(log))

\* Mutant: rows are replaced instead of inserted.
MutInsertable(log) == TRUE

\* Mutant: a log at its bound takes no more events.
MutInsertableFull(log) ==
  /\ Len(log) < MaxStored
  /\ \A i, j \in DOMAIN log : EventId(log[i]) = EventId(log[j]) => i = j

\* The inserts succeed: (kind, id) is the primary key.
Insertable(log) ==
  \A i, j \in DOMAIN log : EventId(log[i]) = EventId(log[j]) => i = j

\* The restarts among the samples.
Restarts(batch) == {batch[i].serial : i \in {j \in DOMAIN batch : batch[j].name = "restart"}}

\* Counters add up, gauges take the last sample.
Point(k, batch) ==
  LET mine == {i \in DOMAIN batch : MetricKey(batch[i]) = k}
  IN  IF mine = {} THEN metrics[k]
      ELSE IF k.name = "restart" THEN Min({metrics[k] + Cardinality(mine), MaxCount})
      ELSE batch[Max(mine)].serial

\* Above the bound the oldest minutes go; which points of one minute, is chance.
Evictable(points, gone) ==
  LET stored == {k \in Key : points[k] # 0}
  IN  /\ gone \subseteq stored
      /\ Cardinality(gone) =
           IF Cardinality(stored) > MaxMetrics THEN Cardinality(stored) - MaxMetrics ELSE 0
      /\ \A k \in gone, l \in stored \ gone : k.bucket <= l.bucket

\* The call reaches the controller, which takes all of the batch or none of it.
ReportTelemetry ==
  LET log == Bounded(events \o reporter.batch)
      points == [k \in Key |-> Point(k, reporter.samples)]
  IN  /\ reporter.phase = "sending"
      /\ \/ /\ Insertable(log)
            /\ events' = log
            /\ table' = ToSet(log)
            /\ \E gone \in SUBSET Key :
                 /\ Evictable(points, gone)
                 /\ metrics' = [k \in Key |-> IF k \in gone THEN 0 ELSE points[k]]
            /\ counted' = counted \cup Restarts(reporter.samples)
            /\ bare' = IF reporter.batch = << >> THEN bare \cup Restarts(reporter.samples) ELSE bare
            /\ reporter' = [reporter EXCEPT !.phase = "accepted"]
         \/ /\ ~Insertable(log)
            /\ reporter' = [reporter EXCEPT !.phase = "refused"]
            /\ UNCHANGED storeVars
      /\ UNCHANGED <<fleetVars, cut>>

\* The reporter learns that the controller has the batch.
Acknowledge ==
  /\ reporter.phase = "accepted"
  /\ reporter' = Waiting
  /\ UNCHANGED <<fleetVars, storeVars, cut>>

\* The controller was unreachable, refused the batch, or its answer was lost.
RequeueTelemetry ==
  /\ reporter.phase # "idle"
  /\ pending' = Requeued(reporter.batch, pending)
  /\ samples' = Requeued(reporter.samples, samples)
  /\ cut' = (cut \/ Len(reporter.samples \o samples) > MaxPending)
  /\ reporter' = Waiting
  /\ UNCHANGED <<browsers, pass, recorded, sampled, now, storeVars>>

RestartAgent ==
  /\ FleetRestart
  /\ reporter' = Waiting
  /\ UNCHANGED <<storeVars, cut>>

InOrderOfIds(log) ==
  \A i, j \in DOMAIN log : i < j =>
    \/ log[i].profile < log[j].profile
    \/ log[i].profile = log[j].profile /\ log[i].at < log[j].at

\* load_messages reads the rows in the order of their ids.
RestartController ==
  /\ \E rows \in [1..Cardinality(table) -> table] :
       ToSet(rows) = table /\ InOrderOfIds(rows) /\ events' = rows
  /\ UNCHANGED <<fleetVars, reporter, table, metrics, counted, bare, cut>>

Next ==
  \/ Record
  \/ DrainTelemetry
  \/ ReportTelemetry
  \/ Acknowledge
  \/ RequeueTelemetry
  \/ RestartAgent
  \/ RestartController

Spec == Init /\ [][Next]_vars

\* The reporter runs at a fixed interval for as long as the agent lives, and the
\* controller is reachable again and again.  Nothing more is assumed: every
\* single answer may be lost.
Fairness ==
  /\ WF_vars(DrainTelemetry)
  /\ SF_vars(ReportTelemetry)
  /\ WF_vars(Acknowledge \/ RequeueTelemetry)

FairSpec == Spec /\ Fairness

-----------------------------------------------------------------------------
(* Correctness. *)

\* The buffer, the batch, the log and the table hold events and samples; the pass
\* of the loop is between two of its steps.
TypeOK ==
  /\ browsers \in [Profile -> RuntimeStatus]
  /\ pass \in Pass
  /\ recorded \in 0..MaxRecorded
  /\ now \in 1..MaxClock
  /\ pending \in Seq(Event)
  /\ reporter \in Reporter
  /\ events \in Seq(Event)
  /\ table \subseteq Event
  /\ sampled \in 0..MaxSampled
  /\ samples \in Seq(Sample)
  /\ metrics \in [Key -> Nat]
  /\ bare \subseteq counted /\ counted \subseteq 1..MaxSampled
  /\ cut \in BOOLEAN

Held == ToSet(pending) \cup ToSet(reporter.batch)

\* An event is stored once, although a batch is sent again whenever its answer
\* is lost, and the log in memory is what a restart would load.
StoredOnce ==
  /\ \A i, j \in DOMAIN events : events[i].serial = events[j].serial => i = j
  /\ ToSet(events) = table

\* Retries never reorder: what the agent still holds is in the order in which it
\* was recorded, the batch in flight before the buffer.
RecordingOrder ==
  LET held == reporter.batch \o pending
  IN  \A i, j \in DOMAIN held : i < j => held[i].serial < held[j].serial

\* An event leaves the agent for the log of the controller, unless the process
\* dies or MaxPending older ones wait while the controller is away: of an outage
\* that fills the buffer the beginning is kept.
HandedOver ==
  [][\A e \in Held :
       e \notin Held' =>
         \/ RestartAgent
         \/ Acknowledge /\ (e \in table \/ Len(events) = MaxStored)
         \/ LET line == reporter.batch \o pending
            IN  \E i \in DOMAIN line : i > MaxPending /\ line[i] = e]_vars

\* No two events held or stored share an id, and none waits that is stored.
IdsFresh ==
  /\ \A d, e \in Held \cup table : EventId(d) = EventId(e) => d = e
  /\ ToSet(pending) \cap table = {}

\* As long as the ids are fresh, which they are unless two events of a profile
\* fall into one millisecond or an answer is lost, every event leaves the agent.
DeliveredWhileFresh ==
  []IdsFresh => \A n \in 1..MaxRecorded :
    (\E e \in Held : e.serial = n) ~> ~(\E e \in Held : e.serial = n)

\* A restart is not counted twice although its batch is sent again after a lost
\* answer: the ids of the events that travel with it keep the batch out.  The
\* exceptions are a sample that was once drained without any event, and a log at
\* its bound, which may evict the very event that tells the retry.
CountedOnce ==
  [][\A i \in DOMAIN reporter.samples :
       LET s == reporter.samples[i]
       IN  ReportTelemetry /\ s.serial \in counted /\ reporter'.phase = "accepted"
             => s.serial \in bare \/ Len(events) + Len(reporter.batch) > MaxStored]_vars

\* A gauge never goes back to an earlier reading, however often batches are sent
\* again, unless samples were cut off or the point is evicted.
GaugeNeverOlder ==
  [][\A k \in Key :
       k.name = "running" /\ metrics'[k] < metrics[k] => metrics'[k] = 0 \/ cut]_vars

-----------------------------------------------------------------------------
(* What a comment says and the code does not do. *)

\* bcp-agent/src/main.rs: a batch that was not sent is put back so that the next
\* tick retries it.  A batch with two events of one profile in one millisecond,
\* as every restart of a browser records them, is refused for ever, and so is
\* one that the controller stored without the agent learning of it; no later
\* event gets past it.
NoBatchStuck ==
  \A n \in 1..MaxRecorded :
    (\E e \in Held : e.serial = n) ~> ~(\E e \in Held : e.serial = n)
=============================================================================
