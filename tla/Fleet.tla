------------------------------- MODULE Fleet --------------------------------
(***************************************************************************)
(* The browser fleet manager of an agent (crates/bcp-core/src/fleet.rs):   *)
(* the loop that checks every desired browser and starts the ones that are *)
(* gone, and the buffer of audit events and metric samples that the loop   *)
(* and the browser operations fill.                                        *)
(*                                                                         *)
(* A check and a start are awaited, so browser operations and the          *)
(* telemetry reporter run in between; the loop stamps its events with the  *)
(* time it read before the check.  Each entry of the buffer takes the lock *)
(* of its own, so the reporter may drain it between the sample of a        *)
(* restart and the event that goes with it.                                *)
(***************************************************************************)
EXTENDS Integers, Sequences, SequencesExt

CONSTANTS
  Profile,      \* profile ids, as numbers in the order of the ids
  MaxPending,   \* MAX_PENDING_TELEMETRY
  MaxRecorded,  \* bound: events recorded in a behaviour
  MaxSampled,   \* bound: samples recorded in a behaviour
  MaxClock      \* bound: last millisecond

ASSUME FleetAssumption ==
  /\ Profile \subseteq Nat
  /\ MaxPending \in Nat /\ MaxRecorded \in Nat /\ MaxSampled \in Nat
  /\ MaxClock \in Nat \ {0}

VARIABLES
  browsers,   \* runtime status of each desired browser
  pass,       \* the pass of the reconcile loop: where it is
  pending,    \* events recorded and not drained
  recorded,   \* number of events recorded so far
  samples,    \* samples recorded and not drained
  sampled,    \* number of samples recorded so far
  now

bufferVars == <<pending, recorded, samples, sampled>>
fleetVars == <<browsers, pass, bufferVars, now>>

RuntimeStatus == {"Desired", "Running", "Unhealthy", "Missing"}

\* Events are told apart by their serial number, which the code does not have.
\* The id it gives them is the profile and the millisecond.
Event == [serial : 1..MaxRecorded, profile : Profile, at : 1..MaxClock]

EventId(e) == <<e.profile, e.at>>

\* The counter bcp.browser.restart.count and the gauge bcp.browser.running.  The
\* value of a gauge is told by the serial number of its sample.
Sample == [serial : 1..MaxSampled, name : {"restart", "running"}, profile : Profile,
           at : 1..MaxClock]

Idle == [phase |-> "idle", todo |-> {}]

Pass ==
  {Idle}
    \cup [phase : {"next"}, todo : SUBSET Profile]
    \cup [phase : {"checking", "ensuring", "restarted", "sampling"}, todo : SUBSET Profile,
          profile : Profile, at : 1..MaxClock]

FleetInit ==
  /\ browsers = [p \in Profile |-> "Desired"]
  /\ pass = Idle
  /\ pending = << >>
  /\ recorded = 0
  /\ samples = << >>
  /\ sampled = 0
  /\ now = 1

RecordEvent(p, at) ==
  /\ recorded < MaxRecorded
  /\ recorded' = recorded + 1
  /\ pending' = Append(pending, [serial |-> recorded + 1, profile |-> p, at |-> at])
  /\ UNCHANGED <<samples, sampled>>

PushSample(name, p, at) ==
  /\ sampled < MaxSampled
  /\ sampled' = sampled + 1
  /\ samples' = Append(samples, [serial |-> sampled + 1, name |-> name, profile |-> p, at |-> at])
  /\ UNCHANGED <<pending, recorded>>

\* Every browser operation of the agent ends with one of these.
RecordOperation(p) ==
  /\ RecordEvent(p, now)
  /\ UNCHANGED <<browsers, pass, now>>

ReconcileOnce ==
  /\ pass = Idle
  /\ pass' = [phase |-> "next", todo |-> Profile]
  /\ UNCHANGED <<browsers, bufferVars, now>>

\* The next profile of the list, in any order; after the last one the loop waits.
ReconcileBrowser ==
  /\ pass.phase = "next"
  /\ \/ \E p \in pass.todo :
          pass' = [phase |-> "checking", todo |-> pass.todo \ {p}, profile |-> p, at |-> now]
     \/ pass.todo = {} /\ pass' = Idle
  /\ UNCHANGED <<browsers, bufferVars, now>>

CheckHealthy ==
  /\ pass.phase = "checking"
  /\ browsers' = [browsers EXCEPT ![pass.profile] = "Running"]
  /\ PushSample("running", pass.profile, pass.at)
  /\ pass' = [phase |-> "next", todo |-> pass.todo]
  /\ UNCHANGED now

\* The check found the browser missing or unhealthy; the loop goes on to start it.
CheckFailed(status) ==
  /\ pass.phase = "checking"
  /\ browsers' = [browsers EXCEPT ![pass.profile] = status]
  /\ RecordEvent(pass.profile, pass.at)
  /\ pass' = [pass EXCEPT !.phase = "ensuring"]
  /\ UNCHANGED now

\* The start succeeds: the counter of record_restart comes before its event.
EnsureStarted ==
  /\ pass.phase = "ensuring"
  /\ browsers' = [browsers EXCEPT ![pass.profile] = "Running"]
  /\ PushSample("restart", pass.profile, pass.at)
  /\ pass' = [pass EXCEPT !.phase = "restarted"]
  /\ UNCHANGED now

\* ensure_started or ensure_failed, with the time of the check.
RecordEnsured ==
  /\ \/ pass.phase = "restarted" /\ UNCHANGED browsers
     \/ /\ pass.phase = "ensuring"
        /\ browsers' = [browsers EXCEPT ![pass.profile] = "Unhealthy"]
  /\ RecordEvent(pass.profile, pass.at)
  /\ pass' = [pass EXCEPT !.phase = "sampling"]
  /\ UNCHANGED now

RecordRunning ==
  /\ pass.phase = "sampling"
  /\ PushSample("running", pass.profile, pass.at)
  /\ pass' = [phase |-> "next", todo |-> pass.todo]
  /\ UNCHANGED <<browsers, now>>

FleetTick ==
  /\ now < MaxClock
  /\ now' = now + 1
  /\ UNCHANGED <<browsers, pass, bufferVars>>

FleetStep ==
  \/ \E p \in Profile : RecordOperation(p)
  \/ ReconcileOnce
  \/ ReconcileBrowser
  \/ CheckHealthy
  \/ \E status \in {"Unhealthy", "Missing"} : CheckFailed(status)
  \/ EnsureStarted
  \/ RecordEnsured
  \/ RecordRunning
  \/ FleetTick

\* Mutant: a failed batch goes behind what was recorded meanwhile.
MutRequeued(batch, newer) == newer \o batch

\* Mutant: the bound cuts off the oldest.
MutRequeueNewest(batch, newer) ==
  LET all == batch \o newer
  IN  SubSeq(all, IF Len(all) > MaxPending THEN Len(all) - MaxPending + 1 ELSE 1, Len(all))

\* Mutant: a failed batch is put back one by one, each in front of the others.
MutRequeueReversed(batch, newer) == Reverse(batch) \o newer

\* Events, or samples, after a failed batch came back: the older ones first, cut
\* off at the bound.
Requeued(batch, newer) ==
  LET all == batch \o newer
  IN  SubSeq(all, 1, IF Len(all) > MaxPending THEN MaxPending ELSE Len(all))

\* A new process: the profiles are loaded again, the buffer is gone.
FleetRestart ==
  /\ browsers' = [p \in Profile |-> "Desired"]
  /\ pass' = Idle
  /\ pending' = << >>
  /\ samples' = << >>
  /\ UNCHANGED <<recorded, sampled, now>>
=============================================================================
