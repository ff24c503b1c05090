-------------------------- MODULE TelemetryProofs ---------------------------
(***************************************************************************)
(* Theorems about Fleet and Telemetry, for any set of profiles, any sizes  *)
(* of the buffer, the log and the points, and any number of events.        *)
(***************************************************************************)
EXTENDS Telemetry, SequenceTheorems, FiniteSetTheorems, WellFoundedInduction, TLAPS

-----------------------------------------------------------------------------
(* Sequences of numbered entries. *)

\* The entries are in the order of their serial numbers.
Increasing(s) == \A i, j \in DOMAIN s : i < j => s[i].serial < s[j].serial

\* Every serial number is at most n.
UpTo(s, n) == \A i \in DOMAIN s : s[i].serial <= n

\* Another entry after those there are.
LEMMA AppendIncreasing ==
  ASSUME NEW S, NEW s \in Seq(S), NEW e \in S, NEW n \in Nat,
         \A x \in S : x.serial \in Nat,
         Increasing(s), UpTo(s, n), e.serial = n + 1
  PROVE  /\ Append(s, e) \in Seq(S) /\ Increasing(Append(s, e)) /\ UpTo(Append(s, e), n + 1)
         /\ ToSet(Append(s, e)) = ToSet(s) \cup {e}
<1> DEFINE t == Append(s, e)
<1>1. /\ t \in Seq(S) /\ Len(t) = Len(s) + 1 /\ Len(s) \in Nat
      /\ DOMAIN t = 1..(Len(s) + 1) /\ DOMAIN s = 1..Len(s)
      /\ \A i \in 1..Len(s) : t[i] = s[i] /\ s[i] \in S
      /\ t[Len(s) + 1] = e
  OBVIOUS
<1> HIDE DEF t
<1>2. \A i \in DOMAIN t : i \in DOMAIN s \/ i = Len(s) + 1
  BY <1>1
<1>3. UpTo(t, n + 1)
  BY <1>1, <1>2 DEF UpTo
<1>4. Increasing(t)
  BY <1>1, <1>2 DEF UpTo, Increasing
<1>5. ToSet(t) = ToSet(s) \cup {e}
  BY <1>1 DEF ToSet
<1> QED
  BY <1>1, <1>3, <1>4, <1>5 DEF t

\* Two sequences one after the other.
LEMMA ConcatFacts ==
  ASSUME NEW S, NEW s \in Seq(S), NEW t \in Seq(S)
  PROVE  LET all == s \o t
         IN  /\ all \in Seq(S) /\ Len(all) = Len(s) + Len(t) /\ Len(s) \in Nat /\ Len(t) \in Nat
             /\ DOMAIN s = 1..Len(s) /\ DOMAIN t = 1..Len(t) /\ DOMAIN all = 1..(Len(s) + Len(t))
             /\ \A i \in DOMAIN s : i \in DOMAIN all /\ all[i] = s[i]
             /\ \A i \in DOMAIN t : Len(s) + i \in DOMAIN all /\ all[Len(s) + i] = t[i]
             /\ \A i \in DOMAIN all : i \in DOMAIN s \/ (i - Len(s) \in DOMAIN t /\ i > Len(s))
             /\ ToSet(all) = ToSet(s) \cup ToSet(t)
<1> DEFINE all == s \o t
<1>1. /\ all \in Seq(S) /\ Len(all) = Len(s) + Len(t)
      /\ \A i \in 1..(Len(s) + Len(t)) :
           all[i] = IF i <= Len(s) THEN s[i] ELSE t[i - Len(s)]
  BY ConcatProperties
<1>2. /\ Len(s) \in Nat /\ Len(t) \in Nat
      /\ DOMAIN s = 1..Len(s) /\ DOMAIN t = 1..Len(t) /\ DOMAIN all = 1..(Len(s) + Len(t))
  BY <1>1
<1> HIDE DEF all
<1>3. \A i \in DOMAIN s : i \in DOMAIN all /\ all[i] = s[i]
  BY <1>1, <1>2
<1>4. \A i \in DOMAIN t : Len(s) + i \in DOMAIN all /\ all[Len(s) + i] = t[i]
  BY <1>1, <1>2
<1>5. \A i \in DOMAIN all : i \in DOMAIN s \/ (i - Len(s) \in DOMAIN t /\ i > Len(s))
  BY <1>2
<1>6. \A i \in DOMAIN all : i - Len(s) \in DOMAIN t /\ i > Len(s) => all[i] = t[i - Len(s)]
  BY <1>1, <1>2
<1>7. ToSet(all) = ToSet(s) \cup ToSet(t)
  BY <1>3, <1>4, <1>5, <1>6 DEF ToSet
<1> QED
  BY <1>1, <1>2, <1>3, <1>4, <1>5, <1>7 DEF all

\* A failed batch that is put back: what there was, up to the bound.
LEMMA RequeuedFacts ==
  ASSUME NEW S, NEW s \in Seq(S), NEW t \in Seq(S)
  PROVE  LET all == s \o t
             r == Requeued(s, t)
         IN  /\ r \in Seq(S) /\ DOMAIN r \subseteq DOMAIN all
             /\ \A i \in DOMAIN r : r[i] = all[i]
             /\ \A i \in DOMAIN all : i <= MaxPending => i \in DOMAIN r
             /\ Len(all) <= MaxPending => r = all
             /\ ToSet(r) \subseteq ToSet(all)
             /\ r # << >> => 1 \in DOMAIN r /\ MaxPending # 0
             /\ r = << >> => all = << >> \/ MaxPending = 0
<1> DEFINE all == s \o t
           n == IF Len(all) > MaxPending THEN MaxPending ELSE Len(all)
           r == SubSeq(all, 1, n)
<1>1. all \in Seq(S) /\ Len(all) \in Nat /\ DOMAIN all = 1..Len(all)
  BY ConcatProperties
<1> HIDE DEF all
<1>2. n \in Nat /\ n <= Len(all) /\ \A i \in 1..n : all[i] \in S
  BY <1>1, FleetAssumption
<1>3. r \in Seq(S) /\ Len(r) = n /\ \A i \in 1..n : r[i] = all[i]
  <2>1. /\ SubSeq(all, 1, n) \in Seq(S)
        /\ Len(SubSeq(all, 1, n)) = IF 1 <= n THEN n - 1 + 1 ELSE 0
        /\ \A i \in 1..(n - 1 + 1) : SubSeq(all, 1, n)[i] = all[1 + i - 1]
    BY <1>2, SubSeqProperties
  <2> QED
    BY <1>2, <2>1
<1>4. DOMAIN r = 1..n
  BY <1>3
<1>5. Len(all) <= MaxPending => r = all
  BY <1>1, <1>2, <1>3, SeqEqual
<1>6. Requeued(s, t) = r
  BY DEF Requeued, all
<1> HIDE DEF r
<1>7. ToSet(r) \subseteq ToSet(all)
  BY <1>1, <1>2, <1>3, <1>4 DEF ToSet
<1>8. /\ r # << >> => 1 \in DOMAIN r /\ MaxPending # 0
      /\ r = << >> => all = << >> \/ MaxPending = 0
  BY <1>1, <1>2, <1>3, <1>4, FleetAssumption
<1> QED
  BY <1>1, <1>2, <1>3, <1>4, <1>5, <1>6, <1>7, <1>8 DEF all

\* What is recorded goes behind what is held.
LEMMA AppendBehind ==
  ASSUME NEW S, NEW s \in Seq(S), NEW t \in Seq(S), NEW e \in S
  PROVE  s \o Append(t, e) = Append(s \o t, e)
<1> DEFINE u == s \o t
           a == Append(t, e)
           v == s \o a
           w == Append(u, e)
<1>1. /\ u \in Seq(S) /\ Len(u) = Len(s) + Len(t) /\ Len(s) \in Nat /\ Len(t) \in Nat
      /\ \A i \in 1..(Len(s) + Len(t)) : u[i] = IF i <= Len(s) THEN s[i] ELSE t[i - Len(s)]
  BY ConcatProperties
<1>2. /\ a \in Seq(S) /\ Len(a) = Len(t) + 1 /\ a[Len(t) + 1] = e
      /\ \A i \in 1..Len(t) : a[i] = t[i]
  OBVIOUS
<1> HIDE DEF u, a
<1>3. /\ v \in Seq(S) /\ Len(v) = Len(s) + Len(a)
      /\ \A i \in 1..(Len(s) + Len(a)) : v[i] = IF i <= Len(s) THEN s[i] ELSE a[i - Len(s)]
  BY <1>2, ConcatProperties
<1>4. /\ w \in Seq(S) /\ Len(w) = Len(u) + 1 /\ w[Len(u) + 1] = e
      /\ \A i \in 1..Len(u) : w[i] = u[i]
  BY <1>1
<1> HIDE DEF v, w
<1>5. ASSUME NEW i \in 1..Len(v) PROVE v[i] = w[i]
  <2>1. v[i] = IF i <= Len(s) THEN s[i] ELSE a[i - Len(s)]
    BY <1>3
  <2>2. CASE i <= Len(s) + Len(t)
    <3>1. w[i] = u[i] /\ u[i] = IF i <= Len(s) THEN s[i] ELSE t[i - Len(s)]
      BY <1>1, <1>3, <1>4, <2>2
    <3>2. i > Len(s) => a[i - Len(s)] = t[i - Len(s)]
      BY <1>1, <1>2, <1>3, <2>2
    <3> QED
      BY <1>1, <1>3, <2>1, <3>1, <3>2
  <2>3. CASE i = Len(s) + Len(t) + 1
    <3>1. i - Len(s) = Len(t) + 1 /\ ~(i <= Len(s)) /\ i = Len(u) + 1
      BY <1>1, <2>3
    <3> QED
      BY <1>2, <1>4, <2>1, <3>1
  <2> QED
    BY <1>1, <1>2, <1>3, <2>2, <2>3
<1>6. v = w
  BY <1>1, <1>2, <1>3, <1>4, <1>5, SeqEqual
<1> QED
  BY <1>6 DEF u, a, v, w

\* The log at its bound: its last entries.
LEMMA BoundedFacts ==
  ASSUME NEW S, NEW log \in Seq(S)
  PROVE  LET b == Bounded(log)
         IN  /\ b \in Seq(S) /\ Len(log) \in Nat
             /\ Len(log) <= MaxStored => b = log
             /\ Len(log) > MaxStored => Len(b) = MaxStored
             /\ ToSet(b) \subseteq ToSet(log)
<1> DEFINE m == IF Len(log) > MaxStored THEN Len(log) - MaxStored + 1 ELSE 1
           n == Len(log)
           b == SubSeq(log, m, n)
<1>1. n \in Nat /\ m \in Nat \ {0} /\ (n > 0 => m <= n) /\ MaxStored \in Nat \ {0}
  BY StoredAssumption
<1>2. \A i \in m..n : log[i] \in S /\ i \in DOMAIN log
  BY <1>1
<1>3. /\ b \in Seq(S) /\ Len(b) = IF m <= n THEN n - m + 1 ELSE 0
      /\ \A i \in 1..(n - m + 1) : b[i] = log[m + i - 1]
  BY <1>1, <1>2, SubSeqProperties
<1>4. Len(log) <= MaxStored => b = log
  <2> SUFFICES ASSUME Len(log) <= MaxStored PROVE b = log
    OBVIOUS
  <2>1. m = 1
    BY <1>1
  <2> QED
    BY <2>1, SubSeqFull
<1>5. Len(log) > MaxStored => Len(b) = MaxStored
  BY <1>1, <1>3
<1>6. Bounded(log) = b
  BY DEF Bounded
<1> HIDE DEF b
<1>7. DOMAIN b = 1..Len(b) /\ Len(b) \in Nat
  BY <1>3
<1> HIDE DEF m, n
<1>8. ToSet(b) \subseteq ToSet(log)
  <2>1. ASSUME NEW i \in DOMAIN b PROVE m + i - 1 \in m..n /\ i \in 1..(n - m + 1)
    BY <1>1, <1>3, <1>7
  <2> QED
    BY <1>2, <1>3, <2>1 DEF ToSet
<1> QED
  BY <1>1, <1>3, <1>4, <1>5, <1>6, <1>8 DEF n

\* A sequence without repetition has as many entries as values.
LEMMA CountDistinct ==
  ASSUME NEW S, NEW s \in Seq(S), \A i, j \in DOMAIN s : s[i] = s[j] => i = j
  PROVE  IsFiniteSet(ToSet(s)) /\ Cardinality(ToSet(s)) = Len(s)
<1>1. Len(s) \in Nat /\ DOMAIN s = 1..Len(s) /\ s \in [1..Len(s) -> S]
  BY LenProperties
<1>2. IsFiniteSet(1..Len(s)) /\ Cardinality(1..Len(s)) = Len(s)
  BY <1>1, FS_Interval
<1>3. s \in Bijection(1..Len(s), ToSet(s))
  BY <1>1 DEF Bijection, Injection, Surjection, IsInjective, ToSet
<1> QED
  BY <1>2, <1>3, FS_Bijection DEF ExistsBijection

\* The largest of a set of indices.
LEMMA MaxIndex ==
  ASSUME NEW n \in Nat, NEW T, T \subseteq 1..n, T # {}
  PROVE  Max(T) \in T /\ \A i \in T : i <= Max(T)
<1> DEFINE D == {n - i : i \in T}
<1>1. D \subseteq Nat /\ D # {}
  <2>1. \A i \in T : n - i \in Nat
    OBVIOUS
  <2>2. PICK i \in T : TRUE
    OBVIOUS
  <2>3. n - i \in D
    OBVIOUS
  <2> QED
    BY <2>1, <2>3
<1> HIDE DEF D
<1>2. PICK d \in D : \A e \in D : ~(<<e, d>> \in OpToRel(<, Nat))
  BY <1>1, NatLessThanWellFounded, WFMin
<1>3. \A e \in D : ~(e < d)
  BY <1>1, <1>2, Zenon DEF OpToRel
<1>4. PICK x \in T : d = n - x
  BY DEF D
<1>5. \A i \in T : x >= i
  BY <1>1, <1>3, <1>4 DEF D
<1>6. Max(T) \in T /\ \A i \in T : Max(T) >= i
  BY <1>5 DEF Max
<1> QED
  BY <1>6

-----------------------------------------------------------------------------
(* The fleet manager. *)

\* The loop is between two of its steps, and the clock in its range.
LoopTypeOK ==
  /\ browsers \in [Profile -> RuntimeStatus]
  /\ pass \in Pass
  /\ now \in 1..MaxClock

\* The pass that the loop is in the middle of.
LEMMA PassFields ==
  ASSUME LoopTypeOK, pass # Idle
  PROVE  /\ pass.todo \subseteq Profile
         /\ pass.phase # "next" => pass.profile \in Profile /\ pass.at \in 1..MaxClock
         /\ pass.phase # "next" => \A f \in {"checking", "ensuring", "restarted", "sampling"} :
                                     [pass EXCEPT !.phase = f] \in Pass
<1> DEFINE Busy == [phase : {"checking", "ensuring", "restarted", "sampling"},
                    todo : SUBSET Profile, profile : Profile, at : 1..MaxClock]
<1>1. pass \in [phase : {"next"}, todo : SUBSET Profile] \/ pass \in Busy
  BY DEF LoopTypeOK, Pass
<1>2. pass.todo \subseteq Profile
  BY <1>1
<1>3. ASSUME pass \in Busy
      PROVE  \A f \in {"checking", "ensuring", "restarted", "sampling"} :
               [pass EXCEPT !.phase = f] \in Busy
  BY <1>3
<1>4. Busy \subseteq Pass
  BY DEF Pass
<1> QED
  BY <1>1, <1>2, <1>3, <1>4

\* A step of the fleet manager records at most one event or one sample.
LEMMA FleetSteps ==
  ASSUME LoopTypeOK, FleetStep
  PROVE  /\ LoopTypeOK'
         /\ \/ UNCHANGED bufferVars
            \/ \E p \in Profile, at \in 1..MaxClock : RecordEvent(p, at)
            \/ \E name \in {"restart", "running"}, p \in Profile, at \in 1..MaxClock :
                 PushSample(name, p, at)
<1> DEFINE Recorded == \E p \in Profile, at \in 1..MaxClock : RecordEvent(p, at)
           Pushed == \E name \in {"restart", "running"}, p \in Profile, at \in 1..MaxClock :
                       PushSample(name, p, at)
<1>1. ASSUME NEW p \in Profile, RecordOperation(p) PROVE LoopTypeOK' /\ Recorded
  BY <1>1 DEF RecordOperation, LoopTypeOK
<1>2. ASSUME ReconcileOnce PROVE LoopTypeOK' /\ UNCHANGED bufferVars
  BY <1>2 DEF ReconcileOnce, LoopTypeOK, Pass
<1>3. ASSUME ReconcileBrowser PROVE LoopTypeOK' /\ UNCHANGED bufferVars
  <2>1. pass # Idle /\ pass.phase = "next"
    BY <1>3 DEF ReconcileBrowser, Idle
  <2>2. pass.todo \subseteq Profile
    BY <2>1, PassFields
  <2>3. pass' \in Pass
    <3>1. CASE pass' = Idle
      BY <3>1 DEF Pass
    <3>2. CASE \E p \in pass.todo :
                 pass' = [phase |-> "checking", todo |-> pass.todo \ {p}, profile |-> p,
                          at |-> now]
      BY <2>2, <3>2 DEF Pass, LoopTypeOK
    <3> QED
      BY <1>3, <3>1, <3>2 DEF ReconcileBrowser
  <2> QED
    BY <1>3, <2>3 DEF ReconcileBrowser, LoopTypeOK
<1>4. ASSUME pass # Idle, pass.phase # "next",
             pass' = [phase |-> "next", todo |-> pass.todo]
                \/ \E f \in {"ensuring", "restarted", "sampling"} :
                     pass' = [pass EXCEPT !.phase = f],
             browsers' = browsers
                \/ \E s \in RuntimeStatus : browsers' = [browsers EXCEPT ![pass.profile] = s],
             now' = now
      PROVE  LoopTypeOK'
  <2>1. pass' \in Pass
    BY <1>4, PassFields DEF Pass
  <2>2. browsers' \in [Profile -> RuntimeStatus]
    BY <1>4, PassFields DEF LoopTypeOK
  <2> QED
    BY <1>4, <2>1, <2>2 DEF LoopTypeOK
<1>5. ASSUME pass.phase \in {"checking", "ensuring", "restarted", "sampling"}
      PROVE  pass # Idle /\ pass.phase # "next"
             /\ pass.profile \in Profile /\ pass.at \in 1..MaxClock
  BY <1>5, PassFields DEF Idle
<1>6. ASSUME CheckHealthy PROVE LoopTypeOK' /\ Pushed
  BY <1>4, <1>5, <1>6 DEF CheckHealthy, RuntimeStatus
<1>7. ASSUME NEW status \in {"Unhealthy", "Missing"}, CheckFailed(status)
      PROVE  LoopTypeOK' /\ Recorded
  BY <1>4, <1>5, <1>7 DEF CheckFailed, RuntimeStatus
<1>8. ASSUME EnsureStarted PROVE LoopTypeOK' /\ Pushed
  BY <1>4, <1>5, <1>8 DEF EnsureStarted, RuntimeStatus
<1>9. ASSUME RecordEnsured PROVE LoopTypeOK' /\ Recorded
  BY <1>4, <1>5, <1>9 DEF RecordEnsured, RuntimeStatus
<1>10. ASSUME RecordRunning PROVE LoopTypeOK' /\ Pushed
  BY <1>4, <1>5, <1>10 DEF RecordRunning
<1>11. ASSUME FleetTick PROVE LoopTypeOK' /\ UNCHANGED bufferVars
  BY <1>11, FleetAssumption DEF FleetTick, LoopTypeOK
<1> QED
  BY <1>1, <1>2, <1>3, <1>6, <1>7, <1>8, <1>9, <1>10, <1>11 DEF FleetStep

-----------------------------------------------------------------------------
(* Types. *)

\* The parts of the state that the steps work with.
LEMMA Typed ==
  ASSUME TypeOK
  PROVE  /\ LoopTypeOK
         /\ reporter.phase \in {"idle", "sending", "accepted", "refused"}
         /\ reporter.batch \in Seq(Event) /\ reporter.samples \in Seq(Sample)
         /\ pending \in Seq(Event) /\ samples \in Seq(Sample)
         /\ events \in Seq(Event) /\ table \subseteq Event
         /\ recorded \in Nat /\ sampled \in Nat /\ metrics \in [Key -> Nat]
         /\ bare \subseteq counted /\ counted \subseteq 1..MaxSampled
         /\ cut \in BOOLEAN
BY DEF TypeOK, LoopTypeOK, Reporter

\* What becomes of one point.
LEMMA PointFacts ==
  ASSUME metrics \in [Key -> Nat], NEW k \in Key, NEW batch \in Seq(Sample)
  PROVE  /\ Point(k, batch) \in Nat
         /\ k.name = "running" =>
              \/ /\ Point(k, batch) = metrics[k]
                 /\ \A i \in DOMAIN batch : MetricKey(batch[i]) # k
              \/ \E m \in DOMAIN batch :
                   /\ MetricKey(batch[m]) = k /\ Point(k, batch) = batch[m].serial
                   /\ \A i \in DOMAIN batch : MetricKey(batch[i]) = k => i <= m
<1> DEFINE mine == {i \in DOMAIN batch : MetricKey(batch[i]) = k}
<1>1. /\ Len(batch) \in Nat /\ DOMAIN batch = 1..Len(batch)
      /\ \A i \in DOMAIN batch : batch[i] \in Sample
  OBVIOUS
<1>2. \A i \in DOMAIN batch : batch[i].serial \in Nat
  BY <1>1 DEF Sample
<1>3. CASE mine = {}
  BY <1>3 DEF Point
<1>4. CASE mine # {}
  <2>1. mine \subseteq 1..Len(batch)
    BY <1>1
  <2>2. Max(mine) \in mine /\ \A i \in mine : i <= Max(mine)
    BY <1>1, <1>4, <2>1, MaxIndex
  <2>3. IsFiniteSet(mine)
    <3>1. IsFiniteSet(1..Len(batch))
      BY <1>1, FS_Interval
    <3> QED
      BY <2>1, <3>1, FS_Subset
  <2>4. Cardinality(mine) \in Nat
    BY <2>3, FS_CardinalityType
  <2>5. CASE k.name = "restart"
    <3> DEFINE c == metrics[k] + Cardinality(mine)
    <3>1. c \in Nat /\ MaxCount \in Nat
      BY <2>4, StoredAssumption
    <3> HIDE DEF c
    <3>2. \E x \in {c, MaxCount} : \A y \in {c, MaxCount} : x <= y
      BY <3>1
    <3>3. Min({c, MaxCount}) \in {c, MaxCount}
      BY <3>2 DEF Min
    <3>4. Point(k, batch) = Min({c, MaxCount})
      BY <1>4, <2>5 DEF Point, c
    <3> QED
      BY <2>5, <3>1, <3>3, <3>4
  <2>6. CASE k.name # "restart"
    <3>1. Point(k, batch) = batch[Max(mine)].serial
      BY <1>4, <2>6 DEF Point
    <3>2. Max(mine) \in DOMAIN batch /\ MetricKey(batch[Max(mine)]) = k
      BY <2>2
    <3> QED
      BY <1>2, <2>2, <3>1, <3>2
  <2> QED
    BY <2>5, <2>6
<1> QED
  BY <1>3, <1>4

\* The events and samples that are recorded.
LEMMA EntriesTyped ==
  ASSUME TypeOK, NEW p \in Profile, NEW at \in 1..MaxClock
  PROVE  /\ recorded < MaxRecorded => [serial |-> recorded + 1, profile |-> p, at |-> at] \in Event
         /\ \A name \in {"restart", "running"} : sampled < MaxSampled =>
              [serial |-> sampled + 1, name |-> name, profile |-> p, at |-> at] \in Sample
BY FleetAssumption DEF TypeOK, Event, Sample

\* The call that the controller accepts.
Accepting ==
  LET log == Bounded(events \o reporter.batch)
      points == [k \in Key |-> Point(k, reporter.samples)]
  IN  /\ reporter.phase = "sending"
      /\ Insertable(log)
      /\ events' = log
      /\ table' = ToSet(log)
      /\ \E gone \in SUBSET Key :
           /\ Evictable(points, gone)
           /\ metrics' = [k \in Key |-> IF k \in gone THEN 0 ELSE points[k]]
      /\ counted' = counted \cup Restarts(reporter.samples)
      /\ bare' = IF reporter.batch = << >> THEN bare \cup Restarts(reporter.samples) ELSE bare
      /\ reporter' = [reporter EXCEPT !.phase = "accepted"]
      /\ UNCHANGED <<fleetVars, cut>>

\* The call that it refuses.
Refusing ==
  /\ reporter.phase = "sending"
  /\ reporter' = [reporter EXCEPT !.phase = "refused"]
  /\ UNCHANGED <<fleetVars, storeVars, cut>>

\* A call is accepted or refused.
LEMMA ReportCases ==
  ASSUME ReportTelemetry
  PROVE  Accepting \/ Refusing
BY DEF ReportTelemetry, Accepting, Refusing

\* The reporter moves on with the same batch.
LEMMA SameBatch ==
  ASSUME TypeOK, NEW f \in {"accepted", "refused"}, reporter' = [reporter EXCEPT !.phase = f]
  PROVE  /\ reporter' \in Reporter /\ reporter'.phase = f
         /\ reporter'.batch = reporter.batch /\ reporter'.samples = reporter.samples
BY DEF TypeOK, Reporter

\* The controller comes back with the log that it had, in another order.
LEMMA ReloadFacts ==
  ASSUME TypeOK, StoredOnce, RestartController,
         \A d, e \in table : d.serial = e.serial => d = e
  PROVE  /\ events' \in Seq(Event) /\ Len(events') = Len(events)
         /\ StoredOnce'
<1>1. PICK rows \in [1..Cardinality(table) -> table] :
        ToSet(rows) = table /\ InOrderOfIds(rows) /\ events' = rows
  BY DEF RestartController
<1>2. \A i, j \in DOMAIN events : events[i] = events[j] => i = j
  BY DEF StoredOnce
<1>3. Cardinality(table) = Len(events) /\ Len(events) \in Nat
  BY <1>2, CountDistinct, Typed DEF StoredOnce
<1>4. rows \in Seq(Event) /\ Len(rows) = Len(events)
  <2>1. rows \in [1..Len(events) -> Event]
    BY <1>3, Typed
  <2> QED
    BY <1>3, <2>1
<1>5. \A i, j \in DOMAIN rows : i < j => rows[i].serial # rows[j].serial
  <2> SUFFICES ASSUME NEW i \in DOMAIN rows, NEW j \in DOMAIN rows, i < j,
                      rows[i].serial = rows[j].serial
               PROVE  FALSE
    OBVIOUS
  <2>1. rows[i] = rows[j] /\ rows[i] \in Event
    BY Typed
  <2>2. \A e \in Event : e.profile \in Nat /\ e.at \in Int
    <3> SUFFICES ASSUME NEW e \in Event PROVE e.profile \in Nat /\ e.at \in Int
      OBVIOUS
    <3>1. e.profile \in Profile /\ e.at \in 1..MaxClock
      BY DEF Event
    <3>2. e.profile \in Nat
      BY <3>1, FleetAssumption, Zenon
    <3>3. e.at \in Int
      BY <3>1
    <3> QED
      BY <3>2, <3>3
  <2>3. PICK e \in Event : e = rows[i] /\ e = rows[j]
    BY <2>1
  <2>4. e.profile < e.profile \/ e.at < e.at
    BY <1>1, <2>3 DEF InOrderOfIds
  <2> QED
    BY <2>2, <2>4
<1>6. \A i, j \in DOMAIN rows : rows[i].serial = rows[j].serial => i = j
  <2>1. \A i, j \in DOMAIN rows : i < j \/ j < i \/ i = j
    BY <1>3
  <2> QED
    BY <1>5, <2>1
<1> QED
  BY <1>1, <1>4, <1>6 DEF StoredOnce, RestartController

-----------------------------------------------------------------------------
(* The invariant. *)

Numbered(s, n) == Increasing(s) /\ UpTo(s, n)

\* What the agent holds, in the order of recording.
Line == reporter.batch \o pending
SampleLine == reporter.samples \o samples

\* What the next attempt to report carries at its head: the batch under way or else
\* the buffer.
HeadSamples == IF reporter.phase = "idle" THEN samples ELSE reporter.samples
HeadEvents == IF reporter.phase = "idle" THEN pending ELSE reporter.batch

\* The event is stored, or may have been evicted from a log that is full for good.
Safe(e) == e \in table \/ Len(events) = MaxStored

EventsOK ==
  /\ Numbered(Line, recorded)
  /\ \A e \in table : e.serial <= recorded
  /\ \A d, e \in ToSet(Line) \cup table : d.serial = e.serial => d = e
  /\ StoredOnce
  /\ reporter.phase = "accepted" => \A e \in ToSet(reporter.batch) : Safe(e)

\* If a sample was counted together with events, the event that it is sent again
\* behind tells the retry.
Told(ss, es) ==
  (\E i \in DOMAIN ss : ss[i].serial \in counted \ bare) => es # << >> /\ Safe(es[1])

SamplesOK ==
  /\ Numbered(SampleLine, sampled)
  /\ counted \subseteq 1..sampled
  /\ reporter.phase # "idle" => \A i \in DOMAIN samples : samples[i].serial \notin counted
  /\ Told(HeadSamples, HeadEvents)

\* The samples are newer than the point, or the one that it shows is among them.
Shown(k, ss) ==
  \/ \A i \in DOMAIN ss : metrics[k] < ss[i].serial
  \/ \E i \in DOMAIN ss : ss[i].serial = metrics[k] /\ MetricKey(ss[i]) = k

GaugesOK ==
  \A k \in Key : k.name = "running" =>
    /\ metrics[k] <= sampled
    /\ reporter.phase # "idle" => \A i \in DOMAIN samples : metrics[k] < samples[i].serial
    /\ ~cut => Shown(k, HeadSamples)

\* The inductive invariant.
IInv ==
  /\ TypeOK
  /\ reporter.phase = "idle" => reporter = Waiting
  /\ EventsOK
  /\ SamplesOK
  /\ GaugesOK

\* The parts of a line are in order, and the first part is before the second.
LEMMA PartsNumbered ==
  ASSUME NEW S, NEW s \in Seq(S), NEW t \in Seq(S), NEW n \in Nat, Numbered(s \o t, n)
  PROVE  /\ Numbered(s, n) /\ Numbered(t, n)
         /\ \A i \in DOMAIN s, j \in DOMAIN t : s[i].serial < t[j].serial
<1> DEFINE all == s \o t
<1>1. /\ Len(s) \in Nat /\ DOMAIN s = 1..Len(s) /\ DOMAIN t = 1..Len(t)
      /\ \A i \in DOMAIN s : i \in DOMAIN all /\ all[i] = s[i]
      /\ \A i \in DOMAIN t : Len(s) + i \in DOMAIN all /\ all[Len(s) + i] = t[i]
  BY ConcatFacts
<1>2. Increasing(all) /\ UpTo(all, n)
  BY DEF Numbered
<1> HIDE DEF all
<1>3. Numbered(s, n)
  BY <1>1, <1>2 DEF Numbered, Increasing, UpTo
<1>4. \A i, j \in DOMAIN t : i < j => Len(s) + i < Len(s) + j
  BY <1>1
<1>5. Numbered(t, n)
  BY <1>1, <1>2, <1>4 DEF Numbered, Increasing, UpTo
<1>6. \A i \in DOMAIN s, j \in DOMAIN t : i < Len(s) + j
  BY <1>1
<1>7. \A i \in DOMAIN s, j \in DOMAIN t : s[i].serial < t[j].serial
  BY <1>1, <1>2, <1>6 DEF Increasing
<1> QED
  BY <1>3, <1>5, <1>7

\* What is put back is in order.
LEMMA RequeuedNumbered ==
  ASSUME NEW S, NEW s \in Seq(S), NEW t \in Seq(S), NEW n \in Nat, Numbered(s \o t, n)
  PROVE  Numbered(Requeued(s, t), n)
<1>1. /\ DOMAIN Requeued(s, t) \subseteq DOMAIN (s \o t)
      /\ \A i \in DOMAIN Requeued(s, t) : Requeued(s, t)[i] = (s \o t)[i]
  BY RequeuedFacts
<1> QED
  BY <1>1 DEF Numbered, Increasing, UpTo

\* Nothing in front.
LEMMA NoneInFront ==
  ASSUME NEW S, NEW s \in Seq(S)
  PROVE  << >> \o s = s /\ s \o << >> = s
BY ConcatEmptySeq

\* What holds of the lines holds of what is in front.
LEMMA HeadNumbered ==
  ASSUME IInv
  PROVE  /\ HeadSamples \in Seq(Sample) /\ HeadEvents \in Seq(Event)
         /\ Numbered(HeadSamples, sampled) /\ Numbered(samples, sampled)
         /\ Numbered(reporter.samples, sampled) /\ Numbered(pending, recorded)
BY PartsNumbered, Typed DEF IInv, EventsOK, SamplesOK, Line, SampleLine, HeadSamples, HeadEvents

\* The empty state.
LEMMA InitIInv == Init => IInv
<1> SUFFICES ASSUME Init PROVE IInv
  OBVIOUS
<1>1. /\ pending = << >> /\ samples = << >> /\ events = << >> /\ table = {}
      /\ reporter = Waiting /\ recorded = 0 /\ sampled = 0 /\ counted = {} /\ bare = {}
      /\ metrics = [k \in Key |-> 0] /\ cut = FALSE /\ now = 1 /\ pass = Idle
      /\ browsers = [p \in Profile |-> "Desired"]
  BY DEF Init, FleetInit
<1>2. TypeOK
  <2>1. Waiting \in Reporter
    BY DEF Waiting, Reporter
  <2>2. /\ browsers \in [Profile -> RuntimeStatus] /\ pass \in Pass
        /\ recorded \in 0..MaxRecorded /\ sampled \in 0..MaxSampled /\ now \in 1..MaxClock
    BY <1>1, FleetAssumption DEF RuntimeStatus, Pass
  <2>3. /\ pending \in Seq(Event) /\ samples \in Seq(Sample) /\ events \in Seq(Event)
        /\ table \subseteq Event /\ metrics \in [Key -> Nat]
        /\ bare \subseteq counted /\ counted \subseteq 1..MaxSampled
    BY <1>1
  <2>4. cut \in BOOLEAN
    BY <1>1
  <2> QED
    BY <1>1, <2>1, <2>2, <2>3, <2>4 DEF TypeOK
<1>3. Line = << >> /\ SampleLine = << >>
  BY <1>1 DEF Line, SampleLine, Waiting
<1>4. EventsOK
  BY <1>1, <1>3 DEF EventsOK, Numbered, Increasing, UpTo, StoredOnce, ToSet, Waiting
<1>5. SamplesOK
  BY <1>1, <1>3 DEF SamplesOK, Numbered, Increasing, UpTo, Told, HeadSamples, HeadEvents, Waiting
<1>6. GaugesOK
  BY <1>1 DEF GaugesOK, Shown, HeadSamples, Waiting
<1> QED
  BY <1>1, <1>2, <1>4, <1>5, <1>6 DEF IInv

-----------------------------------------------------------------------------
(* The steps of the fleet manager. *)

\* Another event behind what is held.
LEMMA EventIInv ==
  ASSUME IInv, LoopTypeOK', NEW p \in Profile, NEW at \in 1..MaxClock, RecordEvent(p, at),
         UNCHANGED <<reporter, storeVars, cut>>
  PROVE  IInv'
<1> DEFINE e == [serial |-> recorded + 1, profile |-> p, at |-> at]
<1>1. /\ recorded < MaxRecorded /\ recorded' = recorded + 1 /\ pending' = Append(pending, e)
      /\ UNCHANGED <<samples, sampled, reporter, events, table, metrics, counted, bare, cut>>
  BY DEF RecordEvent, storeVars
<1>2. e \in Event /\ e.serial = recorded + 1
  BY <1>1, EntriesTyped DEF IInv
<1> HIDE DEF e
<1>3. /\ TypeOK /\ reporter.batch \in Seq(Event) /\ pending \in Seq(Event) /\ recorded \in Nat
      /\ recorded \in 0..MaxRecorded /\ Line \in Seq(Event)
  BY Typed, ConcatFacts DEF IInv, TypeOK, Line
<1>4. pending' \in Seq(Event) /\ recorded' \in 0..MaxRecorded
  BY <1>1, <1>2, <1>3, FleetAssumption
<1>5. TypeOK'
  BY <1>1, <1>3, <1>4 DEF TypeOK, LoopTypeOK
<1>6. Line' = Append(Line, e)
  <2>1. reporter.batch \o Append(pending, e) = Append(reporter.batch \o pending, e)
    <3>1. \A s, t \in Seq(Event), x \in Event : s \o Append(t, x) = Append(s \o t, x)
      BY AppendBehind
    <3>2. reporter.batch \in Seq(Event) /\ pending \in Seq(Event) /\ e \in Event
      BY <1>2, <1>3
    <3> QED
      BY <3>1, <3>2, Zenon
  <2>2. Line' = reporter.batch \o Append(pending, e)
    BY <1>1 DEF Line
  <2> QED
    BY <2>1, <2>2 DEF Line
<1>7. \A x \in Event : x.serial \in Nat
  BY DEF Event
<1>8. EventsOK'
  <2>1. /\ Numbered(Line, recorded) /\ \A x \in table : x.serial <= recorded
        /\ \A c, d \in ToSet(Line) \cup table : c.serial = d.serial => c = d
        /\ StoredOnce
        /\ reporter.phase = "accepted" => \A x \in ToSet(reporter.batch) : Safe(x)
    BY DEF IInv, EventsOK
  <2>2. Numbered(Line', recorded') /\ ToSet(Line') = ToSet(Line) \cup {e}
    BY <1>1, <1>2, <1>3, <1>6, <1>7, <2>1, AppendIncreasing DEF Numbered
  <2>3. \A x \in ToSet(Line) \cup table : x.serial <= recorded /\ x.serial \in Nat
    BY <1>3, <1>7, <2>1, Typed DEF Numbered, UpTo, ToSet
  <2>4. \A x \in ToSet(Line) \cup table : x.serial # e.serial
    BY <1>2, <1>3, <2>3
  <2>5. \A c, d \in ToSet(Line') \cup table : c.serial = d.serial => c = d
    BY <2>1, <2>2, <2>4
  <2>6. \A x \in table : x.serial <= recorded'
    BY <1>1, <1>3, <2>3
  <2> QED
    BY <1>1, <2>1, <2>2, <2>5, <2>6 DEF EventsOK, StoredOnce, Safe
<1>9. SamplesOK'
  <2>1. pending # << >> => pending' # << >> /\ pending'[1] = pending[1]
    BY <1>1, <1>2, <1>3
  <2>2. HeadSamples' = HeadSamples /\ SampleLine' = SampleLine
    BY <1>1 DEF HeadSamples, SampleLine
  <2>3. HeadEvents # << >> => HeadEvents' # << >> /\ HeadEvents'[1] = HeadEvents[1]
    BY <1>1, <2>1 DEF HeadEvents
  <2> QED
    BY <1>1, <2>2, <2>3 DEF IInv, SamplesOK, Told, Safe
<1>10. GaugesOK'
  BY <1>1 DEF IInv, GaugesOK, Shown, HeadSamples
<1> QED
  BY <1>1, <1>5, <1>8, <1>9, <1>10 DEF IInv

\* Another sample behind what is held.
LEMMA SampleIInv ==
  ASSUME IInv, LoopTypeOK', NEW name \in {"restart", "running"}, NEW p \in Profile,
         NEW at \in 1..MaxClock, PushSample(name, p, at),
         UNCHANGED <<reporter, storeVars, cut>>
  PROVE  IInv'
<1> DEFINE e == [serial |-> sampled + 1, name |-> name, profile |-> p, at |-> at]
<1>1. /\ sampled < MaxSampled /\ sampled' = sampled + 1 /\ samples' = Append(samples, e)
      /\ UNCHANGED <<pending, recorded, reporter, events, table, metrics, counted, bare, cut>>
  BY DEF PushSample, storeVars
<1>2. e \in Sample /\ e.serial = sampled + 1
  BY <1>1, EntriesTyped DEF IInv
<1> HIDE DEF e
<1>3. /\ TypeOK /\ reporter.samples \in Seq(Sample) /\ samples \in Seq(Sample)
      /\ sampled \in Nat /\ sampled \in 0..MaxSampled /\ SampleLine \in Seq(Sample)
      /\ metrics \in [Key -> Nat]
  BY Typed, ConcatFacts DEF IInv, TypeOK, SampleLine
<1>4. samples' \in Seq(Sample) /\ sampled' \in 0..MaxSampled
  BY <1>1, <1>2, <1>3, FleetAssumption
<1>5. TypeOK'
  BY <1>1, <1>3, <1>4 DEF TypeOK, LoopTypeOK
<1>6. SampleLine' = Append(SampleLine, e)
  <2>1. reporter.samples \o Append(samples, e) = Append(reporter.samples \o samples, e)
    <3>1. \A s, t \in Seq(Sample), x \in Sample : s \o Append(t, x) = Append(s \o t, x)
      BY AppendBehind
    <3>2. reporter.samples \in Seq(Sample) /\ samples \in Seq(Sample) /\ e \in Sample
      BY <1>2, <1>3
    <3> QED
      BY <3>1, <3>2, Zenon
  <2>2. SampleLine' = reporter.samples \o Append(samples, e)
    BY <1>1 DEF SampleLine
  <2> QED
    BY <2>1, <2>2 DEF SampleLine
<1>7. \A x \in Sample : x.serial \in Nat
  BY DEF Sample
<1>8. EventsOK'
  BY <1>1 DEF IInv, EventsOK, Line, StoredOnce, Safe
<1>9. /\ \A i \in DOMAIN samples' : (i \in DOMAIN samples /\ samples'[i] = samples[i])
                                    \/ samples'[i] = e
      /\ \A i \in DOMAIN samples : i \in DOMAIN samples' /\ samples'[i] = samples[i]
  BY <1>1, <1>2, <1>3
<1>10. /\ \A i \in DOMAIN HeadSamples' :
            \/ i \in DOMAIN HeadSamples /\ HeadSamples'[i] = HeadSamples[i]
            \/ HeadSamples'[i] = e
       /\ \A i \in DOMAIN HeadSamples :
            i \in DOMAIN HeadSamples' /\ HeadSamples'[i] = HeadSamples[i]
  BY <1>1, <1>9 DEF HeadSamples
<1>11. SamplesOK'
  <2>1. /\ Numbered(SampleLine, sampled) /\ counted \subseteq 1..sampled
        /\ reporter.phase # "idle" => \A i \in DOMAIN samples : samples[i].serial \notin counted
        /\ Told(HeadSamples, HeadEvents)
    BY DEF IInv, SamplesOK
  <2>2. Numbered(SampleLine', sampled')
    BY <1>1, <1>2, <1>3, <1>6, <1>7, <2>1, AppendIncreasing DEF Numbered
  <2>3. e.serial \notin counted /\ counted \subseteq 1..sampled'
    BY <1>1, <1>2, <1>3, <2>1
  <2>4. reporter.phase # "idle" => \A i \in DOMAIN samples' : samples'[i].serial \notin counted
    BY <1>9, <2>1, <2>3
  <2>5. Told(HeadSamples', HeadEvents)
    BY <1>10, <2>1, <2>3 DEF Told
  <2>6. HeadEvents' = HeadEvents
    BY <1>1 DEF HeadEvents
  <2> QED
    BY <1>1, <2>2, <2>3, <2>4, <2>5, <2>6 DEF SamplesOK, Told, Safe
<1>12. GaugesOK'
  <2> SUFFICES ASSUME NEW k \in Key, k.name = "running"
               PROVE  /\ metrics[k] <= sampled'
                      /\ reporter.phase # "idle" =>
                           \A i \in DOMAIN samples' : metrics[k] < samples'[i].serial
                      /\ ~cut => Shown(k, HeadSamples')
    BY <1>1 DEF GaugesOK, Shown
  <2>1. /\ metrics[k] <= sampled
        /\ reporter.phase # "idle" => \A i \in DOMAIN samples : metrics[k] < samples[i].serial
        /\ ~cut => Shown(k, HeadSamples)
    BY DEF IInv, GaugesOK
  <2>2. metrics[k] <= sampled' /\ metrics[k] < e.serial
    BY <1>1, <1>2, <1>3, <2>1
  <2>3. Shown(k, HeadSamples) => Shown(k, HeadSamples')
    <3>1. ASSUME \A i \in DOMAIN HeadSamples : metrics[k] < HeadSamples[i].serial
          PROVE  \A i \in DOMAIN HeadSamples' : metrics[k] < HeadSamples'[i].serial
      BY <1>10, <2>2, <3>1
    <3>2. ASSUME NEW i \in DOMAIN HeadSamples,
                 HeadSamples[i].serial = metrics[k] /\ MetricKey(HeadSamples[i]) = k
          PROVE  /\ i \in DOMAIN HeadSamples' /\ HeadSamples'[i].serial = metrics[k]
                 /\ MetricKey(HeadSamples'[i]) = k
      BY <1>10, <3>2
    <3> QED
      BY <3>1, <3>2 DEF Shown
  <2> QED
    BY <1>9, <2>1, <2>2, <2>3
<1> QED
  BY <1>1, <1>5, <1>8, <1>11, <1>12 DEF IInv

\* A step that leaves the buffer alone.
LEMMA LoopIInv ==
  ASSUME IInv, LoopTypeOK', UNCHANGED <<bufferVars, reporter, storeVars, cut>>
  PROVE  IInv'
<1>1. UNCHANGED <<pending, recorded, samples, sampled, reporter, events, table, metrics, counted,
                  bare, cut>>
  BY DEF bufferVars, storeVars
<1>2. TypeOK'
  BY <1>1 DEF IInv, TypeOK, LoopTypeOK
<1>3. EventsOK'
  BY <1>1 DEF IInv, EventsOK, Line, StoredOnce, Safe
<1>4. SamplesOK'
  BY <1>1 DEF IInv, SamplesOK, SampleLine, Told, Safe, HeadSamples, HeadEvents
<1>5. GaugesOK'
  BY <1>1 DEF IInv, GaugesOK, Shown, HeadSamples
<1> QED
  BY <1>1, <1>2, <1>3, <1>4, <1>5 DEF IInv

\* Every step of the fleet manager.
LEMMA RecordIInv ==
  ASSUME IInv, Record
  PROVE  IInv'
<1>1. LoopTypeOK /\ UNCHANGED <<reporter, storeVars, cut>> /\ FleetStep
  BY Typed DEF IInv, Record
<1> QED
  BY <1>1, FleetSteps, EventIInv, SampleIInv, LoopIInv

-----------------------------------------------------------------------------
(* The steps of the reporter and of the controller. *)

\* The buffer becomes the batch.
LEMMA DrainIInv ==
  ASSUME IInv, DrainTelemetry
  PROVE  IInv'
<1>1. /\ reporter.phase = "idle" /\ reporter = Waiting
      /\ reporter' = [phase |-> "sending", batch |-> pending, samples |-> samples]
      /\ pending' = << >> /\ samples' = << >>
      /\ UNCHANGED <<browsers, pass, recorded, sampled, now, events, table, metrics, counted,
                     bare, cut>>
  BY DEF DrainTelemetry, IInv, storeVars
<1>2. pending \in Seq(Event) /\ samples \in Seq(Sample) /\ TypeOK
  BY Typed DEF IInv
<1>3. TypeOK'
  <2>1. reporter' \in Reporter
    BY <1>1, <1>2 DEF Reporter
  <2> QED
    BY <1>1, <1>2, <2>1 DEF TypeOK
<1>4. Line' = pending /\ Line = pending /\ SampleLine' = samples /\ SampleLine = samples
  BY <1>1, <1>2, NoneInFront DEF Line, SampleLine, Waiting
<1>5. HeadSamples' = HeadSamples /\ HeadEvents' = HeadEvents
  BY <1>1 DEF HeadSamples, HeadEvents
<1>6. EventsOK'
  BY <1>1, <1>4 DEF IInv, EventsOK, StoredOnce
<1>7. SamplesOK'
  BY <1>1, <1>4, <1>5 DEF IInv, SamplesOK, Told, Safe
<1>8. GaugesOK'
  BY <1>1, <1>5 DEF IInv, GaugesOK, Shown
<1> QED
  BY <1>1, <1>3, <1>6, <1>7, <1>8 DEF IInv

\* The log after an accepted call: what was safe stays so, and what was sent is.
LEMMA AcceptFacts ==
  ASSUME IInv, Accepting
  PROVE  /\ events' \in Seq(Event) /\ table' \subseteq table \cup ToSet(reporter.batch)
         /\ \A e \in table \cup ToSet(reporter.batch) : Safe(e)'
         /\ Len(events) = MaxStored => Len(events') = MaxStored
         /\ StoredOnce'
<1> DEFINE all == events \o reporter.batch
<1>1. /\ events \in Seq(Event) /\ reporter.batch \in Seq(Event) /\ ToSet(events) = table
      /\ \A d, e \in ToSet(Line) \cup table : d.serial = e.serial => d = e
  BY Typed DEF IInv, EventsOK, StoredOnce
<1>2. /\ all \in Seq(Event) /\ Len(all) = Len(events) + Len(reporter.batch)
      /\ Len(events) \in Nat /\ Len(reporter.batch) \in Nat
      /\ ToSet(all) = table \cup ToSet(reporter.batch)
  BY <1>1, ConcatFacts
<1>3. events' = Bounded(all) /\ table' = ToSet(events') /\ Insertable(events')
  BY DEF Accepting
<1> HIDE DEF all
<1>4. /\ events' \in Seq(Event)
      /\ Len(all) <= MaxStored => events' = all
      /\ Len(all) > MaxStored => Len(events') = MaxStored
      /\ ToSet(events') \subseteq ToSet(all)
  BY <1>2, <1>3, BoundedFacts
<1>5. \A e \in table \cup ToSet(reporter.batch) : Safe(e)'
  BY <1>2, <1>3, <1>4, StoredAssumption DEF Safe
<1>6. Len(events) = MaxStored => Len(events') = MaxStored
  <2>1. CASE Len(all) > MaxStored
    BY <1>4, <2>1
  <2>2. CASE Len(all) <= MaxStored
    BY <1>2, <1>4, <2>2, StoredAssumption
  <2> QED
    BY <1>2, <2>1, <2>2, StoredAssumption
<1>7. ToSet(reporter.batch) \subseteq ToSet(Line)
  BY <1>1, ConcatFacts, Typed DEF Line, IInv
<1>8. \A i \in DOMAIN events' : events'[i] \in ToSet(Line) \cup table
  BY <1>2, <1>4, <1>7 DEF ToSet
<1>9. StoredOnce'
  BY <1>1, <1>3, <1>8 DEF StoredOnce, Insertable
<1> QED
  BY <1>2, <1>3, <1>4, <1>5, <1>6, <1>9

\* The points after an accepted call.
LEMMA AcceptedPoints ==
  ASSUME IInv, Accepting
  PROVE  /\ metrics' \in [Key -> Nat]
         /\ \A k \in Key : metrics'[k] = 0 \/ metrics'[k] = Point(k, reporter.samples)
<1>1. PICK gone \in SUBSET Key :
        metrics' = [k \in Key |->
                      IF k \in gone THEN 0
                      ELSE [l \in Key |-> Point(l, reporter.samples)][k]]
  BY DEF Accepting
<1>2. \A k \in Key : Point(k, reporter.samples) \in Nat
  BY PointFacts, Typed DEF IInv
<1> QED
  BY <1>1, <1>2

\* The controller takes the batch.
LEMMA AcceptIInv ==
  ASSUME IInv, Accepting
  PROVE  IInv'
<1>1. /\ reporter.phase = "sending"
      /\ reporter' = [reporter EXCEPT !.phase = "accepted"]
      /\ counted' = counted \cup Restarts(reporter.samples)
      /\ bare' = IF reporter.batch = << >> THEN bare \cup Restarts(reporter.samples) ELSE bare
      /\ table' = ToSet(events')
      /\ UNCHANGED <<browsers, pass, pending, recorded, samples, sampled, now, cut>>
  BY DEF Accepting, fleetVars, bufferVars
<1>2. /\ reporter' \in Reporter /\ reporter'.phase = "accepted"
      /\ reporter'.batch = reporter.batch /\ reporter'.samples = reporter.samples
  BY <1>1, SameBatch DEF IInv
<1>3. /\ TypeOK /\ reporter.samples \in Seq(Sample) /\ samples \in Seq(Sample)
      /\ bare \subseteq counted /\ counted \subseteq 1..MaxSampled
      /\ sampled \in Nat /\ sampled <= MaxSampled /\ metrics \in [Key -> Nat]
  BY Typed, FleetAssumption DEF IInv, TypeOK
<1>4. /\ Numbered(reporter.samples, sampled)
      /\ \A i \in DOMAIN reporter.samples, j \in DOMAIN samples :
           reporter.samples[i].serial < samples[j].serial
  BY <1>3, PartsNumbered DEF IInv, SamplesOK, SampleLine
<1>5. \A i \in DOMAIN reporter.samples :
        reporter.samples[i].serial \in Nat \ {0} /\ reporter.samples[i].serial <= sampled
  <2>1. \A x \in Sample : x.serial \in Nat \ {0}
    BY DEF Sample
  <2> QED
    BY <1>3, <1>4, <2>1 DEF Numbered, UpTo
<1>6. \A n \in Restarts(reporter.samples) :
        n \in 1..sampled /\ \A j \in DOMAIN samples : n < samples[j].serial
  BY <1>3, <1>4, <1>5 DEF Restarts
<1>7. TypeOK'
  <2>1. Restarts(reporter.samples) \subseteq 1..MaxSampled
    BY <1>3, <1>6, FleetAssumption
  <2>2. bare' \subseteq counted' /\ counted' \subseteq 1..MaxSampled
    BY <1>1, <1>3, <2>1
  <2>3. events' \in Seq(Event) /\ metrics' \in [Key -> Nat]
    BY AcceptFacts, AcceptedPoints
  <2>4. table' \subseteq Event
    BY <1>1, <2>3 DEF ToSet
  <2> QED
    BY <1>1, <1>2, <1>3, <2>2, <2>3, <2>4 DEF TypeOK
<1>8. Line' = Line /\ SampleLine' = SampleLine
  BY <1>1, <1>2 DEF Line, SampleLine
<1>9. HeadSamples' = reporter.samples /\ HeadSamples = reporter.samples
      /\ HeadEvents' = reporter.batch /\ HeadEvents = reporter.batch
  BY <1>1, <1>2 DEF HeadSamples, HeadEvents
<1>10. ToSet(reporter.batch) \subseteq ToSet(Line)
  BY ConcatFacts, Typed DEF Line, IInv
<1>11. EventsOK'
  <2>1. /\ Numbered(Line, recorded)
        /\ \A e \in table : e.serial <= recorded
        /\ \A d, e \in ToSet(Line) \cup table : d.serial = e.serial => d = e
    BY DEF IInv, EventsOK
  <2>2. table' \subseteq ToSet(Line) \cup table
    BY <1>10, AcceptFacts
  <2>3. \A e \in ToSet(Line) \cup table : e.serial <= recorded
    BY <2>1 DEF Numbered, UpTo, ToSet
  <2>4. StoredOnce' /\ \A e \in ToSet(reporter.batch) : Safe(e)'
    BY AcceptFacts
  <2>5. \A e \in ToSet(reporter'.batch) : Safe(e)'
    BY <1>2, <2>4
  <2> QED
    BY <1>1, <1>8, <2>1, <2>2, <2>3, <2>4, <2>5 DEF EventsOK
<1>12. SamplesOK'
  <2>1. /\ Numbered(SampleLine, sampled) /\ counted \subseteq 1..sampled
        /\ \A i \in DOMAIN samples : samples[i].serial \notin counted
        /\ Told(reporter.samples, reporter.batch)
    BY <1>1, <1>9 DEF IInv, SamplesOK
  <2>2. counted' \subseteq 1..sampled
    BY <1>1, <1>6, <2>1
  <2>3. \A i \in DOMAIN samples : samples[i].serial \notin counted'
    <3> SUFFICES ASSUME NEW i \in DOMAIN samples,
                        samples[i].serial \in Restarts(reporter.samples)
                 PROVE  FALSE
      BY <1>1, <2>1
    <3>1. samples[i].serial < samples[i].serial /\ samples[i].serial \in Int
      BY <1>6
    <3> QED
      BY <3>1
  <2>4. Told(reporter.samples, reporter.batch)'
    <3>1. CASE reporter.batch = << >>
      <4>1. \A i \in DOMAIN reporter.samples : reporter.samples[i].serial \notin counted \ bare
        BY <2>1, <3>1 DEF Told
      <4>2. counted' \ bare' \subseteq counted \ bare
        BY <1>1, <3>1
      <4> QED
        BY <1>2, <4>1, <4>2 DEF Told
    <3>2. CASE reporter.batch # << >>
      <4>1. reporter.batch[1] \in ToSet(reporter.batch)
        BY <3>2, Typed DEF IInv, ToSet
      <4>2. Safe(reporter.batch[1])'
        BY <1>2, <4>1, AcceptFacts DEF Safe
      <4> QED
        BY <1>2, <3>2, <4>2 DEF Told
    <3> QED
      BY <3>1, <3>2
  <2>5. Told(HeadSamples, HeadEvents)'
    BY <1>2, <1>9, <2>4 DEF Told, Safe
  <2> QED
    BY <1>1, <1>8, <2>1, <2>2, <2>3, <2>5 DEF SamplesOK
<1>13. GaugesOK'
  <2> SUFFICES ASSUME NEW k \in Key, k.name = "running"
               PROVE  /\ metrics'[k] <= sampled
                      /\ \A i \in DOMAIN samples : metrics'[k] < samples[i].serial
                      /\ ~cut => Shown(k, HeadSamples)'
    BY <1>1 DEF GaugesOK
  <2>1. /\ metrics[k] <= sampled
        /\ \A i \in DOMAIN samples : metrics[k] < samples[i].serial
        /\ ~cut => Shown(k, reporter.samples)
    BY <1>1, <1>9 DEF IInv, GaugesOK
  <2>2. metrics'[k] = 0 \/ metrics'[k] = Point(k, reporter.samples)
    BY AcceptedPoints
  <2>3. CASE metrics'[k] = 0
    <3>1. \A x \in Sample : x.serial \in Nat \ {0}
      BY DEF Sample
    <3>2. \A i \in DOMAIN samples : 0 < samples[i].serial
      BY <1>3, <3>1
    <3>3. Shown(k, HeadSamples)'
      BY <1>5, <1>9, <2>3 DEF Shown
    <3> QED
      BY <1>3, <2>3, <3>2, <3>3
  <2>4. CASE metrics'[k] = metrics[k]
    <3>1. Shown(k, reporter.samples) => Shown(k, HeadSamples)'
      BY <1>9, <2>4 DEF Shown
    <3> QED
      BY <2>1, <2>4, <3>1
  <2>5. CASE \E m \in DOMAIN reporter.samples :
               /\ MetricKey(reporter.samples[m]) = k
               /\ metrics'[k] = reporter.samples[m].serial
    <3>1. Shown(k, HeadSamples)'
      BY <1>9, <2>5 DEF Shown
    <3> QED
      BY <1>4, <1>5, <2>5, <3>1
  <2>6. \/ Point(k, reporter.samples) = metrics[k]
        \/ \E m \in DOMAIN reporter.samples :
             /\ MetricKey(reporter.samples[m]) = k
             /\ Point(k, reporter.samples) = reporter.samples[m].serial
    BY <1>3, PointFacts
  <2> QED
    BY <2>2, <2>3, <2>4, <2>5, <2>6
<1> QED
  BY <1>2, <1>7, <1>11, <1>12, <1>13 DEF IInv

\* The controller refuses the batch.
LEMMA RefuseIInv ==
  ASSUME IInv, Refusing
  PROVE  IInv'
<1>1. /\ reporter.phase = "sending" /\ reporter' = [reporter EXCEPT !.phase = "refused"]
      /\ UNCHANGED <<browsers, pass, pending, recorded, samples, sampled, now, events, table,
                     metrics, counted, bare, cut>>
  BY DEF Refusing, fleetVars, bufferVars, storeVars
<1>2. /\ reporter' \in Reporter /\ reporter'.phase = "refused"
      /\ reporter'.batch = reporter.batch /\ reporter'.samples = reporter.samples
  BY <1>1, SameBatch DEF IInv
<1>3. TypeOK'
  BY <1>1, <1>2 DEF IInv, TypeOK
<1>4. /\ Line' = Line /\ SampleLine' = SampleLine
      /\ HeadSamples' = HeadSamples /\ HeadEvents' = HeadEvents
  BY <1>1, <1>2 DEF Line, SampleLine, HeadSamples, HeadEvents
<1>5. EventsOK' /\ SamplesOK' /\ GaugesOK'
  <2>1. EventsOK'
    BY <1>1, <1>2, <1>4 DEF IInv, EventsOK, StoredOnce
  <2>2. SamplesOK'
    BY <1>1, <1>2, <1>4 DEF IInv, SamplesOK, Told, Safe
  <2>3. GaugesOK'
    BY <1>1, <1>2, <1>4 DEF IInv, GaugesOK, Shown
  <2> QED
    BY <2>1, <2>2, <2>3
<1> QED
  BY <1>2, <1>3, <1>5 DEF IInv

\* The reporter is back to waiting, with some of what the agent held in the buffer:
\* what was counted before is in front of an event that tells it, and the gauges
\* are not older than their points.
LEMMA WaitingIInv ==
  ASSUME IInv, reporter' = Waiting,
         pending' \in Seq(Event), samples' \in Seq(Sample), cut' \in BOOLEAN,
         Numbered(pending', recorded), ToSet(pending') \subseteq ToSet(Line),
         Numbered(samples', sampled), Told(samples', pending'),
         \A k \in Key : k.name = "running" /\ ~cut' => Shown(k, samples'),
         LoopTypeOK', UNCHANGED <<recorded, sampled, storeVars>>
  PROVE  IInv'
<1>1. /\ UNCHANGED <<recorded, sampled, events, table, metrics, counted, bare>>
      /\ reporter'.phase = "idle" /\ reporter'.batch = << >> /\ reporter'.samples = << >>
  BY DEF storeVars, Waiting
<1>2. TypeOK'
  <2>1. reporter' \in Reporter
    BY DEF Waiting, Reporter
  <2> QED
    BY <1>1, <2>1 DEF IInv, TypeOK, LoopTypeOK
<1>3. Line' = pending' /\ SampleLine' = samples'
  BY <1>1, NoneInFront DEF Line, SampleLine
<1>4. HeadSamples' = samples' /\ HeadEvents' = pending'
  BY <1>1 DEF HeadSamples, HeadEvents
<1>5. EventsOK'
  BY <1>1, <1>3 DEF IInv, EventsOK, StoredOnce
<1>6. Told(HeadSamples', HeadEvents')
  BY <1>4
<1>7. SamplesOK'
  BY <1>1, <1>3, <1>6 DEF IInv, SamplesOK, Told, Safe
<1>8. \A k \in Key : k.name = "running" /\ ~cut' => Shown(k, HeadSamples')
  BY <1>4
<1>9. GaugesOK'
  BY <1>1, <1>8 DEF IInv, GaugesOK, Shown
<1> QED
  BY <1>2, <1>5, <1>7, <1>9 DEF IInv

\* The reporter is told that the batch has arrived.
LEMMA AcknowledgeIInv ==
  ASSUME IInv, Acknowledge
  PROVE  IInv'
<1>1. /\ reporter.phase = "accepted" /\ reporter' = Waiting
      /\ UNCHANGED <<browsers, pass, pending, recorded, samples, sampled, now, cut, storeVars>>
  BY DEF Acknowledge, fleetVars, bufferVars
<1>2. pending \in Seq(Event) /\ samples \in Seq(Sample) /\ cut \in BOOLEAN /\ LoopTypeOK
  BY Typed DEF IInv
<1>3. Numbered(pending, recorded) /\ Numbered(samples, sampled)
  BY HeadNumbered
<1>4. ToSet(pending) \subseteq ToSet(Line)
  BY ConcatFacts, Typed DEF Line, IInv
<1>5. Told(samples, pending)
  BY <1>1 DEF IInv, SamplesOK, Told
<1>6. \A k \in Key : k.name = "running" => Shown(k, samples)
  BY <1>1 DEF IInv, GaugesOK, Shown
<1>7. LoopTypeOK'
  BY <1>1, <1>2 DEF LoopTypeOK
<1>8. /\ pending' \in Seq(Event) /\ samples' \in Seq(Sample) /\ cut' \in BOOLEAN
      /\ Numbered(pending', recorded) /\ ToSet(pending') \subseteq ToSet(Line)
      /\ Numbered(samples', sampled) /\ Told(samples', pending')
      /\ \A k \in Key : k.name = "running" /\ ~cut' => Shown(k, samples')
  BY <1>1, <1>2, <1>3, <1>4, <1>5, <1>6
<1> QED
  BY <1>1, <1>7, <1>8, WaitingIInv

\* The batch goes back in front of the buffer.
LEMMA RequeueIInv ==
  ASSUME IInv, RequeueTelemetry
  PROVE  IInv'
<1> DEFINE q == Requeued(reporter.batch, pending)
           r == Requeued(reporter.samples, samples)
<1>1. /\ reporter.phase # "idle" /\ reporter' = Waiting /\ pending' = q /\ samples' = r
      /\ cut' = (cut \/ Len(SampleLine) > MaxPending)
      /\ UNCHANGED <<browsers, pass, recorded, sampled, now, storeVars>>
  BY DEF RequeueTelemetry, SampleLine
<1>2. /\ reporter.batch \in Seq(Event) /\ pending \in Seq(Event)
      /\ reporter.samples \in Seq(Sample) /\ samples \in Seq(Sample)
      /\ recorded \in Nat /\ sampled \in Nat /\ cut \in BOOLEAN /\ LoopTypeOK
      /\ Line \in Seq(Event) /\ SampleLine \in Seq(Sample)
  BY Typed, ConcatFacts DEF IInv, Line, SampleLine
<1>3. /\ q \in Seq(Event) /\ ToSet(q) \subseteq ToSet(Line)
      /\ DOMAIN q \subseteq DOMAIN Line /\ \A i \in DOMAIN q : q[i] = Line[i]
      /\ q # << >> => 1 \in DOMAIN q
      /\ q = << >> => Line = << >> \/ MaxPending = 0
  BY <1>2, RequeuedFacts DEF Line
<1>4. /\ r \in Seq(Sample) /\ DOMAIN r \subseteq DOMAIN SampleLine
      /\ \A i \in DOMAIN r : r[i] = SampleLine[i]
      /\ Len(SampleLine) <= MaxPending => r = SampleLine
      /\ r # << >> => MaxPending # 0
  BY <1>2, RequeuedFacts DEF SampleLine
<1>5. Numbered(q, recorded) /\ Numbered(r, sampled)
  BY <1>2, RequeuedNumbered DEF IInv, EventsOK, SamplesOK, Line, SampleLine
<1>6. /\ \A i \in DOMAIN SampleLine :
           \/ i \in DOMAIN reporter.samples /\ SampleLine[i] = reporter.samples[i]
           \/ \E j \in DOMAIN samples : SampleLine[i] = samples[j]
      /\ \A i \in DOMAIN reporter.samples :
           i \in DOMAIN SampleLine /\ SampleLine[i] = reporter.samples[i]
  <2> DEFINE n == Len(reporter.samples)
  <2>1. /\ \A i \in DOMAIN reporter.samples :
             i \in DOMAIN SampleLine /\ SampleLine[i] = reporter.samples[i]
        /\ \A j \in DOMAIN samples : SampleLine[n + j] = samples[j]
        /\ \A i \in DOMAIN SampleLine :
             i \in DOMAIN reporter.samples \/ i - n \in DOMAIN samples
        /\ n \in Nat /\ DOMAIN SampleLine \subseteq Nat
    BY <1>2, ConcatFacts DEF SampleLine
  <2>2. \A i \in DOMAIN SampleLine : n + (i - n) = i
    BY <2>1
  <2> QED
    BY <2>1, <2>2
<1>7. /\ \A i \in DOMAIN samples : samples[i].serial \notin counted
      /\ Told(reporter.samples, reporter.batch)
  BY <1>1 DEF IInv, SamplesOK, HeadSamples, HeadEvents
<1> HIDE DEF q, r
<1>8. Told(r, q)
  <2> SUFFICES ASSUME NEW i \in DOMAIN r, r[i].serial \in counted \ bare
               PROVE  q # << >> /\ Safe(q[1])
    BY DEF Told
  <2>1. i \in DOMAIN reporter.samples /\ reporter.samples[i].serial \in counted \ bare
    BY <1>4, <1>6, <1>7
  <2>2. reporter.batch # << >> /\ Safe(reporter.batch[1])
    BY <1>7, <2>1 DEF Told
  <2>3. 1 \in DOMAIN reporter.batch
    BY <1>2, <2>2
  <2>4. 1 \in DOMAIN Line /\ Line[1] = reporter.batch[1]
    BY <1>2, <2>3, ConcatFacts DEF Line
  <2>5. Line # << >>
    BY <2>4
  <2>6. r # << >>
    BY <1>4
  <2>7. q # << >>
    BY <1>3, <1>4, <2>5, <2>6
  <2> QED
    BY <1>3, <2>2, <2>4, <2>7
<1>9. ASSUME NEW k \in Key, k.name = "running", ~cut' PROVE Shown(k, r)
  <2>1. ~cut /\ ~(Len(SampleLine) > MaxPending)
    BY <1>1, <1>9
  <2>2. r = SampleLine
    <3>1. Len(SampleLine) <= MaxPending
      BY <1>2, <2>1, FleetAssumption
    <3> QED
      BY <1>4, <3>1
  <2>3. /\ Shown(k, reporter.samples)
        /\ \A i \in DOMAIN samples : metrics[k] < samples[i].serial
    BY <1>1, <1>9, <2>1 DEF IInv, GaugesOK, HeadSamples
  <2>4. ASSUME \A i \in DOMAIN reporter.samples : metrics[k] < reporter.samples[i].serial
        PROVE  \A i \in DOMAIN SampleLine : metrics[k] < SampleLine[i].serial
    BY <1>6, <2>3, <2>4
  <2>5. ASSUME NEW i \in DOMAIN reporter.samples,
               reporter.samples[i].serial = metrics[k], MetricKey(reporter.samples[i]) = k
        PROVE  /\ i \in DOMAIN SampleLine
               /\ SampleLine[i].serial = metrics[k] /\ MetricKey(SampleLine[i]) = k
    BY <1>6, <2>5
  <2> QED
    BY <2>2, <2>3, <2>4, <2>5 DEF Shown
<1>10. LoopTypeOK'
  BY <1>1, <1>2 DEF LoopTypeOK
<1>11. cut' \in BOOLEAN
  BY <1>1, <1>2
<1>12. /\ pending' \in Seq(Event) /\ samples' \in Seq(Sample)
       /\ Numbered(pending', recorded) /\ ToSet(pending') \subseteq ToSet(Line)
       /\ Numbered(samples', sampled) /\ Told(samples', pending')
       /\ \A k \in Key : k.name = "running" /\ ~cut' => Shown(k, samples')
  BY <1>1, <1>3, <1>4, <1>5, <1>8, <1>9
<1> QED
  BY <1>1, <1>10, <1>11, <1>12, WaitingIInv

\* The agent loses what it held.
LEMMA RestartAgentIInv ==
  ASSUME IInv, RestartAgent
  PROVE  IInv'
<1>1. /\ reporter' = Waiting /\ pending' = << >> /\ samples' = << >>
      /\ browsers' = [p \in Profile |-> "Desired"] /\ pass' = Idle
      /\ UNCHANGED <<recorded, sampled, now, storeVars, cut>>
  BY DEF RestartAgent, FleetRestart
<1>2. cut \in BOOLEAN /\ LoopTypeOK
  BY Typed DEF IInv
<1>3. LoopTypeOK'
  BY <1>1, <1>2 DEF LoopTypeOK, Pass, RuntimeStatus
<1>4. /\ Numbered(<< >>, recorded) /\ Numbered(<< >>, sampled) /\ Told(<< >>, << >>)
      /\ \A k \in Key : Shown(k, << >>)
      /\ ToSet(<< >>) \subseteq ToSet(Line)
      /\ << >> \in Seq(Event) /\ << >> \in Seq(Sample)
  BY DEF Numbered, Increasing, UpTo, Told, Shown, ToSet
<1>5. /\ pending' \in Seq(Event) /\ samples' \in Seq(Sample) /\ cut' \in BOOLEAN
      /\ Numbered(pending', recorded) /\ ToSet(pending') \subseteq ToSet(Line)
      /\ Numbered(samples', sampled) /\ Told(samples', pending')
      /\ \A k \in Key : k.name = "running" /\ ~cut' => Shown(k, samples')
  BY <1>1, <1>2, <1>4
<1> QED
  BY <1>1, <1>3, <1>5, WaitingIInv

\* The controller loads its log again.
LEMMA RestartControllerIInv ==
  ASSUME IInv, RestartController
  PROVE  IInv'
<1>1. /\ UNCHANGED <<browsers, pass, pending, recorded, samples, sampled, now, reporter, table,
                     metrics, counted, bare, cut>>
  BY DEF RestartController, fleetVars, bufferVars
<1>2. events' \in Seq(Event) /\ Len(events') = Len(events) /\ StoredOnce'
  BY ReloadFacts DEF IInv, EventsOK
<1>3. TypeOK'
  BY <1>1, <1>2 DEF IInv, TypeOK
<1>4. /\ Line' = Line /\ SampleLine' = SampleLine
      /\ HeadSamples' = HeadSamples /\ HeadEvents' = HeadEvents
  BY <1>1 DEF Line, SampleLine, HeadSamples, HeadEvents
<1>5. EventsOK'
  BY <1>1, <1>2, <1>4 DEF IInv, EventsOK, Safe
<1>6. SamplesOK'
  BY <1>1, <1>2, <1>4 DEF IInv, SamplesOK, Told, Safe
<1>7. GaugesOK'
  BY <1>1, <1>4 DEF IInv, GaugesOK, Shown
<1> QED
  BY <1>1, <1>3, <1>5, <1>6, <1>7 DEF IInv

\* Every step keeps the invariant.
LEMMA NextIInv ==
  ASSUME IInv, [Next]_vars
  PROVE  IInv'
<1>1. ASSUME UNCHANGED vars PROVE IInv'
  BY <1>1, LoopIInv, Typed DEF vars, fleetVars, IInv, LoopTypeOK
<1> QED
  BY <1>1, RecordIInv, DrainIInv, ReportCases, AcceptIInv, RefuseIInv, AcknowledgeIInv,
     RequeueIInv, RestartAgentIInv, RestartControllerIInv DEF Next

-----------------------------------------------------------------------------
(* What a step does. *)

\* An event that the agent no longer holds was lost with the process, arrived, or
\* was cut off.
LEMMA EventsHanded ==
  ASSUME IInv, [Next]_vars, NEW e \in Held, e \notin Held'
  PROVE  \/ RestartAgent
         \/ Acknowledge /\ (e \in table \/ Len(events) = MaxStored)
         \/ \E i \in DOMAIN Line : i > MaxPending /\ Line[i] = e
<1>1. /\ reporter.batch \in Seq(Event) /\ pending \in Seq(Event) /\ TypeOK /\ LoopTypeOK
      /\ Line \in Seq(Event) /\ ToSet(Line) = Held /\ Len(Line) \in Nat
  BY Typed, ConcatFacts DEF IInv, Line, Held
<1>2. ASSUME UNCHANGED <<reporter, pending>> PROVE FALSE
  BY <1>2 DEF Held
<1>3. ASSUME Record PROVE FALSE
  <2>1. PICK p \in Profile, at \in 1..MaxClock : RecordEvent(p, at)
    BY <1>1, <1>2, <1>3, FleetSteps DEF Record, bufferVars, PushSample
  <2>2. ToSet(pending) \subseteq ToSet(pending')
    BY <1>1, <2>1 DEF RecordEvent, ToSet
  <2> QED
    BY <1>3, <2>2 DEF Held, Record
<1>4. ASSUME DrainTelemetry PROVE FALSE
  BY <1>4 DEF DrainTelemetry, IInv, Waiting, Held, ToSet
<1>5. ASSUME ReportTelemetry PROVE FALSE
  <2>1. reporter'.batch = reporter.batch /\ pending' = pending
    BY <1>1, <1>5, ReportCases, SameBatch DEF Accepting, Refusing, fleetVars, bufferVars
  <2> QED
    BY <2>1 DEF Held
<1>6. ASSUME Acknowledge PROVE e \in table \/ Len(events) = MaxStored
  <2>1. e \in ToSet(reporter.batch)
    BY <1>6 DEF Acknowledge, fleetVars, bufferVars, Held
  <2> QED
    BY <1>6, <2>1 DEF Acknowledge, IInv, EventsOK, Safe
<1>7. ASSUME RequeueTelemetry PROVE \E i \in DOMAIN Line : i > MaxPending /\ Line[i] = e
  <2>1. PICK i \in DOMAIN Line : Line[i] = e
    BY <1>1 DEF ToSet
  <2>2. CASE i <= MaxPending
    <3>1. i \in DOMAIN pending' /\ pending'[i] = e
      BY <1>1, <1>7, <2>1, <2>2, RequeuedFacts DEF RequeueTelemetry, Line
    <3> QED
      BY <3>1 DEF Held, ToSet
  <2>3. CASE i > MaxPending
    BY <2>1, <2>3
  <2> QED
    BY <1>1, <2>1, <2>2, <2>3, FleetAssumption
<1>8. ASSUME RestartController \/ UNCHANGED vars PROVE FALSE
  BY <1>2, <1>8 DEF RestartController, fleetVars, bufferVars, vars
<1> QED
  BY <1>3, <1>4, <1>5, <1>6, <1>7, <1>8 DEF Next

\* A retry that the controller accepts repeats no count, unless the event that
\* would tell it was never there or may have been evicted.
LEMMA RetryTold ==
  ASSUME IInv, NEW i \in DOMAIN reporter.samples, ReportTelemetry,
         reporter.samples[i].serial \in counted, reporter'.phase = "accepted",
         reporter.samples[i].serial \notin bare
  PROVE  Len(events) + Len(reporter.batch) > MaxStored
<1>1. Accepting
  BY ReportCases, SameBatch DEF IInv, Refusing
<1>2. /\ events \in Seq(Event) /\ reporter.batch \in Seq(Event) /\ ToSet(events) = table
      /\ Len(events) \in Nat /\ Len(reporter.batch) \in Nat
  BY Typed DEF IInv, EventsOK, StoredOnce
<1>3. reporter.batch # << >> /\ Safe(reporter.batch[1])
  BY <1>1 DEF Accepting, IInv, SamplesOK, Told, HeadSamples, HeadEvents
<1>4. Len(reporter.batch) > 0 /\ 1 \in DOMAIN reporter.batch
  BY <1>2, <1>3
<1> SUFFICES ASSUME Len(events) + Len(reporter.batch) <= MaxStored PROVE FALSE
  BY <1>2, StoredAssumption
<1>5. reporter.batch[1] \in table
  BY <1>2, <1>3, <1>4, StoredAssumption DEF Safe
<1>6. PICK j \in DOMAIN events : events[j] = reporter.batch[1]
  BY <1>2, <1>5 DEF ToSet
<1> DEFINE all == events \o reporter.batch
           n == Len(events) + 1
<1>7. /\ all \in Seq(Event) /\ Len(all) <= MaxStored
      /\ j \in DOMAIN all /\ all[j] = events[j]
      /\ n \in DOMAIN all /\ all[n] = reporter.batch[1]
  BY <1>2, <1>4, ConcatFacts
<1>8. n # j
  BY <1>2
<1> HIDE DEF all, n
<1>9. Bounded(all) = all
  BY <1>7, BoundedFacts
<1>10. Insertable(all)
  BY <1>1, <1>9 DEF Accepting, all
<1> QED
  BY <1>6, <1>7, <1>8, <1>10 DEF Insertable

\* A point of a gauge goes back only because it is evicted or samples were cut off.
LEMMA PointsNewer ==
  ASSUME IInv, [Next]_vars, NEW k \in Key, k.name = "running", metrics'[k] < metrics[k]
  PROVE  metrics'[k] = 0 \/ cut
<1>1. metrics \in [Key -> Nat] /\ reporter.samples \in Seq(Sample) /\ sampled \in Nat
  BY Typed DEF IInv
<1>2. metrics' # metrics
  BY <1>1
<1>3. Accepting
  BY <1>2, ReportCases DEF Next, Record, DrainTelemetry, Refusing, Acknowledge, RequeueTelemetry,
     RestartAgent, RestartController, vars, storeVars
<1> SUFFICES ASSUME metrics'[k] # 0, ~cut PROVE FALSE
  BY Typed DEF IInv
<1>4. metrics'[k] = Point(k, reporter.samples)
  BY <1>3, AcceptedPoints
<1>5. Point(k, reporter.samples) # metrics[k]
  BY <1>1, <1>4
<1>6. PICK m \in DOMAIN reporter.samples :
        /\ Point(k, reporter.samples) = reporter.samples[m].serial
        /\ \A i \in DOMAIN reporter.samples : MetricKey(reporter.samples[i]) = k => i <= m
  BY <1>1, <1>5, PointFacts
<1>7. Shown(k, reporter.samples)
  BY <1>3 DEF Accepting, IInv, GaugesOK, HeadSamples
<1>8. \A i \in DOMAIN reporter.samples : reporter.samples[i].serial \in Nat /\ i \in Nat
  <2>1. \A x \in Sample : x.serial \in Nat
    BY DEF Sample
  <2> QED
    BY <1>1, <2>1
<1>9. CASE \A i \in DOMAIN reporter.samples : metrics[k] < reporter.samples[i].serial
  BY <1>1, <1>4, <1>6, <1>8, <1>9
<1>10. ASSUME NEW i \in DOMAIN reporter.samples,
              reporter.samples[i].serial = metrics[k], MetricKey(reporter.samples[i]) = k
       PROVE  FALSE
  <2>1. i <= m
    BY <1>6, <1>10
  <2>2. i < m => reporter.samples[i].serial < reporter.samples[m].serial
    BY HeadNumbered DEF Numbered, Increasing
  <2>3. i < m \/ i = m
    BY <1>8, <2>1
  <2> QED
    BY <1>1, <1>4, <1>6, <1>8, <1>10, <2>2, <2>3
<1> QED
  BY <1>7, <1>9, <1>10 DEF Shown

-----------------------------------------------------------------------------
(* Results. *)

\* The invariant holds throughout.
THEOREM Invariance == Spec => []IInv
BY InitIInv, NextIInv, PTL DEF Spec

\* The variables have their types.
THEOREM TypeCorrect == Spec => []TypeOK
<1>1. IInv => TypeOK
  BY DEF IInv
<1> QED
  BY <1>1, Invariance, PTL

\* However often a batch is sent, an event is in the log once, and the log in memory
\* has the rows of the table.
THEOREM AtMostOnce == Spec => []StoredOnce
<1>1. IInv => StoredOnce
  BY DEF IInv, EventsOK
<1> QED
  BY <1>1, Invariance, PTL

\* Retries leave the order of recording alone.
THEOREM OrderKept == Spec => []RecordingOrder
<1>1. IInv => RecordingOrder
  BY DEF IInv, EventsOK, Line, Numbered, Increasing, RecordingOrder
<1> QED
  BY <1>1, Invariance, PTL

\* An event leaves the agent for the log, with the process, or over the bound.
THEOREM NothingDropped == Spec => HandedOver
<1>1. IInv /\ [Next]_vars =>
        [\A e \in Held :
           e \notin Held' =>
             \/ RestartAgent
             \/ Acknowledge /\ (e \in table \/ Len(events) = MaxStored)
             \/ LET line == reporter.batch \o pending
                IN  \E i \in DOMAIN line : i > MaxPending /\ line[i] = e]_vars
  BY EventsHanded DEF Line
<1> QED
  BY <1>1, Invariance, PTL DEF Spec, HandedOver

\* A restart is not counted twice, but for the two exceptions.
THEOREM NotCountedTwice == Spec => CountedOnce
<1>1. IInv /\ [Next]_vars =>
        [\A i \in DOMAIN reporter.samples :
           LET s == reporter.samples[i]
           IN  ReportTelemetry /\ s.serial \in counted /\ reporter'.phase = "accepted"
                 => s.serial \in bare \/ Len(events) + Len(reporter.batch) > MaxStored]_vars
  BY RetryTold
<1> QED
  BY <1>1, Invariance, PTL DEF Spec, CountedOnce

\* A gauge does not go back to an earlier reading.
THEOREM GaugesForward == Spec => GaugeNeverOlder
<1>1. IInv /\ [Next]_vars =>
        [\A k \in Key :
           k.name = "running" /\ metrics'[k] < metrics[k] => metrics'[k] = 0 \/ cut]_vars
  BY PointsNewer
<1> QED
  BY <1>1, Invariance, PTL DEF Spec, GaugeNeverOlder
=============================================================================
