-------------------------- MODULE CliSessionProofs --------------------------
(***************************************************************************)
(* Theorems about CliSession, for any profiles, lease ids, clients and     *)
(* lifetimes.                                                              *)
(***************************************************************************)
EXTENDS CliSession, TLAPS

Running(s) == sessions[s] # Idle

\* A lease is granted once under its id, for a time; the table of the controller
\* holds one lease per profile.
LeasesDistinct ==
  /\ \A k \in spent : 0 < k.expires
  /\ \A k1, k2 \in spent : k1.id = k2.id => k1 = k2
  /\ \A k1, k2 \in held : k1.profile = k2.profile => k1 = k2

\* Every command works with a lease of its own.
CommandsDistinct ==
  /\ \A s \in Session : Running(s) => sessions[s].lease \in spent
  /\ \A s, t \in Session :
       Running(s) /\ Running(t) /\ sessions[s].lease = sessions[t].lease => s = t

\* What reaches the agent is a lease as it was granted, or comes from an operator.
Known(l) == l \in spent \/ l.id \in strays

AgentInformed ==
  /\ \A l \in installed[Machine] : Known(l)
  /\ \A list \in answer : \A l \in list : Known(l)

Busy == {"ensuring", "calling"}

\* Once a lease has been late it is over, and no operation is under way for it.
LateOver ==
  \A id \in LeaseId : late[id] > 0 =>
    \/ id \in strays
    \/ /\ \E k \in spent : k.id = id /\ ~Live(k)
       /\ \A s \in Session : sessions[s].phase \in Busy => sessions[s].lease.id # id

\* The inductive invariant.
IInv ==
  /\ TypeOK
  /\ LeasesDistinct /\ CommandsDistinct /\ AgentInformed
  /\ KeptWhileRunning /\ EnsuredStaysUp
  /\ LateOver /\ OneLateOperation

-----------------------------------------------------------------------------
(* The record of a command. *)

\* A command that runs has a lease, and its phase says so.
LEMMA SessionShape ==
  ASSUME NEW r \in SessionState
  PROVE  /\ r = Idle <=> r.phase = "idle"
         /\ r # Idle => r.lease \in A!LocalLease
         /\ r.phase \in {"acquired", "installed", "ensuring", "ready", "done"} =>
              r \in [phase : {"acquired", "installed", "ensuring", "ready", "done"},
                     lease : A!LocalLease]
         /\ r.phase = "calling" =>
              r \in [phase : {"calling"}, lease : A!LocalLease, op : {"use", "stop"}]
BY DEF SessionState, Idle

\* Moving on keeps the lease.
LEMMA PhaseShape ==
  ASSUME NEW r \in SessionState, r.phase \in {"acquired", "installed", "ensuring", "ready"},
         NEW ph \in {"installed", "ensuring", "ready"}
  PROVE  /\ [r EXCEPT !.phase = ph] \in SessionState
         /\ [r EXCEPT !.phase = ph] # Idle
         /\ [r EXCEPT !.phase = ph].phase = ph
         /\ [r EXCEPT !.phase = ph].lease = r.lease
<1>1. r \in [phase : {"acquired", "installed", "ensuring", "ready", "done"}, lease : A!LocalLease]
  BY SessionShape
<1>2. [r EXCEPT !.phase = ph] \in
        [phase : {"acquired", "installed", "ensuring", "ready", "done"}, lease : A!LocalLease]
  BY <1>1
<1>3. [r EXCEPT !.phase = ph].phase = ph /\ [r EXCEPT !.phase = ph].lease = r.lease
  BY <1>1
<1> HIDE DEF SessionState
<1>4. [r EXCEPT !.phase = ph] \in SessionState
  BY <1>2 DEF SessionState
<1>5. [r EXCEPT !.phase = ph] # Idle
  BY <1>3, <1>4, SessionShape
<1> QED
  BY <1>3, <1>4, <1>5

\* A new record with a lease.
LEMMA RecordShape ==
  ASSUME NEW l \in A!LocalLease
  PROVE  /\ \A ph \in {"acquired", "done"} :
              /\ [phase |-> ph, lease |-> l] \in SessionState
              /\ [phase |-> ph, lease |-> l] # Idle
         /\ \A op \in {"use", "stop"} :
              /\ [phase |-> "calling", lease |-> l, op |-> op] \in SessionState
              /\ [phase |-> "calling", lease |-> l, op |-> op] # Idle
         /\ Idle \in SessionState
<1>1. \A ph \in {"acquired", "done"} : [phase |-> ph, lease |-> l] \in SessionState
  BY DEF SessionState
<1>2. \A op \in {"use", "stop"} : [phase |-> "calling", lease |-> l, op |-> op] \in SessionState
  BY DEF SessionState
<1>3. Idle \in SessionState
  BY DEF SessionState
<1> QED
  BY <1>1, <1>2, <1>3, SessionShape

-----------------------------------------------------------------------------
(* What all steps but an acquisition have in common. *)

\* Every command is over or goes on with its lease.
Carried ==
  /\ sessions' \in [Session -> SessionState]
  /\ \A s \in Session :
       sessions'[s] = Idle \/ (Running(s) /\ sessions'[s].lease = sessions[s].lease)

\* Nothing is granted and nothing is forgotten.
NoGrant ==
  /\ spent' = spent /\ held' \subseteq held
  /\ strays \subseteq strays'
  /\ late' \in [LeaseId -> Nat] /\ \A id \in LeaseId : late[id] <= late'[id]
  /\ clock <= clock' /\ clock' \in 1..MaxClock

\* Such a step keeps leases and commands apart.
LEMMA CarriedDistinct ==
  ASSUME IInv, Carried, NoGrant
  PROVE  LeasesDistinct' /\ CommandsDistinct'
<1>1. LeasesDistinct'
  BY DEF IInv, LeasesDistinct, NoGrant
<1>2. CommandsDistinct'
  BY DEF IInv, CommandsDistinct, Carried, NoGrant, Running
<1> QED
  BY <1>1, <1>2

\* It keeps a command's lease if only expired, strayed or abandoned leases go.
LEMMA CarriedKept ==
  ASSUME IInv, Carried, NoGrant,
         \A s \in Session :
           /\ sessions'[s] # Idle /\ sessions[s].lease \in held
           /\ clock' < sessions[s].lease.expires /\ sessions[s].lease.id \notin strays'
           => sessions[s].lease \in held'
  PROVE  KeptWhileRunning'
<1> SUFFICES ASSUME NEW s \in Session, sessions'[s] # Idle,
                    clock' < sessions'[s].lease.expires, sessions'[s].lease.id \notin strays'
             PROVE  sessions'[s].lease \in held'
  BY DEF KeptWhileRunning
<1> DEFINE l == sessions[s].lease
<1>1. Running(s) /\ sessions'[s].lease = l
  BY DEF Carried
<1>2. l \in spent /\ l.expires \in Int
  BY <1>1 DEF IInv, CommandsDistinct, TypeOK, A!LocalLease
<1>3. clock \in Int /\ clock' \in Int
  BY TtlAssumption DEF IInv, TypeOK, NoGrant
<1>4. clock < l.expires /\ l.id \notin strays
  BY <1>1, <1>2, <1>3 DEF NoGrant
<1>5. l \in held
  BY <1>1, <1>4 DEF IInv, KeptWhileRunning, Running
<1> QED
  BY <1>1, <1>5

\* Why a browser may be down under a command that has ensured it.
Excused(l) ==
  \/ ~Live(l)
  \/ \E k \in spent : k.profile = l.profile /\ (k.id \in strays \/ late[k.id] > 0)

\* An excuse lasts.
LEMMA ExcuseLasts ==
  ASSUME IInv, NoGrant, NEW l \in spent, Excused(l)
  PROVE  Excused(l)'
<1>1. clock \in Int /\ clock' \in Int /\ l.expires \in Int
  BY TtlAssumption DEF IInv, TypeOK, NoGrant, A!LocalLease
<1>2. CASE ~Live(l)
  BY <1>1, <1>2 DEF Excused, NoGrant, Live
<1>3. CASE \E k \in spent : k.profile = l.profile /\ (k.id \in strays \/ late[k.id] > 0)
  <2>1. PICK k \in spent : k.profile = l.profile /\ (k.id \in strays \/ late[k.id] > 0)
    BY <1>3
  <2>2. k.id \in LeaseId
    BY DEF IInv, TypeOK, A!LocalLease
  <2>3. k.id \in strays' \/ late'[k.id] > 0
    BY <2>1, <2>2 DEF NoGrant, IInv, TypeOK
  <2> QED
    BY <2>1, <2>3 DEF Excused, NoGrant
<1> QED
  BY <1>2, <1>3 DEF Excused

\* A step keeps the browsers up if it stops none that has been ensured.
LEMMA CarriedStaysUp ==
  ASSUME IInv, Carried, NoGrant,
         \A s \in Session : sessions'[s].phase \in {"ready", "calling"} =>
           \/ healthy'[sessions[s].lease.profile]
           \/ /\ sessions[s].phase \in {"ready", "calling"}
              /\ healthy[sessions[s].lease.profile] => healthy'[sessions[s].lease.profile]
           \/ Excused(sessions[s].lease)'
  PROVE  EnsuredStaysUp'
<1>1. ASSUME NEW s \in Session, sessions'[s].phase \in {"ready", "calling"}
      PROVE  healthy'[sessions'[s].lease.profile] \/ Excused(sessions[s].lease)'
  <2> DEFINE l == sessions[s].lease
  <2>1. sessions'[s] # Idle
    BY <1>1 DEF Idle
  <2>2. Running(s) /\ sessions'[s].lease = l
    BY <2>1 DEF Carried
  <2>3. l \in spent
    BY <2>2 DEF IInv, CommandsDistinct
  <2>4. ASSUME sessions[s].phase \in {"ready", "calling"}, ~healthy[l.profile]
        PROVE  Excused(sessions[s].lease)'
    <3>1. Excused(l)
      BY <2>4 DEF IInv, EnsuredStaysUp, Excused
    <3>2. \A k \in spent : Excused(k) => (\/ ~(k \in held' /\ clock' < k.expires)
                                         \/ \E j \in spent' :
                                              /\ j.profile = k.profile
                                              /\ (j.id \in strays' \/ late'[j.id] > 0))
      BY ExcuseLasts DEF Excused, Live
    <3> QED
      BY <2>2, <2>3, <3>1, <3>2 DEF Excused, Live
  <2> QED
    BY <1>1, <2>2, <2>4
<1> QED
  BY <1>1 DEF EnsuredStaysUp, Excused

\* Who passes the check of the agent holds the profile, or has the lease from an
\* operator: what is installed under the id of the lease is the lease itself.
LEMMA ValidatedHolds ==
  ASSUME IInv, NEW s \in Session, Running(s), Validated(s)
  PROVE  Live(sessions[s].lease) \/ sessions[s].lease.id \in strays
<1> DEFINE l == sessions[s].lease
<1> SUFFICES ASSUME l.id \notin strays PROVE Live(l)
  OBVIOUS
<1>1. PICK x \in installed[Machine] : x.id = l.id /\ (x.expires > 0 => clock < x.expires)
  BY DEF Validated, A!Accepts
<1>2. x \in spent /\ l \in spent
  BY <1>1 DEF IInv, AgentInformed, Known, CommandsDistinct
<1>3. x = l
  BY <1>1, <1>2 DEF IInv, LeasesDistinct
<1>4. 0 < l.expires /\ l.expires \in Int
  BY <1>2 DEF IInv, LeasesDistinct, TypeOK, A!LocalLease
<1>5. clock < l.expires
  BY <1>1, <1>3, <1>4
<1>6. l \in held
  BY <1>5 DEF IInv, KeptWhileRunning, Running
<1> QED
  BY <1>5, <1>6 DEF Live

\* A lease that is over stays over, and none of its id is granted later.
LEMMA OverLasts ==
  ASSUME IInv, NoGrant, NEW k \in spent, ~Live(k)
  PROVE  k \in spent' /\ ~Live(k)'
<1>1. clock \in Int /\ clock' \in Int /\ k.expires \in Int
  BY TtlAssumption DEF IInv, TypeOK, NoGrant, A!LocalLease
<1> QED
  BY <1>1 DEF NoGrant, Live

\* A step that executes nothing, and lets in only who passes the check, leaves the
\* late leases as they are.
LEMMA CarriedLate ==
  ASSUME IInv, Carried, NoGrant, late' = late,
         \A s \in Session : sessions'[s].phase \in Busy =>
           \/ sessions[s].phase \in Busy
           \/ Live(sessions[s].lease) \/ sessions[s].lease.id \in strays
  PROVE  LateOver' /\ OneLateOperation'
<1>1. OneLateOperation'
  BY DEF IInv, OneLateOperation, NoGrant
<1>2. ASSUME NEW id \in LeaseId, late[id] > 0, id \notin strays'
      PROVE  /\ \E k \in spent' : k.id = id /\ ~Live(k)'
             /\ \A s \in Session : sessions'[s].phase \in Busy => sessions'[s].lease.id # id
  <2>1. /\ id \notin strays
        /\ \A s \in Session : sessions[s].phase \in Busy => sessions[s].lease.id # id
    BY <1>2 DEF IInv, LateOver, NoGrant
  <2>2. PICK k \in spent : k.id = id /\ ~Live(k)
    BY <1>2, <2>1 DEF IInv, LateOver
  <2>3. \A s \in Session : Running(s) /\ sessions[s].lease.id = id => ~Live(sessions[s].lease)
    BY <2>2 DEF IInv, CommandsDistinct, LeasesDistinct
  <2>4. ASSUME NEW s \in Session, sessions'[s].phase \in Busy
        PROVE  sessions'[s].lease.id # id
    <3>1. Running(s) /\ sessions'[s].lease = sessions[s].lease
      BY <2>4 DEF Carried, Busy, Idle
    <3> QED
      BY <2>1, <2>3, <2>4, <3>1
  <2> QED
    BY <2>2, <2>4, OverLasts
<1>3. LateOver'
  BY <1>2 DEF LateOver, Live
<1> QED
  BY <1>1, <1>3

\* An operation is executed: if late, then for the first time, since none is let
\* in for a lease that has ended, and each command has its own.
LEMMA ExecutedLate ==
  ASSUME IInv, Carried, UNCHANGED <<clock, held, spent, strays>>, NEW s \in Session,
         sessions[s].phase \in Busy, Running(s), CountLate(sessions[s].lease),
         sessions'[s].phase \notin Busy, \A t \in Session : t # s => sessions'[t] = sessions[t]
  PROVE  NoGrant /\ LateOver' /\ OneLateOperation'
<1> DEFINE l == sessions[s].lease
<1>1. l \in spent /\ l.id \in LeaseId
  BY DEF IInv, CommandsDistinct, TypeOK, A!LocalLease
<1>2. late \in [LeaseId -> Nat]
  BY DEF IInv, TypeOK
<1>3. CASE Live(l)
  <2>1. late' = late
    BY <1>3 DEF CountLate
  <2>2. NoGrant
    BY <2>1 DEF NoGrant, IInv, TypeOK
  <2> QED
    BY <2>1, <2>2, CarriedLate
<1>4. CASE ~Live(l)
  <2>1. late' = [late EXCEPT ![l.id] = @ + 1]
    BY <1>4 DEF CountLate
  <2>2. /\ late' \in [LeaseId -> Nat]
        /\ \A id \in LeaseId : late'[id] = IF id = l.id THEN late[id] + 1 ELSE late[id]
    BY <1>1, <1>2, <2>1
  <2>3. NoGrant
    BY <1>2, <2>2 DEF NoGrant, IInv, TypeOK
  <2>4. l.id \in strays \/ late[l.id] = 0
    BY <1>1, <1>2 DEF IInv, LateOver
  <2>5. OneLateOperation'
    BY <1>2, <2>2, <2>4 DEF IInv, OneLateOperation
  <2>6. ASSUME NEW t \in Session, sessions'[t].phase \in Busy
        PROVE  /\ t # s /\ sessions'[t] = sessions[t] /\ sessions[t].phase \in Busy
               /\ sessions[t].lease.id # l.id
    <3>1. t # s /\ sessions'[t] = sessions[t] /\ Running(t)
      BY <2>6 DEF Busy, Running, Idle
    <3>2. sessions[t].lease \in spent /\ sessions[t].lease # l
      BY <3>1 DEF IInv, CommandsDistinct
    <3> QED
      BY <1>1, <2>6, <3>1, <3>2 DEF IInv, LeasesDistinct
  <2>7. LateOver'
    <3> SUFFICES ASSUME NEW id \in LeaseId, late'[id] > 0, id \notin strays'
                 PROVE  /\ \E k \in spent' : k.id = id /\ ~(k \in held' /\ clock' < k.expires)
                        /\ \A t \in Session : sessions'[t].phase \in Busy =>
                             sessions'[t].lease.id # id
      BY DEF LateOver, Live
    <3>1. CASE id = l.id
      BY <1>1, <1>4, <2>6, <3>1 DEF Live
    <3>2. CASE id # l.id
      BY <1>2, <2>2, <2>6, <3>2 DEF IInv, LateOver, Live
    <3> QED
      BY <3>1, <3>2
  <2> QED
    BY <2>3, <2>5, <2>7
<1> QED
  BY <1>3, <1>4

\* One command moves on or ends.
LEMMA SetCarried ==
  ASSUME IInv, NEW s \in Session, NEW next \in SessionState, SetSession(s, next),
         next = Idle \/ (Running(s) /\ next.lease = sessions[s].lease)
  PROVE  /\ Carried
         /\ \A t \in Session : sessions'[t] = IF t = s THEN next ELSE sessions[t]
<1>1. sessions \in [Session -> SessionState]
  BY DEF IInv, TypeOK
<1>2. \A t \in Session : sessions'[t] = IF t = s THEN next ELSE sessions[t]
  BY <1>1 DEF SetSession
<1>3. sessions' \in [Session -> SessionState]
  BY <1>1 DEF SetSession
<1> QED
  BY <1>2, <1>3 DEF Carried, Running

\* No command changes.
LEMMA StillCarried ==
  ASSUME IInv, sessions' = sessions
  PROVE  Carried
BY DEF IInv, TypeOK, Carried, Running

\* What remains to be shown of a step that leaves table and history alone.
LEMMA CarriedIInv ==
  ASSUME IInv, Carried, UNCHANGED <<clock, held, spent, strays>>, TypeOK',
         AgentInformed', \A id \in LeaseId : late[id] <= late'[id],
         EnsuredStaysUp', LateOver', OneLateOperation'
  PROVE  IInv'
<1>1. NoGrant
  BY DEF NoGrant, IInv, TypeOK
<1>2. KeptWhileRunning'
  BY <1>1, CarriedKept
<1> QED
  BY <1>1, <1>2, CarriedDistinct DEF IInv

\* The agent's table and the pending answer do not change.
LEMMA StillInformed ==
  ASSUME IInv, installed' = installed, answer' = answer, spent \subseteq spent',
         strays \subseteq strays'
  PROVE  AgentInformed'
BY DEF IInv, AgentInformed, Known

-----------------------------------------------------------------------------
(* Steps of a command. *)

\* A grant is new to everybody, and its profile has no other holder.
LEMMA AcquireIInv ==
  ASSUME IInv, NEW s \in Session, NEW p \in Profile, NEW id \in LeaseId, Acquire(s, p, id)
  PROVE  IInv'
<1> DEFINE l == [id |-> id, profile |-> p, expires |-> clock + Ttl]
           next == [phase |-> "acquired", lease |-> l]
<1>1. clock \in Int /\ clock' = clock /\ 1 <= clock
  BY TtlAssumption DEF IInv, TypeOK, Acquire
<1>2. l \in A!LocalLease /\ l.id = id /\ l.profile = p /\ 0 < l.expires
  BY <1>1, TtlAssumption DEF A!LocalLease
<1>3. /\ sessions[s] = Idle /\ sessions' = [sessions EXCEPT ![s] = next]
      /\ \A k \in spent : k.id # id
      /\ \A k \in held \ Expired : k.profile # p
      /\ held' = (held \ Expired) \cup {l} /\ spent' = spent \cup {l}
      /\ UNCHANGED <<notices, installed, answer, healthy, strays, late>>
  BY DEF Acquire, SetSession, agentVars, histVars
<1>4. next \in SessionState /\ next.phase = "acquired" /\ next.lease = l
  BY <1>2, RecordShape
<1> HIDE DEF l, next
<1>5. /\ sessions' \in [Session -> SessionState]
      /\ \A t \in Session : sessions'[t] = IF t = s THEN next ELSE sessions[t]
  BY <1>3, <1>4 DEF IInv, TypeOK
<1>6. TypeOK'
  BY <1>1, <1>2, <1>3, <1>5 DEF IInv, TypeOK, A!TypeOK
<1>7. LeasesDistinct'
  BY <1>2, <1>3 DEF IInv, TypeOK, LeasesDistinct
<1>8. l \notin spent
  BY <1>2, <1>3
<1>9. CommandsDistinct'
  <2>1. \A t \in Session : sessions'[t] # Idle =>
          sessions'[t].lease = IF t = s THEN l ELSE sessions[t].lease
    BY <1>4, <1>5
  <2>2. \A t \in Session : t # s /\ sessions'[t] # Idle => sessions[t].lease \in spent
    BY <1>5 DEF IInv, CommandsDistinct, Running
  <2>3. \A t \in Session : sessions'[t] # Idle => sessions'[t].lease \in spent'
    BY <1>3, <2>1, <2>2
  <2>4. \A t, u \in Session :
          sessions'[t] # Idle /\ sessions'[u] # Idle /\ sessions'[t].lease = sessions'[u].lease
            => t = u
    BY <1>5, <1>8, <2>1, <2>2 DEF IInv, CommandsDistinct, Running
  <2> QED
    BY <2>3, <2>4 DEF CommandsDistinct, Running
<1>10. AgentInformed'
  BY <1>3, StillInformed
<1>11. KeptWhileRunning'
  <2> SUFFICES ASSUME NEW t \in Session, sessions'[t] # Idle,
                      clock' < sessions'[t].lease.expires, sessions'[t].lease.id \notin strays'
               PROVE  sessions'[t].lease \in held'
    BY DEF KeptWhileRunning
  <2>1. CASE t = s
    BY <1>3, <1>4, <1>5, <2>1
  <2>2. CASE t # s
    <3>1. sessions'[t] = sessions[t]
      BY <1>5, <2>2
    <3>2. sessions[t].lease \in held /\ clock < sessions[t].lease.expires
      BY <1>1, <1>3, <3>1 DEF IInv, KeptWhileRunning
    <3>3. sessions[t].lease \notin Expired
      <4>1. sessions[t].lease.expires \in Int
        BY <3>2 DEF IInv, TypeOK, A!LocalLease
      <4> QED
        BY <1>1, <3>2, <4>1 DEF Expired
    <3> QED
      BY <1>3, <3>1, <3>2, <3>3
  <2> QED
    BY <2>1, <2>2
<1>12. EnsuredStaysUp'
  <2> SUFFICES ASSUME NEW t \in Session, sessions'[t].phase \in {"ready", "calling"}
               PROVE  healthy'[sessions'[t].lease.profile] \/ Excused(sessions[t].lease)'
    BY DEF EnsuredStaysUp, Excused
  <2>1. t # s /\ sessions'[t] = sessions[t]
    BY <1>4, <1>5
  <2>2. sessions[t].lease \in spent
    BY <2>1 DEF IInv, CommandsDistinct, Running, Idle
  <2>3. healthy[sessions[t].lease.profile] \/ Excused(sessions[t].lease)
    BY <2>1 DEF IInv, EnsuredStaysUp, Excused
  <2>4. sessions[t].lease \in held' => sessions[t].lease \in held
    BY <1>3, <1>8, <2>2
  <2> QED
    BY <1>1, <1>3, <2>1, <2>3, <2>4 DEF Excused, Live
<1>13. OneLateOperation'
  BY <1>3 DEF IInv, OneLateOperation
<1>14. LateOver'
  <2> SUFFICES ASSUME NEW i \in LeaseId, late'[i] > 0, i \notin strays'
               PROVE  /\ \E k \in spent' : k.id = i /\ ~(k \in held' /\ clock' < k.expires)
                      /\ \A t \in Session : sessions'[t].phase \in Busy => sessions'[t].lease.id # i
    BY DEF LateOver, Live
  <2>1. PICK k \in spent : k.id = i /\ ~Live(k)
    BY <1>3 DEF IInv, LateOver
  <2>2. k \in spent' /\ ~(k \in held' /\ clock' < k.expires)
    BY <1>1, <1>3, <1>8, <2>1 DEF Live
  <2>3. \A t \in Session : sessions'[t].phase \in Busy => t # s /\ sessions'[t] = sessions[t]
    BY <1>4, <1>5 DEF Busy
  <2> QED
    BY <1>3, <2>1, <2>2, <2>3 DEF IInv, LateOver
<1> QED
  BY <1>6, <1>7, <1>9, <1>10, <1>11, <1>12, <1>13, <1>14 DEF IInv

\* A command that installs its lease or is let in: the lease is one it was granted.
LEMMA AdmitIInv ==
  ASSUME IInv, NEW s \in Session,
         \/ InstallLease(s) \/ EnsureRequested(s)
         \/ \E op \in {"use", "stop"} : OperationRequested(s, op)
  PROVE  IInv'
<1> DEFINE l == sessions[s].lease
<1>1. sessions[s] \in SessionState /\ sessions[s].phase \in {"acquired", "installed", "ready"}
  BY DEF IInv, TypeOK, InstallLease, EnsureRequested, OperationRequested
<1>2. Running(s) /\ l \in A!LocalLease /\ l \in spent
  BY <1>1, SessionShape DEF IInv, CommandsDistinct, Running
<1>3. UNCHANGED <<clock, held, spent, notices, answer, healthy, strays, late>>
  BY DEF InstallLease, EnsureRequested, OperationRequested, agentVars, histVars
<1>4. PICK next \in SessionState :
        /\ SetSession(s, next) /\ next.lease = l
        /\ next.phase \in {"ready", "calling"} => sessions[s].phase \in {"ready", "calling"}
        /\ next.phase \in Busy => Validated(s)
  <2>1. CASE InstallLease(s)
    BY <1>1, <2>1, PhaseShape DEF InstallLease, Busy
  <2>2. CASE EnsureRequested(s)
    BY <1>1, <2>2, PhaseShape DEF EnsureRequested
  <2>3. ASSUME NEW op \in {"use", "stop"}, OperationRequested(s, op)
        PROVE  \E next \in SessionState :
                 /\ SetSession(s, next) /\ next.lease = l
                 /\ next.phase \in {"ready", "calling"} => sessions[s].phase \in {"ready", "calling"}
                 /\ next.phase \in Busy => Validated(s)
    BY <1>2, <2>3, RecordShape DEF OperationRequested
  <2> QED
    BY <2>1, <2>2, <2>3
<1>5. Carried /\ \A t \in Session : sessions'[t] = IF t = s THEN next ELSE sessions[t]
  BY <1>2, <1>4, SetCarried
<1>6. /\ installed' \in [{Machine} -> SUBSET A!LocalLease]
      /\ \A x \in installed'[Machine] : x \in installed[Machine] \/ x = l
  BY <1>2 DEF InstallLease, EnsureRequested, OperationRequested, agentVars,
              A!InstallLease, IInv, TypeOK, A!TypeOK
<1>7. AgentInformed'
  BY <1>2, <1>3, <1>6 DEF IInv, AgentInformed, Known
<1>8. TypeOK'
  BY <1>3, <1>5, <1>6 DEF IInv, TypeOK, A!TypeOK, Carried
<1>9. NoGrant
  BY <1>3 DEF NoGrant, IInv, TypeOK
<1>10. EnsuredStaysUp'
  BY <1>3, <1>4, <1>5, <1>9, CarriedStaysUp
<1>11. LateOver' /\ OneLateOperation'
  BY <1>2, <1>3, <1>4, <1>5, <1>9, ValidatedHolds, CarriedLate
<1> QED
  BY <1>3, <1>5, <1>7, <1>8, <1>9, <1>10, <1>11, CarriedIInv DEF NoGrant

\* ensure_browser: the browser is up afterwards.
LEMMA EnsureIInv ==
  ASSUME IInv, NEW s \in Session, EnsureBrowser(s)
  PROVE  IInv'
<1> DEFINE l == sessions[s].lease
           next == [sessions[s] EXCEPT !.phase = "ready"]
<1>1. sessions[s] \in SessionState /\ sessions[s].phase = "ensuring"
  BY DEF IInv, TypeOK, EnsureBrowser
<1>2. Running(s) /\ l \in A!LocalLease /\ l.profile \in Profile
  BY <1>1, SessionShape DEF Running, A!LocalLease
<1>3. next \in SessionState /\ next.lease = l /\ next.phase = "ready"
  BY <1>1, PhaseShape
<1>4. Carried /\ \A t \in Session : sessions'[t] = IF t = s THEN next ELSE sessions[t]
  BY <1>2, <1>3, SetCarried DEF EnsureBrowser
<1>5. /\ UNCHANGED <<clock, held, spent, notices, installed, answer, strays>>
      /\ healthy' = [healthy EXCEPT ![l.profile] = TRUE]
      /\ CountLate(l)
  BY DEF EnsureBrowser
<1> HIDE DEF next
<1>6. NoGrant /\ LateOver' /\ OneLateOperation'
  BY <1>1, <1>2, <1>3, <1>4, <1>5, ExecutedLate DEF Busy
<1>7. healthy' \in [Profile -> BOOLEAN] /\ \A p \in Profile : healthy[p] => healthy'[p]
  BY <1>5 DEF IInv, TypeOK
<1>8. healthy'[l.profile]
  BY <1>2, <1>5 DEF IInv, TypeOK
<1>9. TypeOK'
  BY <1>4, <1>5, <1>6, <1>7 DEF IInv, TypeOK, A!TypeOK, Carried, NoGrant
<1>10. AgentInformed'
  BY <1>5, StillInformed
<1>11. \A t \in Session : t # s /\ sessions'[t].phase \in {"ready", "calling"} =>
         /\ sessions[t].phase \in {"ready", "calling"}
         /\ healthy[sessions[t].lease.profile] => healthy'[sessions[t].lease.profile]
  <2> SUFFICES ASSUME NEW t \in Session, t # s, sessions'[t].phase \in {"ready", "calling"}
               PROVE  /\ sessions[t].phase \in {"ready", "calling"}
                      /\ healthy[sessions[t].lease.profile] => healthy'[sessions[t].lease.profile]
    OBVIOUS
  <2>1. sessions[t].phase \in {"ready", "calling"} /\ sessions[t] \in SessionState
    BY <1>4 DEF IInv, TypeOK
  <2>2. sessions[t].lease.profile \in Profile
    BY <2>1, SessionShape DEF A!LocalLease
  <2> QED
    BY <1>7, <2>1, <2>2
<1>12. EnsuredStaysUp'
  BY <1>4, <1>6, <1>8, <1>11, CarriedStaysUp
<1> QED
  BY <1>4, <1>5, <1>6, <1>9, <1>10, <1>12, CarriedIInv DEF NoGrant

\* An operation: a stop by the holder hits no other command on the profile, and
\* one by a client whose lease has ended is remembered.
LEMMA OperateIInv ==
  ASSUME IInv, NEW s \in Session, Operate(s)
  PROVE  IInv'
<1> DEFINE l == sessions[s].lease
           next == [phase |-> "done", lease |-> l]
<1>1. sessions[s] \in SessionState /\ sessions[s].phase = "calling"
  BY DEF IInv, TypeOK, Operate
<1>2. Running(s) /\ l \in A!LocalLease /\ l.profile \in Profile
  BY <1>1, SessionShape DEF Running, A!LocalLease
<1>3. next \in SessionState /\ next.lease = l /\ next.phase = "done"
  BY <1>2, RecordShape
<1>4. Carried /\ \A t \in Session : sessions'[t] = IF t = s THEN next ELSE sessions[t]
  BY <1>2, <1>3, SetCarried DEF Operate
<1>5. /\ UNCHANGED <<clock, held, spent, notices, installed, answer, strays>>
      /\ healthy' \in {healthy, [healthy EXCEPT ![l.profile] = FALSE]}
      /\ CountLate(l)
  BY DEF Operate
<1> HIDE DEF next
<1>6. NoGrant /\ LateOver' /\ OneLateOperation'
  BY <1>1, <1>2, <1>3, <1>4, <1>5, ExecutedLate DEF Busy
<1>7. /\ healthy' \in [Profile -> BOOLEAN]
      /\ \A p \in Profile : p # l.profile /\ healthy[p] => healthy'[p]
  BY <1>5 DEF IInv, TypeOK
<1>8. TypeOK'
  BY <1>4, <1>5, <1>6, <1>7 DEF IInv, TypeOK, A!TypeOK, Carried, NoGrant
<1>9. AgentInformed'
  BY <1>5, StillInformed
<1>10. ASSUME NEW t \in Session, sessions'[t].phase \in {"ready", "calling"}
       PROVE  \/ /\ sessions[t].phase \in {"ready", "calling"}
                 /\ healthy[sessions[t].lease.profile] => healthy'[sessions[t].lease.profile]
              \/ Excused(sessions[t].lease)'
  <2> DEFINE k == sessions[t].lease
  <2>1. t # s /\ sessions'[t] = sessions[t]
    BY <1>3, <1>4, <1>10
  <2>2. Running(t) /\ k \in A!LocalLease /\ k.profile \in Profile
    <3>1. sessions[t] \in SessionState /\ sessions[t].phase \in {"ready", "calling"}
      BY <1>10, <2>1 DEF IInv, TypeOK
    <3> QED
      BY <3>1, SessionShape DEF Running, A!LocalLease
  <2>3. CASE k.profile # l.profile
    BY <1>7, <1>10, <2>1, <2>2, <2>3
  <2>4. CASE k.profile = l.profile /\ Live(l)
    <3>1. l # k
      BY <1>2, <2>1, <2>2 DEF IInv, CommandsDistinct
    <3>2. k \notin held
      BY <2>4, <3>1 DEF IInv, LeasesDistinct, Live
    <3>3. ~(k \in held' /\ clock' < k.expires)
      BY <1>5, <3>2
    <3> QED
      BY <2>1, <3>3 DEF Excused, Live
  <2>5. CASE k.profile = l.profile /\ ~Live(l)
    <3>1. l \in spent' /\ l.id \in LeaseId
      BY <1>2, <1>5 DEF IInv, CommandsDistinct, A!LocalLease
    <3>2. late'[l.id] > 0
      BY <1>5, <2>5, <3>1 DEF CountLate, IInv, TypeOK
    <3> QED
      BY <2>1, <2>5, <3>1, <3>2 DEF Excused
  <2> QED
    BY <2>3, <2>4, <2>5
<1>11. EnsuredStaysUp'
  BY <1>4, <1>6, <1>10, CarriedStaysUp
<1> QED
  BY <1>4, <1>5, <1>6, <1>8, <1>9, <1>11, CarriedIInv DEF NoGrant

\* The end of a command frees at most its own lease, which no other command has.
LEMMA EndIInv ==
  ASSUME IInv, NEW s \in Session, Release(s) \/ CommandFails(s)
  PROVE  IInv'
<1> DEFINE l == sessions[s].lease
<1>1. sessions[s] \in SessionState /\ Running(s)
  <2>1. sessions[s] \in SessionState
    BY DEF IInv, TypeOK
  <2> QED
    BY <2>1, SessionShape DEF Release, CommandFails, Running
<1>2. SetSession(s, Idle) /\ Idle \in SessionState
  BY DEF Release, CommandFails, SessionState
<1>3. Carried /\ \A t \in Session : sessions'[t] = IF t = s THEN Idle ELSE sessions[t]
  BY <1>2, SetCarried
<1>4. /\ UNCHANGED <<clock, spent, installed, answer, healthy, strays, late>>
      /\ held' \subseteq held /\ held \ held' \subseteq {l}
      /\ notices' \subseteq notices \cup {l.id}
  BY DEF Release, CommandFails, Free, agentVars, histVars
<1>5. l \in spent /\ l.id \in LeaseId
  BY <1>1 DEF IInv, CommandsDistinct, TypeOK, A!LocalLease
<1>6. TypeOK'
  BY <1>3, <1>4, <1>5 DEF IInv, TypeOK, A!TypeOK, Carried
<1>7. NoGrant
  BY <1>4 DEF NoGrant, IInv, TypeOK
<1>8. KeptWhileRunning'
  <2>1. \A t \in Session : sessions'[t] # Idle => sessions[t].lease # l
    BY <1>1, <1>3 DEF IInv, CommandsDistinct, Running
  <2> QED
    BY <1>3, <1>4, <1>7, <2>1, CarriedKept
<1>9. EnsuredStaysUp'
  <2>1. \A t \in Session : sessions'[t].phase \in {"ready", "calling"} => sessions'[t] = sessions[t]
    BY <1>3 DEF Idle
  <2> QED
    BY <1>3, <1>4, <1>7, <2>1, CarriedStaysUp
<1>10. AgentInformed'
  BY <1>4, StillInformed
<1>11. LateOver' /\ OneLateOperation'
  <2>1. \A t \in Session : sessions'[t].phase \in Busy => sessions[t].phase \in Busy
    BY <1>3 DEF Busy, Idle
  <2> QED
    BY <1>3, <1>4, <1>7, <2>1, CarriedLate
<1> QED
  BY <1>3, <1>6, <1>7, <1>8, <1>9, <1>10, <1>11, CarriedDistinct DEF IInv

-----------------------------------------------------------------------------
(* Steps of operators, of the controller and of the agent. *)

\* What goes from the table was ended by an operator, or has expired.
LEMMA RevokeIInv ==
  ASSUME IInv, Sweep \/ \E l \in spent : EndEarly(l)
  PROVE  IInv'
<1>1. UNCHANGED <<clock, spent, installed, answer, healthy, sessions, late>>
  BY DEF Sweep, EndEarly, histVars
<1>2. /\ held' \subseteq held /\ strays \subseteq strays'
      /\ \A k \in held : k \notin held' => k \in Expired \/ k.id \in strays'
  BY DEF Sweep, EndEarly, Free, histVars
<1>3. \A k \in spent : k.id \in LeaseId /\ k.expires \in Int
  BY DEF IInv, TypeOK, A!LocalLease
<1>4. notices' \subseteq LeaseId /\ strays' \subseteq LeaseId
  BY <1>3 DEF Sweep, EndEarly, Free, Expired, histVars, IInv, TypeOK
<1>5. Carried
  BY <1>1, StillCarried
<1>6. NoGrant
  BY <1>1, <1>2 DEF NoGrant, IInv, TypeOK
<1>7. TypeOK'
  BY <1>1, <1>2, <1>4 DEF IInv, TypeOK, A!TypeOK
<1>8. KeptWhileRunning'
  <2>1. ASSUME NEW k \in held, clock' < k.expires
        PROVE  k \notin Expired
    <3>1. clock \in Int /\ k.expires \in Int
      BY <1>3, TtlAssumption DEF IInv, TypeOK
    <3> QED
      BY <1>1, <2>1, <3>1 DEF Expired
  <2> QED
    BY <1>2, <1>5, <1>6, <2>1, CarriedKept
<1>9. EnsuredStaysUp'
  BY <1>1, <1>5, <1>6, CarriedStaysUp
<1>10. AgentInformed'
  BY <1>1, <1>2, StillInformed
<1>11. LateOver' /\ OneLateOperation'
  BY <1>1, <1>5, <1>6, CarriedLate
<1> QED
  BY <1>5, <1>6, <1>7, <1>8, <1>9, <1>10, <1>11, CarriedDistinct DEF IInv

\* What an operator installs is marked as such.
LEMMA ByHandIInv ==
  ASSUME IInv, NEW p \in Profile, NEW id \in LeaseId, InstallByHand(p, id)
  PROVE  IInv'
<1> DEFINE c == [id |-> id, profile |-> p, expires |-> clock + HandTtl]
<1>1. clock \in Int
  BY TtlAssumption DEF IInv, TypeOK
<1>2. c \in A!LocalLease /\ c.id = id
  BY <1>1, TtlAssumption DEF A!LocalLease
<1>3. /\ UNCHANGED <<clock, held, spent, notices, answer, healthy, sessions, late>>
      /\ strays' = strays \cup {id}
      /\ A!InstallLease(Machine, c)
  BY DEF InstallByHand
<1> HIDE DEF c
<1>4. /\ installed' \in [{Machine} -> SUBSET A!LocalLease]
      /\ \A x \in installed'[Machine] : x \in installed[Machine] \/ x = c
  BY <1>2, <1>3 DEF A!InstallLease, IInv, TypeOK, A!TypeOK
<1>5. AgentInformed'
  BY <1>2, <1>3, <1>4 DEF IInv, AgentInformed, Known
<1>6. TypeOK'
  BY <1>2, <1>3, <1>4 DEF IInv, TypeOK, A!TypeOK
<1>7. Carried
  BY <1>3, StillCarried
<1>8. NoGrant
  BY <1>3 DEF NoGrant, IInv, TypeOK
<1>9. KeptWhileRunning' /\ EnsuredStaysUp'
  BY <1>3, <1>7, <1>8, CarriedKept, CarriedStaysUp
<1>10. LateOver' /\ OneLateOperation'
  BY <1>3, <1>7, <1>8, CarriedLate
<1> QED
  BY <1>5, <1>6, <1>7, <1>8, <1>9, <1>10, CarriedDistinct DEF IInv

\* The calls between controller and agent move leases that were granted.
LEMMA AgentIInv ==
  ASSUME IInv,
         \/ \E id \in notices : DeliverUninstall(id) \/ LoseUninstall(id)
         \/ ListMachineLeases \/ ApplySync
  PROVE  IInv'
<1>1. UNCHANGED <<clock, held, spent, healthy, sessions, strays, late>>
  BY DEF DeliverUninstall, LoseUninstall, ListMachineLeases, ApplySync, histVars
<1>2. notices' \subseteq LeaseId
  BY DEF DeliverUninstall, LoseUninstall, ListMachineLeases, ApplySync, IInv, TypeOK
<1>3. installed \in [{Machine} -> SUBSET A!LocalLease] /\ answer \subseteq SUBSET A!LocalLease
  BY DEF IInv, TypeOK, A!TypeOK
<1>4. /\ installed' \in [{Machine} -> SUBSET A!LocalLease]
      /\ \/ installed'[Machine] \subseteq installed[Machine]
         \/ installed'[Machine] \in answer
  <2>1. CASE \E id \in notices : DeliverUninstall(id)
    BY <1>3, <2>1 DEF DeliverUninstall, A!UninstallLease
  <2>2. CASE ApplySync
    BY <1>3, <2>2 DEF ApplySync, A!SyncLeases
  <2>3. CASE ListMachineLeases \/ \E id \in notices : LoseUninstall(id)
    BY <1>3, <2>3 DEF ListMachineLeases, LoseUninstall
  <2> QED
    BY <2>1, <2>2, <2>3
<1>5. \A list \in answer' : list \in answer \/ list \subseteq held
  BY DEF DeliverUninstall, LoseUninstall, ListMachineLeases, ApplySync
<1>6. held \subseteq spent /\ spent \subseteq A!LocalLease
  BY DEF IInv, TypeOK
<1>7. AgentInformed'
  BY <1>1, <1>4, <1>5, <1>6 DEF IInv, AgentInformed, Known
<1>8. TypeOK'
  BY <1>1, <1>2, <1>3, <1>4, <1>5, <1>6 DEF IInv, TypeOK, A!TypeOK
<1>9. Carried
  BY <1>1, StillCarried
<1>10. NoGrant
  BY <1>1 DEF NoGrant, IInv, TypeOK
<1>11. EnsuredStaysUp'
  BY <1>1, <1>9, <1>10, CarriedStaysUp
<1>12. LateOver' /\ OneLateOperation'
  BY <1>1, <1>9, <1>10, CarriedLate
<1> QED
  BY <1>1, <1>7, <1>8, <1>9, <1>10, <1>11, <1>12, CarriedIInv DEF NoGrant

\* The fleet manager starts browsers and stops none; a restart of the agent ends
\* calls and starts afresh.
LEMMA GatewayIInv ==
  ASSUME IInv, RestartAgent \/ \E p \in Profile : ReconcileBrowser(p)
  PROVE  IInv'
<1>1. UNCHANGED <<clock, held, spent, notices, strays, late>>
  BY DEF RestartAgent, ReconcileBrowser, histVars
<1>2. \A s \in Session : sessions'[s] \in {sessions[s], Idle}
  BY DEF RestartAgent, ReconcileBrowser
<1>3. sessions' \in [Session -> SessionState]
  BY DEF RestartAgent, ReconcileBrowser, IInv, TypeOK, SessionState
<1>4. Carried
  BY <1>2, <1>3 DEF Carried, Running
<1>5. /\ healthy' \in [Profile -> BOOLEAN]
      /\ \A p \in Profile : healthy[p] => healthy'[p]
  BY DEF RestartAgent, ReconcileBrowser, IInv, TypeOK
<1>6. /\ installed' \in [{Machine} -> SUBSET A!LocalLease]
      /\ installed'[Machine] \subseteq installed[Machine] /\ answer' \subseteq answer
  BY DEF RestartAgent, ReconcileBrowser, A!RestartAgent, IInv, TypeOK, A!TypeOK
<1>7. AgentInformed'
  BY <1>1, <1>6 DEF IInv, AgentInformed, Known
<1>8. TypeOK'
  BY <1>1, <1>3, <1>5, <1>6 DEF IInv, TypeOK, A!TypeOK
<1>9. NoGrant
  BY <1>1 DEF NoGrant, IInv, TypeOK
<1>10. ASSUME NEW s \in Session, sessions'[s].phase \in {"ready", "calling"}
       PROVE  /\ sessions[s].phase \in {"ready", "calling"}
              /\ healthy[sessions[s].lease.profile] => healthy'[sessions[s].lease.profile]
  <2>1. sessions[s].phase \in {"ready", "calling"} /\ sessions[s] \in SessionState
    BY <1>2, <1>10 DEF Idle, IInv, TypeOK
  <2>2. sessions[s].lease.profile \in Profile
    BY <2>1, SessionShape DEF A!LocalLease
  <2> QED
    BY <1>5, <2>1, <2>2
<1>11. EnsuredStaysUp'
  BY <1>4, <1>9, <1>10, CarriedStaysUp
<1>12. LateOver' /\ OneLateOperation'
  <2>1. \A s \in Session : sessions'[s].phase \in Busy => sessions[s].phase \in Busy
    BY <1>2 DEF Busy, Idle
  <2> QED
    BY <1>1, <1>4, <1>9, <2>1, CarriedLate
<1> QED
  BY <1>1, <1>4, <1>7, <1>8, <1>9, <1>11, <1>12, CarriedIInv DEF NoGrant

\* Time passing.
LEMMA TickIInv ==
  ASSUME IInv, Tick
  PROVE  IInv'
<1>1. UNCHANGED <<held, spent, sessions, notices, installed, answer, healthy, strays, late>>
  BY DEF Tick, agentVars, histVars
<1>2. clock \in 1..MaxClock /\ clock' \in 1..MaxClock /\ clock <= clock'
  BY TtlAssumption DEF Tick, IInv, TypeOK
<1>3. TypeOK'
  BY <1>1, <1>2 DEF IInv, TypeOK, A!TypeOK
<1>4. Carried
  BY <1>1, StillCarried
<1>5. NoGrant
  BY <1>1, <1>2 DEF NoGrant, IInv, TypeOK
<1>6. KeptWhileRunning' /\ EnsuredStaysUp'
  BY <1>1, <1>4, <1>5, CarriedKept, CarriedStaysUp
<1>7. AgentInformed'
  BY <1>1, StillInformed
<1>8. LateOver' /\ OneLateOperation'
  BY <1>1, <1>4, <1>5, CarriedLate
<1> QED
  BY <1>3, <1>4, <1>5, <1>6, <1>7, <1>8, CarriedDistinct DEF IInv

-----------------------------------------------------------------------------
(* Invariance. *)

\* Nothing is granted yet.
LEMMA InitIInv == Init => IInv
<1> SUFFICES ASSUME Init PROVE IInv
  OBVIOUS
<1>1. \A s \in Session : sessions[s] = Idle
  BY DEF Init
<1>2. TypeOK
  BY TtlAssumption DEF Init, A!Init, TypeOK, A!TypeOK, SessionState
<1>3. LeasesDistinct /\ CommandsDistinct /\ AgentInformed
  BY <1>1 DEF Init, A!Init, LeasesDistinct, CommandsDistinct, AgentInformed, Running
<1>4. KeptWhileRunning /\ EnsuredStaysUp
  BY <1>1 DEF KeptWhileRunning, EnsuredStaysUp, Idle
<1>5. LateOver /\ OneLateOperation
  BY DEF Init, LateOver, OneLateOperation
<1> QED
  BY <1>2, <1>3, <1>4, <1>5 DEF IInv

\* Every step keeps the invariant.
LEMMA NextIInv == IInv /\ [Next]_vars => IInv'
<1> SUFFICES ASSUME IInv, [Next]_vars PROVE IInv'
  OBVIOUS
<1>1. CASE UNCHANGED vars
  <2>1. UNCHANGED <<clock, held, spent, sessions, notices, installed, answer, healthy,
                    strays, late>>
    BY <1>1 DEF vars, agentVars, histVars
  <2> QED
    BY <2>1 DEF IInv, TypeOK, A!TypeOK, LeasesDistinct, CommandsDistinct, AgentInformed, Known,
                Running, KeptWhileRunning, EnsuredStaysUp, LateOver, OneLateOperation, Live
<1>2. CASE Next
  BY <1>2, AcquireIInv, AdmitIInv, EnsureIInv, OperateIInv, EndIInv, RevokeIInv, ByHandIInv,
     AgentIInv, GatewayIInv, TickIInv
  DEF Next
<1> QED
  BY <1>1, <1>2

\* The inductive invariant holds in every reachable state.
THEOREM Invariance == Spec => []IInv
BY InitIInv, NextIInv, PTL DEF Spec

\* The variables have their types.
THEOREM TypeCorrect == Spec => []TypeOK
BY Invariance, PTL DEF IInv

\* Only an operator takes the profile from a command within its time.
THEOREM NotRobbed == Spec => []KeptWhileRunning
BY Invariance, PTL DEF IInv

\* A lease that has ended reaches the browser with one operation at most, but for
\* leases an operator meddles with.
THEOREM AtMostOneLate == Spec => []OneLateOperation
BY Invariance, PTL DEF IInv

\* The browser a command has ensured stays up under it, but for operators and
\* operations that were let in before their lease ended.
THEOREM BrowserStays == Spec => []EnsuredStaysUp
BY Invariance, PTL DEF IInv

-----------------------------------------------------------------------------
(* What a step may never do. *)

\* The phases in which an operation is under way are entered through the check.
LEMMA EnteredByValidation ==
  ASSUME IInv, Next, NEW s \in Session,
         sessions'[s].phase \in {"ensuring", "calling"}, sessions[s].phase # sessions'[s].phase
  PROVE  Running(s) /\ Validated(s)
<1>1. sessions \in [Session -> SessionState]
  BY DEF IInv, TypeOK
<1>2. sessions' # sessions
  OBVIOUS
<1>3. PICK t \in Session :
        \/ \E p \in Profile, id \in LeaseId : Acquire(t, p, id)
        \/ InstallLease(t) \/ EnsureRequested(t) \/ EnsureBrowser(t)
        \/ \E op \in {"use", "stop"} : OperationRequested(t, op)
        \/ Operate(t) \/ Release(t) \/ CommandFails(t)
  <2>1. ASSUME RestartAgent PROVE FALSE
    <3>1. sessions'[s] \in {sessions[s], Idle}
      BY <2>1 DEF RestartAgent
    <3> QED
      BY <3>1 DEF Idle
  <2> QED
    BY <1>2, <2>1 DEF Next, EndEarly, InstallByHand, Sweep, DeliverUninstall, LoseUninstall,
         ListMachineLeases, ApplySync, ReconcileBrowser, Tick
<1>4. t = s
  BY <1>1, <1>3 DEF Acquire, InstallLease, EnsureRequested, EnsureBrowser, OperationRequested,
     Operate, Release, CommandFails, SetSession
<1>5. CASE EnsureRequested(t) \/ \E op \in {"use", "stop"} : OperationRequested(t, op)
  BY <1>4, <1>5 DEF EnsureRequested, OperationRequested, Running, Idle
<1>6. CASE InstallLease(t) \/ EnsureBrowser(t)
  <2>1. \E ph \in {"installed", "ready"} : sessions'[t] = [sessions[t] EXCEPT !.phase = ph]
    BY <1>1, <1>6 DEF InstallLease, EnsureBrowser, SetSession
  <2>2. sessions[t].phase \in {"acquired", "ensuring"} /\ sessions[t] \in SessionState
    BY <1>1, <1>6 DEF InstallLease, EnsureBrowser
  <2>3. sessions'[t].phase \in {"installed", "ready"}
    BY <2>1, <2>2, PhaseShape
  <2> QED
    BY <1>4, <2>3
<1>7. CASE \/ \E p \in Profile, id \in LeaseId : Acquire(t, p, id)
           \/ Operate(t) \/ Release(t) \/ CommandFails(t)
  <2>1. sessions'[t].phase \in {"acquired", "done", "idle"}
    BY <1>1, <1>7 DEF Acquire, Operate, Release, CommandFails, SetSession, Idle
  <2> QED
    BY <1>4, <2>1
<1> QED
  BY <1>3, <1>5, <1>6, <1>7

\* The agent lets an operation in only for the holder of the profile, or for a
\* lease an operator has ended or installed by hand, whatever answers of the sync
\* loop and uninstall calls are late or lost.
THEOREM Fenced == Spec => OperationsFenced
<1>1. IInv /\ [Next]_vars =>
        [\A s \in Session :
           sessions'[s].phase \in {"ensuring", "calling"} /\ sessions[s].phase # sessions'[s].phase
             => Live(sessions[s].lease) \/ sessions[s].lease.id \in strays]_vars
  BY EnteredByValidation, ValidatedHolds
<1> QED
  BY <1>1, Invariance, PTL DEF Spec, OperationsFenced
=============================================================================
