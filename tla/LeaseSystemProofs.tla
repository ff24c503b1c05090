------------------------- MODULE LeaseSystemProofs --------------------------
(***************************************************************************)
(* Theorems about LeaseSystem.  Every step of the system is a step of the  *)
(* controller or leaves it alone, so what ControllerProofs shows of it     *)
(* holds here, and the agents inherit it through what they are given.      *)
(***************************************************************************)
EXTENDS LeaseSystem, ControllerProofs

\* What the agent of a machine may be told: a lease on that machine, as some
\* client was given it.
FromGrant(m, c) == \E g \in granted : g.machine = m /\ c = A!LeaseContext(g)

\* A list of leases that names each profile and each id once.
Unambiguous(leases) ==
  \A l1, l2 \in leases : l1.profile = l2.profile \/ l1.id = l2.id => l1 = l2

\* The tables of the agents and the lists on their way to them hold unambiguous
\* sets of granted leases.
Backed(m, leases) == Unambiguous(leases) /\ \A c \in leases : FromGrant(m, c)

\* The lease in the controller's table is g, or g renewed to a later deadline.
HeldAs(g) ==
  \E k \in state.leases :
    /\ k.id = g.id /\ k.profile = g.profile /\ k.machine = g.machine
    /\ g.expires <= k.expires

\* What a client was promised: it holds its lease until the deadline it was given,
\* unless the lease is cut short.
Promised == \A g \in granted : g.id \in curtailed \/ g.expires <= clock \/ HeldAs(g)

\* The inductive invariant.
SysIInv ==
  /\ IInv
  /\ SysTypeOK
  /\ state.leases \subseteq granted
  /\ \A g \in granted : 0 < g.expires
  /\ \A m \in Machine : Backed(m, installed[m]) /\ \A d \in syncing[m] : Backed(m, d)
  /\ Promised

\* The context of a lease, as the agent keeps it.
LEMMA ContextTyped ==
  ASSUME NEW l \in Lease
  PROVE  A!LeaseContext(l) \in A!LocalLease
BY DEF Lease, A!LeaseContext, A!LocalLease

\* The empty system.
LEMMA SysInitIInv == SysInit => SysIInv
<1> SUFFICES ASSUME SysInit PROVE SysIInv
  OBVIOUS
<1>1. IInv
  BY InitIInv DEF SysInit
<1>2. state.leases = {}
  BY DEF SysInit, Init, EmptyState
<1> QED
  BY <1>1, <1>2 DEF SysInit, SysIInv, SysTypeOK, A!Init, A!TypeOK, Backed, Unambiguous, Promised

\* A handler of the controller keeps its promises: a lease whose deadline has not
\* passed stays, with its profile and its machine, or its end is announced; and a
\* renewal to an earlier deadline is counted among the exceptions.
LEMMA ControllerKeepsPromises ==
  ASSUME SysIInv, ControllerStep
  PROVE  Promised'
<1>1. Next
  BY DEF ControllerStep, Next
<1>2. IInv /\ IInv'
  BY <1>1, NextIInv DEF SysIInv
<1>3. /\ granted' = granted \cup state'.leases
      /\ curtailed' = curtailed \cup {l.id : l \in {x \in state.leases : Curtails(x)}}
  BY DEF ControllerStep, Answered
<1>4. \A l \in state.leases : l.expires > clock => StillHeld(l) \/ Announced(l)
  BY <1>1, <1>2, StepEffect DEF NoGrant, GrantStep
<1>5. clock \in Nat /\ clock' \in Nat /\ clock <= clock'
  <2>1. clock' = clock \/ clock' = clock + 1
    BY <1>1 DEF Next, Handlers, RegisterMachine, Heartbeat, ExpireOnRead, Sweep, GetRoute,
               ReleaseLease, RenewLease, AcquireBrowser, QuarantineProfile,
               ReleaseQuarantine, Restart, Tick, NoticeDone
  <2> QED
    BY <1>2, <2>1 DEF IInv, TypeOK
<1>6. /\ \A l \in state.leases : l.expires \in Int
      /\ \A l \in state'.leases : l.expires \in Int
  BY <1>2 DEF IInv, TypeOK, State, Lease
<1>7. ASSUME NEW g \in granted
      PROVE  g.id \in curtailed' \/ g.expires <= clock' \/ HeldAs(g)'
  <2>1. g.expires \in Int
    BY DEF SysIInv, SysTypeOK, Lease
  <2>2. CASE g.id \in curtailed
    BY <1>3, <2>2
  <2>3. CASE g.expires <= clock
    BY <1>5, <2>1, <2>3
  <2>4. ASSUME ~(g.expires <= clock), HeldAs(g)
        PROVE  g.id \in curtailed' \/ HeldAs(g)'
    <3>1. PICK l \in state.leases :
            /\ l.id = g.id /\ l.profile = g.profile /\ l.machine = g.machine
            /\ g.expires <= l.expires
      BY <2>4 DEF HeldAs
    <3>2. l.expires > clock
      BY <1>5, <1>6, <2>1, <2>4, <3>1
    <3>3. CASE Announced(l)
      <4>1. Curtails(l)
        BY <3>2, <3>3 DEF Curtails, Announced
      <4> QED
        BY <1>3, <3>1, <4>1
    <3>4. CASE StillHeld(l)
      <4>1. PICK k \in state'.leases :
              k.id = l.id /\ k.profile = l.profile /\ k.machine = l.machine
        BY <3>4 DEF StillHeld
      <4>2. CASE k.expires < l.expires
        <5>1. Curtails(l)
          BY <3>2, <4>1, <4>2 DEF Curtails
        <5> QED
          BY <1>3, <3>1, <5>1
      <4>3. CASE ~(k.expires < l.expires)
        <5>1. g.expires <= k.expires
          BY <1>6, <2>1, <3>1, <4>3
        <5> QED
          BY <3>1, <4>1, <5>1 DEF HeldAs
      <4> QED
        BY <4>2, <4>3
    <3> QED
      BY <1>4, <3>2, <3>3, <3>4
  <2> QED
    BY <2>2, <2>3, <2>4 DEF SysIInv, Promised
<1>8. ASSUME NEW g \in state'.leases
      PROVE  HeldAs(g)'
  BY <1>6 DEF HeldAs
<1> QED
  BY <1>3, <1>7, <1>8 DEF Promised

\* A handler of the controller: the leases of its new table are granted.
LEMMA ControllerSysIInv ==
  ASSUME SysIInv, ControllerStep
  PROVE  SysIInv'
<1>1. Next
  BY DEF ControllerStep, Next
<1>2. IInv'
  BY <1>1, NextIInv DEF SysIInv
<1>3. /\ granted' = granted \cup state'.leases /\ installed' = installed /\ syncing' = syncing
      /\ curtailed' = curtailed \cup {l.id : l \in {x \in state.leases : Curtails(x)}}
  BY DEF ControllerStep, Answered
<1>4. state'.leases \subseteq Lease /\ \A l \in state'.leases : 0 < l.expires
  BY <1>2 DEF IInv, TypeOK, State
<1>5. SysTypeOK'
  <2>1. \A l \in state.leases : l.id \in LeaseId
    BY DEF SysIInv, IInv, TypeOK, State, Lease
  <2>2. curtailed' \subseteq LeaseId
    BY <1>3, <2>1 DEF SysIInv, SysTypeOK
  <2> QED
    BY <1>3, <1>4, <2>2 DEF SysIInv, SysTypeOK, A!TypeOK
<1>6. \A m \in Machine : Backed(m, installed[m])' /\ \A d \in syncing[m] : Backed(m, d)'
  BY <1>3 DEF SysIInv, Backed, Unambiguous, FromGrant
<1>7. Promised'
  BY ControllerKeepsPromises
<1> QED
  BY <1>2, <1>3, <1>4, <1>5, <1>6, <1>7 DEF SysIInv

\* A step that leaves the controller's tables and the grants alone.
LEMMA AgentSysIInv ==
  ASSUME SysIInv, IInv', state' = state, clock' = clock, granted' = granted,
         curtailed' = curtailed, SysTypeOK',
         \A m \in Machine : Backed(m, installed'[m]) /\ \A d \in syncing'[m] : Backed(m, d)
  PROVE  SysIInv'
<1>1. Promised'
  BY DEF SysIInv, Promised, HeldAs
<1>2. \A m \in Machine : \A c : FromGrant(m, c)' <=> FromGrant(m, c)
  BY DEF FromGrant
<1>3. \A m \in Machine : Backed(m, installed[m])' /\ \A d \in syncing[m]' : Backed(m, d)'
  BY <1>2 DEF Backed, Unambiguous
<1> QED
  BY <1>1, <1>3 DEF SysIInv

\* An install evicts whatever would share the profile or the id with it.
LEMMA InstallSysIInv ==
  ASSUME SysIInv, NEW l \in granted, ClientInstall(l)
  PROVE  SysIInv'
<1> DEFINE c == A!LeaseContext(l)
<1>1. l \in Lease
  BY DEF SysIInv, SysTypeOK
<1>2. c \in A!LocalLease /\ FromGrant(l.machine, c)
  BY <1>1, ContextTyped DEF FromGrant
<1>3. l.machine \in Machine
  BY <1>1 DEF Lease
<1>4. installed \in [Machine -> SUBSET A!LocalLease]
  BY DEF SysIInv, SysTypeOK, A!TypeOK
<1>5. installed' = [installed EXCEPT ![l.machine] =
                      {x \in installed[l.machine] : x.profile # c.profile /\ x.id # c.id}
                        \cup {c}]
  BY DEF ClientInstall, A!InstallLease
<1>6. /\ UNCHANGED vars /\ granted' = granted /\ syncing' = syncing
      /\ curtailed' = curtailed
  BY DEF ClientInstall
<1>7. IInv' /\ state' = state /\ clock' = clock
  BY <1>6, NextIInv DEF SysIInv, vars
<1> HIDE DEF c
<1>8. \A m \in Machine : Backed(m, installed'[m])
  <2> SUFFICES ASSUME NEW m \in Machine PROVE Backed(m, installed'[m])
    OBVIOUS
  <2>1. CASE m = l.machine
    BY <1>2, <1>4, <1>5, <2>1 DEF SysIInv, Backed, Unambiguous
  <2>2. CASE m # l.machine
    BY <1>4, <1>5, <2>2 DEF SysIInv
  <2> QED
    BY <2>1, <2>2
<1>9. SysTypeOK'
  BY <1>2, <1>3, <1>4, <1>5, <1>6 DEF SysIInv, SysTypeOK, A!TypeOK
<1> QED
  BY <1>6, <1>7, <1>8, <1>9, AgentSysIInv DEF SysIInv

\* The end of an uninstall call, delivered or lost.
LEMMA UninstallSysIInv ==
  ASSUME SysIInv, NEW n \in notices, DeliverUninstall(n) \/ LoseUninstall(n)
  PROVE  SysIInv'
<1>1. /\ NoticeDone(n) /\ granted' = granted /\ syncing' = syncing
      /\ curtailed' = curtailed
  BY DEF DeliverUninstall, LoseUninstall
<1>2. IInv' /\ state' = state /\ clock' = clock
  BY <1>1, NextIInv DEF SysIInv, Next, NoticeDone
<1>3. /\ installed \in [Machine -> SUBSET A!LocalLease]
      /\ installed' \in [Machine -> SUBSET A!LocalLease]
      /\ \A m \in Machine : installed'[m] \subseteq installed[m]
  BY DEF DeliverUninstall, LoseUninstall, A!UninstallLease, SysIInv, SysTypeOK, A!TypeOK
<1>4. \A m \in Machine : Backed(m, installed'[m])
  BY <1>3 DEF SysIInv, Backed, Unambiguous
<1>5. SysTypeOK'
  BY <1>1, <1>3 DEF SysIInv, SysTypeOK, A!TypeOK
<1> QED
  BY <1>1, <1>2, <1>4, <1>5, AgentSysIInv DEF SysIInv

\* The answer to ListMachineLeases is unambiguous because the lease table is.
LEMMA ListSysIInv ==
  ASSUME SysIInv, NEW m \in Machine, NEW now, ListMachineLeases(m, now)
  PROVE  SysIInv'
<1> DEFINE live == {x \in state.leases : x.machine = m /\ x.expires > now}
           list == {A!LeaseContext(l) : l \in live}
<1>1. /\ UNCHANGED vars /\ granted' = granted /\ installed' = installed
      /\ curtailed' = curtailed
  BY DEF ListMachineLeases
<1>2. IInv' /\ state' = state /\ clock' = clock
  BY <1>1, NextIInv DEF SysIInv, vars
<1>3. /\ live \subseteq Lease /\ live \subseteq granted /\ live \subseteq state.leases
      /\ \A l \in live : l.machine = m
  BY DEF SysIInv, SysTypeOK
<1>4. syncing' = [syncing EXCEPT ![m] = {list}]
  BY DEF ListMachineLeases
<1> HIDE DEF live
<1>5. list \in SUBSET A!LocalLease
  BY <1>3, ContextTyped
<1>6. Unambiguous(list)
  <2> SUFFICES ASSUME NEW l1 \in live, NEW l2 \in live,
                      \/ A!LeaseContext(l1).profile = A!LeaseContext(l2).profile
                      \/ A!LeaseContext(l1).id = A!LeaseContext(l2).id
               PROVE  A!LeaseContext(l1) = A!LeaseContext(l2)
    BY DEF Unambiguous
  <2>1. l1.profile = l2.profile \/ l1.id = l2.id
    BY DEF A!LeaseContext
  <2>2. l1 = l2
    BY <1>3, <2>1 DEF SysIInv, IInv, ExclusiveLease, Exclusive
  <2> QED
    BY <2>2
<1>7. Backed(m, list)
  BY <1>3, <1>6 DEF Backed, FromGrant
<1> HIDE DEF list
<1>8. \A x \in Machine : \A d \in syncing'[x] : Backed(x, d)
  BY <1>4, <1>7 DEF SysIInv, SysTypeOK
<1>9. SysTypeOK'
  BY <1>1, <1>4, <1>5 DEF SysIInv, SysTypeOK, A!TypeOK
<1> QED
  BY <1>1, <1>2, <1>8, <1>9, AgentSysIInv DEF SysIInv

\* Applying an answer, however old, and losing the table in a restart.
LEMMA SyncSysIInv ==
  ASSUME SysIInv, NEW m \in Machine, ApplySync(m) \/ RestartAgent(m)
  PROVE  SysIInv'
<1>1. /\ UNCHANGED vars /\ granted' = granted /\ curtailed' = curtailed
      /\ syncing' = [syncing EXCEPT ![m] = {}]
  BY DEF ApplySync, RestartAgent
<1>2. IInv' /\ state' = state /\ clock' = clock
  BY <1>1, NextIInv DEF SysIInv, vars
<1>3. PICK table : /\ installed' = [installed EXCEPT ![m] = table]
                   /\ table \in syncing[m] \cup {{}}
  BY DEF ApplySync, RestartAgent, A!SyncLeases, A!RestartAgent
<1>4. Backed(m, table) /\ table \in SUBSET A!LocalLease
  BY <1>3 DEF SysIInv, SysTypeOK, Backed, Unambiguous
<1>5. \A x \in Machine : Backed(x, installed'[x]) /\ \A d \in syncing'[x] : Backed(x, d)
  BY <1>1, <1>3, <1>4 DEF SysIInv, SysTypeOK, A!TypeOK
<1>6. SysTypeOK'
  BY <1>1, <1>3, <1>4 DEF SysIInv, SysTypeOK, A!TypeOK
<1> QED
  BY <1>1, <1>2, <1>5, <1>6, AgentSysIInv

\* Every step keeps the invariant.
LEMMA SysNextIInv == SysIInv /\ [SysNext]_sysVars => SysIInv'
<1> SUFFICES ASSUME SysIInv, [SysNext]_sysVars PROVE SysIInv'
  OBVIOUS
<1>1. CASE UNCHANGED sysVars
  <2>1. IInv' /\ state' = state /\ clock' = clock
    BY <1>1, NextIInv DEF SysIInv, vars, sysVars
  <2>2. /\ granted' = granted /\ installed' = installed /\ syncing' = syncing
        /\ curtailed' = curtailed
    BY <1>1 DEF sysVars
  <2>3. SysTypeOK'
    BY <2>2 DEF SysIInv, SysTypeOK, A!TypeOK
  <2> QED
    BY <2>1, <2>2, <2>3, AgentSysIInv DEF SysIInv
<1>2. CASE SysNext
  BY <1>2, ControllerSysIInv, InstallSysIInv, UninstallSysIInv, ListSysIInv, SyncSysIInv
  DEF SysNext
<1> QED
  BY <1>1, <1>2

\* The invariant holds in every reachable state of the system.
THEOREM SysInvariance == SysSpec => []SysIInv
BY SysInitIInv, SysNextIInv, PTL DEF SysSpec

\* The composed system implements the controller: agents, clients and lost calls
\* take no step that the controller's own specification does not allow, so every
\* theorem about Controller holds in the system.
THEOREM ControllerInside == SysSpec => Spec
<1>1. SysInit => Init
  BY DEF SysInit
<1>2. [SysNext]_sysVars => [Next]_vars
  BY DEF SysNext, sysVars, vars, ControllerStep, ClientInstall, DeliverUninstall, LoseUninstall,
         ListMachineLeases, ApplySync, RestartAgent, Next
<1> QED
  BY <1>1, <1>2, PTL DEF SysSpec, Spec

\* No order of installs, repeated installs, uninstalls, stale sync answers and
\* restarts leaves two leases on one profile installed on a machine.
THEOREM AgentExclusion == SysSpec => []AgentExclusive
<1>1. SysIInv => AgentExclusive
  BY DEF SysIInv, Backed, Unambiguous, AgentExclusive, A!OneLeasePerProfile
<1> QED
  BY <1>1, SysInvariance, PTL

\* The agent lets nobody in after the last deadline the controller gave for the
\* lease, even if every uninstall call is lost.
THEOREM NoAccessBeyondGrant == SysSpec => []AcceptedWithinGrant
<1>1. SysIInv => AcceptedWithinGrant
  <2> SUFFICES ASSUME SysIInv, NEW m \in Machine, NEW l \in granted,
                      A!Accepts(m, l.id, l.profile, clock)
               PROVE  \E g \in granted : g.id = l.id /\ clock < g.expires
    BY DEF AcceptedWithinGrant
  <2>1. PICK c \in installed[m] : c.id = l.id /\ (c.expires > 0 => clock < c.expires)
    BY DEF A!Accepts
  <2>2. PICK g \in granted : c = A!LeaseContext(g)
    BY <2>1 DEF SysIInv, Backed, FromGrant
  <2>3. c.id = g.id /\ c.expires = g.expires /\ 0 < g.expires
    BY <2>2 DEF A!LeaseContext, SysIInv
  <2>4. g.expires \in Int
    BY DEF SysIInv, SysTypeOK, Lease
  <2> QED
    BY <2>1, <2>3, <2>4
<1> QED
  BY <1>1, SysInvariance, PTL

\* Whom an agent lets in holds the lease on the controller, on this profile and
\* machine, unless the lease was cut short: whatever the agent's copy was made
\* from, the controller does not forget the lease before the copy runs out.
THEOREM ServedHolder == SysSpec => []HolderServed
<1>1. SysIInv => HolderServed
  <2> SUFFICES ASSUME SysIInv, NEW m \in Machine, NEW l \in granted,
                      A!Accepts(m, l.id, l.profile, clock), l.id \notin curtailed
               PROVE  \E k \in state.leases :
                        k.id = l.id /\ k.profile = l.profile /\ k.machine = m
    BY DEF HolderServed
  <2>1. PICK c \in installed[m] :
          c.id = l.id /\ c.profile = l.profile /\ (c.expires > 0 => clock < c.expires)
    BY DEF A!Accepts
  <2>2. PICK g \in granted : g.machine = m /\ c = A!LeaseContext(g)
    BY <2>1 DEF SysIInv, Backed, FromGrant
  <2>3. /\ g.id = l.id /\ g.profile = l.profile
        /\ c.expires = g.expires /\ 0 < g.expires /\ g.expires \in Int
    BY <2>1, <2>2 DEF A!LeaseContext, SysIInv, SysTypeOK, Lease
  <2>4. ~(g.expires <= clock)
    <3>1. clock \in Nat
      BY DEF SysIInv, IInv, TypeOK
    <3> QED
      BY <2>1, <2>3, <3>1
  <2>5. HeldAs(g)
    BY <2>3, <2>4 DEF SysIInv, Promised
  <2> QED
    BY <2>2, <2>3, <2>5 DEF HeldAs
<1> QED
  BY <1>1, SysInvariance, PTL

\* Exclusive service across machines: two leases on one profile that are let in at
\* one time, on whatever machines, are one lease on one machine, unless one of them
\* was cut short; moving a profile to another machine does not split it.
ServedOnce ==
  \A m1, m2 \in Machine, l1, l2 \in granted :
    (/\ A!Accepts(m1, l1.id, l1.profile, clock) /\ l1.id \notin curtailed
     /\ A!Accepts(m2, l2.id, l2.profile, clock) /\ l2.id \notin curtailed
     /\ l1.profile = l2.profile)
      => l1.id = l2.id /\ m1 = m2

\* Two clients are never served on one profile at a time: what the controller's
\* table and the agents' copies of it amount to, taken together.
THEOREM ServedExclusively == SysSpec => []ServedOnce
<1>1. SysIInv /\ HolderServed => ServedOnce
  <2> SUFFICES ASSUME SysIInv, HolderServed,
                      NEW m1 \in Machine, NEW m2 \in Machine,
                      NEW l1 \in granted, NEW l2 \in granted,
                      A!Accepts(m1, l1.id, l1.profile, clock), l1.id \notin curtailed,
                      A!Accepts(m2, l2.id, l2.profile, clock), l2.id \notin curtailed,
                      l1.profile = l2.profile
               PROVE  l1.id = l2.id /\ m1 = m2
    BY DEF ServedOnce
  <2>1. PICK k1 \in state.leases : k1.id = l1.id /\ k1.profile = l1.profile /\ k1.machine = m1
    BY DEF HolderServed
  <2>2. PICK k2 \in state.leases : k2.id = l2.id /\ k2.profile = l2.profile /\ k2.machine = m2
    BY DEF HolderServed
  <2>3. k1 = k2
    BY <2>1, <2>2 DEF SysIInv, IInv, ExclusiveLease, Exclusive
  <2> QED
    BY <2>1, <2>2, <2>3
<1> QED
  BY <1>1, SysInvariance, ServedHolder, PTL
=============================================================================
