-------------------------- MODULE ControllerProofs --------------------------
(***************************************************************************)
(* Theorems about Controller, for all machines, profiles, accounts, lease  *)
(* ids, reports and bounds.  The operators on state records come first,    *)
(* one lemma each: applied to a consistent record they give a consistent   *)
(* record.  A handler commits the value of a composition of them.          *)
(***************************************************************************)
EXTENDS Controller, TLAPS

\* What the operators preserve.
Consistent(s) ==
  s \in State /\ Exclusive(s) /\ LeasedWhileHeld(s) /\ AccountsBound(s) /\ Homed(s)

\* Removing leases and freeing their profiles (expiry, sweep) keeps a record
\* consistent: by exclusivity no other lease holds a profile that is freed.
LEMMA FreeLeasesConsistent ==
  ASSUME NEW s, Consistent(s), NEW gone, gone \subseteq s.leases
  PROVE  Consistent(FreeLeases(s, gone))
<1> DEFINE t == FreeLeases(s, gone)
<1>1. t \in State
  BY DEF Consistent, State, FreeLeases, ProfileStatus
<1>2. Exclusive(t)
  BY DEF Consistent, Exclusive, State, FreeLeases
<1>3. LeasedWhileHeld(t)
  BY DEF Consistent, Exclusive, LeasedWhileHeld, HasActiveLease, State, FreeLeases, Lease
<1>4. AccountsBound(t)
  BY DEF Consistent, AccountsBound, State, FreeLeases
<1>5. Homed(t)
  BY DEF Consistent, Homed, State, FreeLeases
<1> QED
  BY <1>1, <1>2, <1>3, <1>4, <1>5 DEF Consistent

\* mark_expired_leases is such a removal.
LEMMA MarkExpiredConsistent ==
  ASSUME NEW s, Consistent(s), NEW now
  PROVE  Consistent(MarkExpiredLeases(s, now))
<1>1. ExpiredLeases(s, now) \subseteq s.leases
  BY DEF ExpiredLeases
<1> QED
  BY <1>1, FreeLeasesConsistent DEF MarkExpiredLeases

\* What a removal leaves alone.
LEMMA FreeLeasesFrame ==
  ASSUME NEW s \in State, NEW gone
  PROVE  /\ FreeLeases(s, gone).leases = s.leases \ gone
         /\ FreeLeases(s, gone).machineStatus = s.machineStatus
BY DEF FreeLeases, State

\* Registering or refreshing a machine never unregisters one.
LEMMA SetMachineConsistent ==
  ASSUME NEW s, Consistent(s), NEW m \in Machine, NEW status \in MachineStatus,
         NEW now \in Nat
  PROVE  /\ Consistent(SetMachine(s, m, status, now))
         /\ SetMachine(s, m, status, now).machineStatus[m] # "Absent"
<1> DEFINE t == SetMachine(s, m, status, now)
<1>1. t \in State
  BY DEF Consistent, State, SetMachine
<1>2. /\ t.leases = s.leases /\ t.profileStatus = s.profileStatus
      /\ t.home = s.home /\ t.accounts = s.accounts /\ t.bindings = s.bindings
      /\ t.machineStatus = [s.machineStatus EXCEPT ![m] = status]
  BY DEF Consistent, State, SetMachine
<1>3. Exclusive(t) /\ LeasedWhileHeld(t) /\ AccountsBound(t)
  BY <1>2 DEF Consistent, Exclusive, LeasedWhileHeld, HasActiveLease, AccountsBound
<1>4. \A x \in Machine : s.machineStatus[x] # "Absent" => t.machineStatus[x] # "Absent"
  BY <1>2 DEF Consistent, State, MachineStatus
<1>5. Homed(t)
  BY <1>2, <1>4 DEF Consistent, Homed, State, Lease
<1>6. t.machineStatus[m] # "Absent"
  BY <1>2 DEF Consistent, State, MachineStatus
<1> QED
  BY <1>1, <1>3, <1>5, <1>6 DEF Consistent

\* Marking silent machines offline neither registers nor unregisters a machine.
LEMMA MarkOfflineConsistent ==
  ASSUME NEW s, Consistent(s), NEW now
  PROVE  /\ Consistent(MarkOffline(s, now))
         /\ MarkOffline(s, now).leases = s.leases
         /\ \A m \in Machine : MarkOffline(s, now).machineStatus[m] # "Absent"
                               <=> s.machineStatus[m] # "Absent"
<1> DEFINE t == MarkOffline(s, now)
<1>1. t \in State
  BY DEF Consistent, State, MarkOffline, MachineStatus
<1>2. /\ t.leases = s.leases /\ t.profileStatus = s.profileStatus
      /\ t.home = s.home /\ t.accounts = s.accounts /\ t.bindings = s.bindings
  BY DEF Consistent, State, MarkOffline
<1>3. Exclusive(t) /\ LeasedWhileHeld(t) /\ AccountsBound(t)
  BY <1>2 DEF Consistent, Exclusive, LeasedWhileHeld, HasActiveLease, AccountsBound
<1>4. \A x \in Machine : t.machineStatus[x] # "Absent" <=> s.machineStatus[x] # "Absent"
  BY DEF Consistent, State, MarkOffline
<1>5. Homed(t)
  BY <1>2, <1>4 DEF Consistent, Homed, State, Lease
<1> QED
  BY <1>1, <1>2, <1>3, <1>4, <1>5 DEF Consistent

\* Granting a lease on a profile that is Available, hence unheld, under an id
\* the table does not hold.
LEMMA GrantLeaseConsistent ==
  ASSUME NEW s, Consistent(s), NEW l \in Lease,
         s.profileStatus[l.profile] = "Available", l.machine = s.home[l.profile],
         \A x \in s.leases : x.id # l.id
  PROVE  Consistent(GrantLease(s, l))
<1> DEFINE t == GrantLease(s, l)
<1>1. t \in State
  BY DEF Consistent, State, GrantLease, ProfileStatus, Lease
<1>2. /\ t.leases = s.leases \cup {l}
      /\ t.profileStatus = [s.profileStatus EXCEPT ![l.profile] = "Leased"]
      /\ t.home = s.home /\ t.accounts = s.accounts /\ t.bindings = s.bindings
      /\ t.machineStatus = s.machineStatus
  BY DEF Consistent, State, GrantLease
<1>3. \A x \in s.leases : x.profile # l.profile
  BY DEF Consistent, State, LeasedWhileHeld, HasActiveLease, Lease
<1>4. Exclusive(t)
  BY <1>2, <1>3 DEF Consistent, Exclusive
<1>5. LeasedWhileHeld(t)
  BY <1>2, <1>3 DEF Consistent, LeasedWhileHeld, HasActiveLease, State, Lease
<1>6. AccountsBound(t) /\ Homed(t)
  BY <1>2 DEF Consistent, AccountsBound, Homed, State, Lease
<1> QED
  BY <1>1, <1>4, <1>5, <1>6 DEF Consistent

\* A report never makes a held profile read anything but Leased, nor an unheld
\* one Leased.
LEMMA ReportedStatusHeld ==
  ASSUME NEW s, Consistent(s), NEW report \in Report
  PROVE  /\ ReportedStatus(s, report) \in ProfileStatus
         /\ ReportedStatus(s, report) = "Leased" <=> HasActiveLease(s, report.profile)
<1> DEFINE p == report.profile
           old == s.profileStatus[p]
<1>1. p \in Profile /\ report.status \in ReportStatus
  BY DEF Report
<1>2. old = "Leased" <=> HasActiveLease(s, p)
  BY <1>1 DEF Consistent, LeasedWhileHeld
<1>3. CASE old \in OperatorOwned
  <2>1. ReportedStatus(s, report) = old
    BY <1>3 DEF ReportedStatus
  <2> QED
    BY <2>1, <1>2, <1>3 DEF OperatorOwned, ProfileStatus
<1>4. CASE old \notin OperatorOwned /\ HasActiveLease(s, p)
  <2>1. ReportedStatus(s, report) = "Leased"
    BY <1>4 DEF ReportedStatus
  <2> QED
    BY <2>1, <1>4 DEF ProfileStatus
<1>5. CASE old \notin OperatorOwned /\ ~HasActiveLease(s, p)
  <2>1. ReportedStatus(s, report) =
          IF report.status = "Unspecified" THEN "Available" ELSE report.status
    BY <1>5 DEF ReportedStatus
  <2> QED
    BY <2>1, <1>1, <1>5 DEF ReportStatus, ProfileStatus
<1> QED
  BY <1>3, <1>4, <1>5

\* The loop over an accepted report keeps a record consistent.  The heart of it
\* is the binding table: an account claimed by the report is claimed once, and
\* its former owner, if any, is a profile of the report.
LEMMA UpsertProfilesConsistent ==
  ASSUME NEW s, Consistent(s), NEW m \in Machine, s.machineStatus[m] # "Absent",
         NEW r \in Reports, AcceptsReport(s, m, r)
  PROVE  /\ Consistent(UpsertProfiles(s, m, r))
         /\ UpsertProfiles(s, m, r).leases = s.leases
         /\ UpsertProfiles(s, m, r).machineStatus = s.machineStatus
<1> DEFINE t == UpsertProfiles(s, m, r)
           reported == {r[i].profile : i \in DOMAIN r}
           of(p) == r[CHOOSE i \in DOMAIN r : r[i].profile = p]
           claims(k) == {i \in DOMAIN r : k \in r[i].accounts}
           claimant(k) == CHOOSE i \in claims(k) : TRUE
<1>1. /\ t.leases = s.leases /\ t.machineStatus = s.machineStatus
      /\ t.heartbeat = s.heartbeat
      /\ t.profileStatus = [p \in Profile |->
           IF p \in reported THEN ReportedStatus(s, of(p)) ELSE s.profileStatus[p]]
      /\ t.home = [p \in Profile |-> IF p \in reported THEN m ELSE s.home[p]]
      /\ t.accounts = [p \in Profile |->
           IF p \in reported THEN of(p).accounts ELSE s.accounts[p]]
      /\ t.bindings = [k \in Account |->
           IF claims(k) # {} THEN r[claimant(k)].profile
           ELSE IF s.bindings[k] \in reported THEN NoProfile ELSE s.bindings[k]]
      /\ DOMAIN t = DOMAIN s
  BY DEF Consistent, State, UpsertProfiles
<1>2. r \in Seq(Report) /\ \A i \in DOMAIN r : r[i] \in Report
  BY ReportAssumption
<1>3. \A i, j \in DOMAIN r : r[i].profile = r[j].profile => i = j
  BY ReportAssumption
<1>4. \A p \in reported : of(p) \in Report /\ of(p).profile = p
  BY <1>2
<1>5. \A i \in DOMAIN r : of(r[i].profile) = r[i]
  BY <1>3
<1>6. ASSUME NEW i \in DOMAIN r, NEW j \in DOMAIN r, NEW k,
             k \in r[i].accounts, k \in r[j].accounts
      PROVE  i = j
  <2>1. DOMAIN r = 1..Len(r) /\ Len(r) \in Nat
    BY <1>2
  <2>2. ~(i < j)
    BY <1>6, <2>1 DEF AcceptsReport, AccountConflict
  <2>3. ~(j < i)
    BY <1>6, <2>1 DEF AcceptsReport, AccountConflict
  <2> QED
    BY <2>1, <2>2, <2>3
<1>7. ASSUME NEW k \in Account, NEW i \in claims(k), s.bindings[k] # NoProfile
      PROVE  s.bindings[k] \in reported
  <2>1. DOMAIN r = 1..Len(r) /\ Len(r) \in Nat
    BY <1>2
  <2>2. \/ s.bindings[k] = r[i].profile
        \/ \E j \in 1..(i - 1) : s.bindings[k] = r[j].profile
    BY <1>7 DEF AcceptsReport, AccountConflict
  <2>3. i \in DOMAIN r /\ \A j \in 1..(i - 1) : j \in DOMAIN r
    BY <2>1
  <2> QED
    BY <2>2, <2>3
<1>7a. ASSUME NEW p \in reported
      PROVE  /\ ReportedStatus(s, of(p)) \in ProfileStatus
             /\ ReportedStatus(s, of(p)) = "Leased" <=> HasActiveLease(s, p)
  <2>1. of(p) \in Report /\ of(p).profile = p
    BY <1>4
  <2> HIDE DEF of
  <2> QED
    BY <2>1, ReportedStatusHeld
<1>8. t \in State
  <2>1. t.profileStatus \in [Profile -> ProfileStatus \cup {"Absent"}]
    <3> HIDE DEF of, reported, claims, claimant
    <3> QED
      BY <1>1, <1>7a DEF Consistent, State
  <2>2. t.home \in [Profile -> Machine \cup {NoMachine}]
    BY <1>1 DEF Consistent, State
  <2>3. t.accounts \in [Profile -> SUBSET Account]
    <3>1. \A p \in reported : of(p).accounts \in SUBSET Account
      BY <1>4 DEF Report
    <3> HIDE DEF of, reported, claims, claimant
    <3> QED
      BY <1>1, <3>1 DEF Consistent, State
  <2>4. t.bindings \in [Account -> Profile \cup {NoProfile}]
    <3>1. ASSUME NEW k \in Account PROVE t.bindings[k] \in Profile \cup {NoProfile}
      <4>1. claims(k) # {} => claimant(k) \in DOMAIN r
        OBVIOUS
      <4>2. claims(k) # {} => r[claimant(k)].profile \in Profile
        BY <4>1, <1>2 DEF Report
      <4> QED
        BY <4>2, <1>1 DEF Consistent, State
    <3> QED
      BY <3>1, <1>1
  <2> QED
    BY <2>1, <2>2, <2>3, <2>4 DEF Consistent, State, UpsertProfiles
<1>9. Exclusive(t)
  BY <1>1 DEF Consistent, Exclusive
<1>10. LeasedWhileHeld(t)
  <2> HIDE DEF of, reported, claims, claimant
  <2>1. \A p \in Profile : HasActiveLease(t, p) <=> HasActiveLease(s, p)
    BY <1>1 DEF HasActiveLease
  <2> QED
    BY <1>1, <1>7a, <2>1 DEF Consistent, LeasedWhileHeld
<1>11. AccountsBound(t)
  <2> SUFFICES ASSUME NEW k \in Account, NEW p \in Profile
               PROVE  t.bindings[k] = p <=> k \in t.accounts[p]
    BY DEF AccountsBound
  <2>1. s.bindings[k] = p <=> k \in s.accounts[p]
    BY DEF Consistent, AccountsBound
  <2>2. p # NoProfile
    BY SentinelAssumption
  <2>3. CASE claims(k) # {}
    <3>1. PICK i \in DOMAIN r : k \in r[i].accounts /\ claimant(k) = i
      BY <2>3
    <3>2. t.bindings[k] = r[i].profile
      BY <1>1, <2>3, <3>1
    <3>3. CASE p \in reported
      <4>1. PICK j \in DOMAIN r : r[j].profile = p
        BY <3>3
      <4>2. t.accounts[p] = r[j].accounts
        BY <1>1, <1>5, <3>3, <4>1
      <4> QED
        BY <1>3, <1>6, <3>1, <3>2, <4>1, <4>2
    <3>4. CASE p \notin reported
      <4>1. t.accounts[p] = s.accounts[p] /\ t.bindings[k] # p
        BY <1>1, <3>2, <3>4
      <4>2. s.bindings[k] # p
        BY <1>7, <2>2, <2>3, <3>4
      <4> QED
        BY <2>1, <4>1, <4>2
    <3> QED
      BY <3>3, <3>4
  <2>4. CASE claims(k) = {}
    <3>1. t.bindings[k] = IF s.bindings[k] \in reported THEN NoProfile ELSE s.bindings[k]
      BY <1>1, <2>4
    <3>2. CASE p \in reported
      <4>1. PICK j \in DOMAIN r : r[j].profile = p
        BY <3>2
      <4>2. t.accounts[p] = r[j].accounts
        BY <1>1, <1>5, <3>2, <4>1
      <4> QED
        BY <2>2, <2>4, <3>1, <3>2, <4>2
    <3>3. CASE p \notin reported
      BY <1>1, <2>1, <2>2, <3>1, <3>3
    <3> QED
      BY <3>2, <3>3
  <2> QED
    BY <2>3, <2>4
<1>12. Homed(t)
  BY <1>1 DEF Consistent, Homed
<1> QED
  BY <1>1, <1>8, <1>9, <1>10, <1>11, <1>12 DEF Consistent

-----------------------------------------------------------------------------
(* The steps. *)

\* A time read before the lock is a positive time not after the clock.
LEMMA LockedNowFact ==
  ASSUME clock \in Nat, NEW now \in LockedNow
  PROVE  now \in Nat /\ now <= clock
BY DEF LockedNow

\* The resolved ttl is a positive number of seconds within the maximum.
LEMMA ResolveTtlBounds ==
  ASSUME NEW ttl \in RequestedTtl
  PROVE  ResolveTtl(ttl) \in Nat /\ 1 <= ResolveTtl(ttl) /\ ResolveTtl(ttl) <= MaxTtl
BY BoundAssumption DEF ResolveTtl

\* The part of IInv that is about the record and its surroundings.
Surrounded(s, ends, ids, time) ==
  /\ \A l \in s.leases : l.id \in ids /\ 0 < l.expires /\ l.expires <= time + MaxTtl
  /\ {m \in Machine : s.machineStatus[m] # "Absent"} \subseteq ends

\* The invariant of Controller, as the lemmas about records take it.
LEMMA IInvSplit ==
  IInv <=> /\ TypeOK /\ DurableState /\ Consistent(state)
           /\ Surrounded(state, endpoints, issued, clock)
BY DEF IInv, TypeOK, DurableState, ExclusiveLease, LeasedIffLease, BindingsMatchAccounts,
       LeaseDeadlineBounded, Consistent, Surrounded

\* The empty controller.
LEMMA InitIInv == Init => IInv
<1> SUFFICES ASSUME Init PROVE IInv
  OBVIOUS
<1>1. EmptyState \in State
  BY DEF EmptyState, State
<1>2. Consistent(EmptyState)
  <2>1. /\ EmptyState.leases = {}
        /\ \A p \in Profile : EmptyState.profileStatus[p] = "Absent"
        /\ \A k \in Account : EmptyState.bindings[k] = NoProfile
        /\ \A p \in Profile : EmptyState.accounts[p] = {}
    BY DEF EmptyState
  <2> QED
    BY <1>1, <2>1, SentinelAssumption
    DEF Consistent, Exclusive, LeasedWhileHeld, HasActiveLease, AccountsBound, Homed
<1>3. Surrounded(EmptyState, {}, {}, 1)
  BY DEF EmptyState, Surrounded
<1> QED
  BY <1>1, <1>2, <1>3, IInvSplit DEF Init, TypeOK, DurableState

\* The sweep's and the readers' removals keep the surroundings.
LEMMA MarkExpiredFacts ==
  ASSUME IInv, NEW now
  PROVE  LET s == MarkExpiredLeases(state, now)
         IN  /\ Consistent(s)
             /\ s.leases \subseteq state.leases
             /\ s.machineStatus = state.machineStatus
             /\ Surrounded(s, endpoints, issued, clock)
<1>1. Consistent(state) /\ state \in State
  BY IInvSplit DEF Consistent
<1>2. Consistent(MarkExpiredLeases(state, now))
  BY <1>1, MarkExpiredConsistent
<1>3. /\ MarkExpiredLeases(state, now).leases = state.leases \ ExpiredLeases(state, now)
      /\ MarkExpiredLeases(state, now).machineStatus = state.machineStatus
  BY <1>1, FreeLeasesFrame DEF MarkExpiredLeases
<1> QED
  BY <1>2, <1>3, IInvSplit DEF Surrounded

\* A step that commits a consistent record, within its surroundings, keeps the
\* invariant.
LEMMA CommitIInv ==
  ASSUME IInv, NEW t, Commit(t), Consistent(t),
         Surrounded(t, endpoints', issued', clock'),
         endpoints' \subseteq Machine, issued' \subseteq LeaseId, clock' \in Nat,
         notices' \subseteq [lease : LeaseId, machine : Machine]
  PROVE  IInv'
<1>1. state' = t /\ disk' = t
  BY DEF Commit
<1>2. TypeOK' /\ DurableState'
  BY <1>1 DEF TypeOK, DurableState, Consistent
<1> QED
  BY <1>1, <1>2 DEF IInv, ExclusiveLease, LeasedIffLease, BindingsMatchAccounts,
       LeaseDeadlineBounded, Consistent, Surrounded

\* The report of a machine, at registration or heartbeat, keeps the invariant.
LEMMA ReportIInv ==
  ASSUME IInv, NEW m \in Machine, NEW status \in MachineStatus, NEW r \in Reports,
         NEW now \in Nat,
         AcceptsReport(SetMachine(MarkExpiredLeases(state, now), m, status, now), m, r),
         Commit(UpsertProfiles(SetMachine(MarkExpiredLeases(state, now), m, status, now), m, r)),
         endpoints' = endpoints \cup {m},
         UNCHANGED <<notices, issued, clock>>
  PROVE  IInv'
<1> DEFINE s == MarkExpiredLeases(state, now)
           u == SetMachine(s, m, status, now)
           t == UpsertProfiles(u, m, r)
<1>1. Consistent(s) /\ Surrounded(s, endpoints, issued, clock)
  BY MarkExpiredFacts
<1>2. Consistent(u) /\ u.machineStatus[m] # "Absent"
  BY <1>1, SetMachineConsistent
<1>3. /\ u.leases = s.leases
      /\ \A x \in Machine : x # m => u.machineStatus[x] = s.machineStatus[x]
  BY <1>1 DEF SetMachine, Consistent, State
<1>4. Consistent(t) /\ t.leases = u.leases /\ t.machineStatus = u.machineStatus
  BY <1>2, UpsertProfilesConsistent
<1>5. Surrounded(t, endpoints', issued', clock')
  BY <1>1, <1>3, <1>4 DEF Surrounded
<1> QED
  BY <1>4, <1>5, CommitIInv DEF IInv, TypeOK

\* Expiry on a read path keeps the invariant.
LEMMA ExpireIInv ==
  ASSUME IInv, NEW now, Commit(MarkExpiredLeases(state, now)),
         UNCHANGED <<endpoints, notices, issued, clock>>
  PROVE  IInv'
BY MarkExpiredFacts, CommitIInv DEF IInv, TypeOK

\* A grant keeps the invariant: the profile is Available and therefore unheld,
\* and the id is fresh.
LEMMA AcquireIInv ==
  ASSUME IInv, NEW key, NEW ttl \in RequestedTtl, NEW id \in LeaseId, NEW now \in LockedNow,
         AcquireBrowser(key, ttl, id, now)
  PROVE  IInv'
<1> DEFINE s == MarkExpiredLeases(state, now)
<1>1. /\ Consistent(s) /\ s.leases \subseteq state.leases
      /\ Surrounded(s, endpoints, issued, clock)
  BY MarkExpiredFacts
<1>2. clock \in Nat /\ now \in Nat /\ now <= clock
  BY LockedNowFact DEF IInv, TypeOK
<1>3. ResolveTtl(ttl) \in Nat /\ 1 <= ResolveTtl(ttl) /\ ResolveTtl(ttl) <= MaxTtl
  BY ResolveTtlBounds
<1>4. PICK p \in Selectable(s, key) :
        Commit(GrantLease(s, [id |-> id, profile |-> p, machine |-> s.home[p],
                              expires |-> now + ResolveTtl(ttl)]))
  BY DEF AcquireBrowser
<1> DEFINE l == [id |-> id, profile |-> p, machine |-> s.home[p],
                 expires |-> now + ResolveTtl(ttl)]
<1>5. p \in Profile /\ s.profileStatus[p] = "Available"
  BY DEF Selectable, ProfileMatches
<1>6. s.home[p] \in Machine
  BY <1>1, <1>5 DEF Consistent, Homed
<1>7. l \in Lease
  BY <1>2, <1>3, <1>5, <1>6 DEF Lease
<1>8. \A x \in s.leases : x.id # id
  BY <1>1 DEF AcquireBrowser, Surrounded
<1>9. Consistent(GrantLease(s, l))
  BY <1>1, <1>5, <1>7, <1>8, GrantLeaseConsistent
<1>10. /\ GrantLease(s, l).leases = s.leases \cup {l}
       /\ GrantLease(s, l).machineStatus = s.machineStatus
  BY <1>1 DEF GrantLease, Consistent, State
<1>11. l.id \in issued' /\ 0 < l.expires /\ l.expires <= clock + MaxTtl
  BY <1>2, <1>3, BoundAssumption DEF AcquireBrowser
<1>12. issued \subseteq issued' /\ UNCHANGED <<endpoints, notices, clock>>
  BY DEF AcquireBrowser
<1>13. Surrounded(GrantLease(s, l), endpoints', issued', clock')
  <2> HIDE DEF s, l
  <2> QED
    BY <1>1, <1>10, <1>11, <1>12 DEF Surrounded
<1>14. issued' \subseteq LeaseId
  BY DEF AcquireBrowser, IInv, TypeOK
<1> QED
  BY <1>4, <1>9, <1>12, <1>13, <1>14, CommitIInv DEF IInv, TypeOK

\* A renewal replaces one lease by the same lease with another deadline.
LEMMA RenewIInv ==
  ASSUME IInv, NEW ttl \in RequestedTtl, NEW id \in LeaseId, NEW now \in LockedNow,
         RenewLease(id, ttl, now)
  PROVE  IInv'
<1> DEFINE s == MarkExpiredLeases(state, now)
<1>1. Consistent(s) /\ Surrounded(s, endpoints, issued, clock)
  BY MarkExpiredFacts
<1>2. clock \in Nat /\ now \in Nat /\ now <= clock
  BY LockedNowFact DEF IInv, TypeOK
<1>3. /\ ResolveTtl(ttl) \in Nat /\ 1 <= ResolveTtl(ttl) /\ ResolveTtl(ttl) <= MaxTtl
      /\ MaxTtl \in Nat
  BY ResolveTtlBounds, BoundAssumption
<1>4. PICK l \in s.leases :
        Commit([s EXCEPT !.leases =
                  (s.leases \ {l}) \cup {[l EXCEPT !.expires = now + ResolveTtl(ttl)]}])
  BY DEF RenewLease
<1> DEFINE n == [l EXCEPT !.expires = now + ResolveTtl(ttl)]
           t == [s EXCEPT !.leases = (s.leases \ {l}) \cup {n}]
<1>5. s \in State /\ l \in Lease
  BY <1>1 DEF Consistent, State
<1>6. /\ n \in Lease /\ n.id = l.id /\ n.profile = l.profile /\ n.machine = l.machine
      /\ n.expires = now + ResolveTtl(ttl)
  <2> HIDE DEF s
  <2> QED
    BY <1>2, <1>3, <1>5 DEF Lease
<1> HIDE DEF s, n
<1>7. /\ t \in State
      /\ t.leases = (s.leases \ {l}) \cup {n} /\ t.machineStatus = s.machineStatus
      /\ t.profileStatus = s.profileStatus /\ t.home = s.home
      /\ t.accounts = s.accounts /\ t.bindings = s.bindings
  BY <1>5, <1>6 DEF State
<1> HIDE DEF t
<1>8. Exclusive(t)
  BY <1>1, <1>6, <1>7 DEF Consistent, Exclusive
<1>9. LeasedWhileHeld(t)
  <2>1. \A p \in Profile : HasActiveLease(t, p) <=> HasActiveLease(s, p)
    BY <1>6, <1>7 DEF HasActiveLease
  <2> QED
    BY <1>1, <1>7, <2>1 DEF Consistent, LeasedWhileHeld
<1>10. AccountsBound(t) /\ Homed(t)
  BY <1>1, <1>6, <1>7 DEF Consistent, AccountsBound, Homed
<1>11. UNCHANGED <<endpoints, notices, issued, clock>>
  BY DEF RenewLease
<1>12. 0 < n.expires /\ n.expires <= clock + MaxTtl
  BY <1>2, <1>3, <1>6
<1>13. Surrounded(t, endpoints', issued', clock')
  BY <1>1, <1>6, <1>7, <1>11, <1>12 DEF Surrounded
<1>14. Commit(t)
  BY <1>4 DEF t, n
<1>15. Consistent(t)
  BY <1>7, <1>8, <1>9, <1>10 DEF Consistent
<1> QED
  BY <1>11, <1>13, <1>14, <1>15, CommitIInv DEF IInv, TypeOK

\* Announcing leases of the table keeps the notices well typed.
LEMMA NoticesTyped ==
  ASSUME IInv, NEW leases, leases \subseteq state.leases, NotifyAgentUninstall(leases)
  PROVE  notices' \subseteq [lease : LeaseId, machine : Machine]
BY DEF NotifyAgentUninstall, IInv, TypeOK, State, Lease

\* Dropping the leases of one profile and giving it a status that is not Leased,
\* as a release and a quarantine do, keeps a record consistent.
LEMMA DropLeasesConsistent ==
  ASSUME NEW s, Consistent(s), NEW p \in Profile, s.profileStatus[p] # "Absent",
         NEW status \in ProfileStatus \ {"Leased"}, NEW t \in State,
         t.leases = {l \in s.leases : l.profile # p},
         t.profileStatus = [s.profileStatus EXCEPT ![p] = status],
         t.machineStatus = s.machineStatus, t.home = s.home,
         t.accounts = s.accounts, t.bindings = s.bindings
  PROVE  Consistent(t)
<1>1. Exclusive(t)
  BY DEF Consistent, Exclusive
<1>2. LeasedWhileHeld(t)
  <2> SUFFICES ASSUME NEW q \in Profile
               PROVE  t.profileStatus[q] = "Leased" <=> HasActiveLease(t, q)
    BY DEF LeasedWhileHeld
  <2>1. s.profileStatus[q] = "Leased" <=> HasActiveLease(s, q)
    BY DEF Consistent, LeasedWhileHeld
  <2>2. t.profileStatus[q] = IF q = p THEN status ELSE s.profileStatus[q]
    BY DEF Consistent, State
  <2>3. HasActiveLease(t, q) <=> q # p /\ HasActiveLease(s, q)
    BY DEF HasActiveLease
  <2> QED
    BY <2>1, <2>2, <2>3
<1>3. AccountsBound(t)
  BY DEF Consistent, AccountsBound
<1>4. Homed(t)
  <2>1. \A q \in Profile : t.profileStatus[q] # "Absent" => s.profileStatus[q] # "Absent"
    BY DEF Consistent, State
  <2> QED
    BY <2>1 DEF Consistent, Homed
<1> QED
  BY <1>1, <1>2, <1>3, <1>4 DEF Consistent

\* A release keeps the invariant: the released lease is the only one on its
\* profile, which may be made Available.
LEMMA ReleaseIInv ==
  ASSUME IInv, NEW id \in LeaseId, NEW now, ReleaseLease(id, now)
  PROVE  IInv'
<1> DEFINE s == MarkExpiredLeases(state, now)
<1>1. /\ Consistent(s) /\ s.leases \subseteq state.leases
      /\ Surrounded(s, endpoints, issued, clock)
  BY MarkExpiredFacts
<1>2. PICK l \in s.leases :
        /\ Commit([s EXCEPT !.leases = s.leases \ {l},
                            !.profileStatus[l.profile] = "Available"])
        /\ NotifyAgentUninstall({l})
  BY DEF ReleaseLease
<1>3. UNCHANGED <<endpoints, issued, clock>>
  BY DEF ReleaseLease
<1> HIDE DEF s
<1>4. l.profile \in Profile /\ s \in State
  BY <1>1 DEF Consistent, State, Lease
<1>5. s.leases \ {l} = {x \in s.leases : x.profile # l.profile}
  BY <1>1 DEF Consistent, Exclusive
<1>6. s.profileStatus[l.profile] # "Absent"
  BY <1>1, <1>4 DEF Consistent, LeasedWhileHeld, HasActiveLease
<1> DEFINE t == [s EXCEPT !.leases = s.leases \ {l},
                          !.profileStatus[l.profile] = "Available"]
<1>7. /\ t \in State /\ t.leases = {x \in s.leases : x.profile # l.profile}
      /\ t.profileStatus = [s.profileStatus EXCEPT ![l.profile] = "Available"]
      /\ t.machineStatus = s.machineStatus /\ t.home = s.home
      /\ t.accounts = s.accounts /\ t.bindings = s.bindings
  BY <1>4, <1>5 DEF State, ProfileStatus
<1>8. Consistent(t)
  <2> HIDE DEF t
  <2>1. "Available" \in ProfileStatus \ {"Leased"}
    BY DEF ProfileStatus
  <2> QED
    BY <1>1, <1>4, <1>6, <1>7, <2>1, DropLeasesConsistent
<1>9. Commit(t)
  BY <1>2
<1>10. Surrounded(t, endpoints', issued', clock')
  <2> HIDE DEF t
  <2> QED
    BY <1>1, <1>3, <1>7 DEF Surrounded
<1>11. notices' \subseteq [lease : LeaseId, machine : Machine]
  BY <1>1, <1>2, NoticesTyped
<1> HIDE DEF t
<1> QED
  BY <1>3, <1>8, <1>9, <1>10, <1>11, CommitIInv DEF IInv, TypeOK

\* A quarantine keeps the invariant: the evicted leases are all on the profile.
LEMMA QuarantineIInv ==
  ASSUME IInv, NEW p \in Profile, NEW now, QuarantineProfile(p, now)
  PROVE  IInv'
<1> DEFINE s == MarkExpiredLeases(state, now)
           evicted == {l \in s.leases : l.profile = p}
           t == [s EXCEPT !.profileStatus[p] = "Quarantined", !.leases = s.leases \ evicted]
<1>1. /\ Consistent(s) /\ s.leases \subseteq state.leases
      /\ Surrounded(s, endpoints, issued, clock)
  BY MarkExpiredFacts
<1>2. /\ s.profileStatus[p] # "Absent" /\ Commit(t) /\ NotifyAgentUninstall(evicted)
      /\ UNCHANGED <<endpoints, issued, clock>>
  BY DEF QuarantineProfile
<1> HIDE DEF s
<1>3. s \in State
  BY <1>1 DEF Consistent
<1>4. /\ t \in State /\ t.leases = {x \in s.leases : x.profile # p}
      /\ t.profileStatus = [s.profileStatus EXCEPT ![p] = "Quarantined"]
      /\ t.machineStatus = s.machineStatus /\ t.home = s.home
      /\ t.accounts = s.accounts /\ t.bindings = s.bindings
  BY <1>3 DEF State, ProfileStatus
<1>5. notices' \subseteq [lease : LeaseId, machine : Machine]
  <2>1. evicted \subseteq state.leases
    BY <1>1
  <2> HIDE DEF evicted
  <2> QED
    BY <1>2, <2>1, NoticesTyped
<1> HIDE DEF t, evicted
<1>6. "Quarantined" \in ProfileStatus \ {"Leased"}
  BY DEF ProfileStatus
<1>7. Consistent(t)
  BY <1>1, <1>2, <1>4, <1>6, DropLeasesConsistent
<1>8. Surrounded(t, endpoints', issued', clock')
  BY <1>1, <1>2, <1>4 DEF Surrounded
<1> QED
  BY <1>2, <1>5, <1>7, <1>8, CommitIInv DEF IInv, TypeOK

\* The end of a quarantine keeps the invariant: no lease is left on the profile.
LEMMA ReleaseQuarantineIInv ==
  ASSUME IInv, NEW p \in Profile, ReleaseQuarantine(p)
  PROVE  IInv'
<1> DEFINE t == [state EXCEPT !.profileStatus[p] = "Available"]
<1>1. /\ Consistent(state) /\ state \in State
      /\ Surrounded(state, endpoints, issued, clock)
  BY IInvSplit DEF Consistent
<1>2. /\ state.profileStatus[p] = "Quarantined" /\ Commit(t)
      /\ UNCHANGED <<endpoints, notices, issued, clock>>
  BY DEF ReleaseQuarantine
<1>3. \A l \in state.leases : l.profile # p
  BY <1>1, <1>2 DEF Consistent, LeasedWhileHeld, HasActiveLease
<1>4. /\ t \in State /\ t.leases = {x \in state.leases : x.profile # p}
      /\ t.profileStatus = [state.profileStatus EXCEPT ![p] = "Available"]
      /\ t.machineStatus = state.machineStatus /\ t.home = state.home
      /\ t.accounts = state.accounts /\ t.bindings = state.bindings
  BY <1>1, <1>3 DEF State, ProfileStatus
<1> HIDE DEF t
<1>5. "Available" \in ProfileStatus \ {"Leased"}
  BY DEF ProfileStatus
<1>6. Consistent(t)
  BY <1>1, <1>2, <1>4, <1>5, DropLeasesConsistent
<1>7. Surrounded(t, endpoints', issued', clock')
  BY <1>1, <1>2, <1>4 DEF Surrounded
<1> QED
  BY <1>2, <1>6, <1>7, CommitIInv DEF IInv, TypeOK

\* A pass of the sweep keeps the invariant.
LEMMA SweepIInv ==
  ASSUME IInv, NEW now, Sweep(now)
  PROVE  IInv'
<1> DEFINE s == MarkOffline(state, now)
           revoked == SweptLeases(s, now)
           t == FreeLeases(s, revoked)
<1>1. Consistent(state) /\ Surrounded(state, endpoints, issued, clock)
  BY IInvSplit
<1>2. /\ Consistent(s) /\ s.leases = state.leases
      /\ \A m \in Machine : s.machineStatus[m] # "Absent"
                            <=> state.machineStatus[m] # "Absent"
  BY <1>1, MarkOfflineConsistent
<1>3. revoked \subseteq s.leases
  BY DEF SweptLeases, ExpiredLeases
<1>4. /\ Commit(t) /\ NotifyAgentUninstall(revoked)
      /\ UNCHANGED <<endpoints, issued, clock>>
  BY DEF Sweep
<1> HIDE DEF s, revoked
<1>5. Consistent(t)
  BY <1>2, <1>3, FreeLeasesConsistent
<1>6. t.leases = s.leases \ revoked /\ t.machineStatus = s.machineStatus
  BY <1>2, FreeLeasesFrame DEF Consistent
<1> HIDE DEF t
<1>7. Surrounded(t, endpoints', issued', clock')
  BY <1>1, <1>2, <1>4, <1>6 DEF Surrounded
<1>8. notices' \subseteq [lease : LeaseId, machine : Machine]
  BY <1>2, <1>3, <1>4, NoticesTyped
<1> QED
  BY <1>4, <1>5, <1>7, <1>8, CommitIInv DEF IInv, TypeOK

\* A restart keeps the invariant: what it loads is what was in memory.
LEMMA RestartIInv ==
  ASSUME IInv, Restart
  PROVE  IInv'
<1>1. state' = state /\ disk' = disk /\ disk = state
  BY DEF Restart, IInv, DurableState
<1>2. endpoints' = {m \in Machine : state.machineStatus[m] # "Absent"}
  BY <1>1 DEF Restart
<1>3. notices' = {} /\ issued' = issued /\ clock' = clock
  BY DEF Restart
<1>4. Commit(state)
  BY <1>1 DEF Commit
<1>5. Consistent(state) /\ Surrounded(state, endpoints, issued, clock)
  BY IInvSplit
<1>6. Surrounded(state, endpoints', issued', clock')
  BY <1>2, <1>3, <1>5 DEF Surrounded
<1>7. endpoints' \subseteq Machine
  BY <1>2
<1> QED
  BY <1>3, <1>4, <1>5, <1>6, <1>7, CommitIInv DEF IInv, TypeOK

\* Time passing and the end of a spawned call keep the invariant.
LEMMA QuietIInv ==
  ASSUME IInv, Tick \/ \E n \in notices : NoticeDone(n)
  PROVE  IInv'
<1>1. /\ state' = state /\ disk' = disk /\ endpoints' = endpoints /\ issued' = issued
      /\ notices' \subseteq notices
      /\ clock' \in Nat /\ clock <= clock'
  BY DEF Tick, NoticeDone, IInv, TypeOK
<1>2. Commit(state)
  BY <1>1 DEF Commit, IInv, DurableState
<1>3. Consistent(state) /\ Surrounded(state, endpoints, issued, clock)
  BY IInvSplit
<1>4. \A l \in state.leases : l.expires \in Int
  BY <1>3 DEF Consistent, State, Lease
<1>5. \A l \in state.leases : l.expires <= clock' + MaxTtl
  BY <1>1, <1>3, <1>4, BoundAssumption DEF Surrounded, IInv, TypeOK
<1>6. Surrounded(state, endpoints', issued', clock')
  BY <1>1, <1>3, <1>5 DEF Surrounded
<1> QED
  BY <1>1, <1>2, <1>3, <1>6, CommitIInv DEF IInv, TypeOK

\* Every step keeps the invariant.
LEMMA NextIInv == IInv /\ [Next]_vars => IInv'
<1> SUFFICES ASSUME IInv, [Next]_vars PROVE IInv'
  OBVIOUS
<1>1. ASSUME NEW m \in Machine, NEW status \in MachineReports, NEW r \in Reports,
             NEW now \in LockedNow, RegisterMachine(m, status, r, now)
      PROVE  IInv'
  <2>1. (IF status = "Unspecified" THEN "Online" ELSE status) \in MachineStatus
    BY BoundAssumption DEF MachineStatus
  <2>2. now \in Nat
    BY LockedNowFact DEF IInv, TypeOK
  <2> QED
    BY <1>1, <2>1, <2>2, ReportIInv DEF RegisterMachine
<1>2. ASSUME NEW m \in Machine, NEW status \in MachineReports, NEW r \in Reports,
             Heartbeat(m, status, r)
      PROVE  IInv'
  <2>1. status \in MachineStatus /\ clock \in Nat
    BY BoundAssumption DEF IInv, TypeOK
  <2> QED
    BY <1>2, <2>1, ReportIInv DEF Heartbeat
<1>3. ASSUME NEW now \in LockedNow, ExpireOnRead(now)
      PROVE  IInv'
  BY <1>3, ExpireIInv DEF ExpireOnRead
<1>4. ASSUME NEW now \in LockedNow, NEW id \in LeaseId, GetRoute(id, now)
      PROVE  IInv'
  BY <1>4, ExpireIInv DEF GetRoute
<1>5. ASSUME NEW now \in LockedNow, NEW id \in LeaseId, NEW ttl \in RequestedTtl,
             RenewLease(id, ttl, now) \/ \E key : AcquireBrowser(key, ttl, id, now)
      PROVE  IInv'
  BY <1>5, RenewIInv, AcquireIInv
<1>6. ASSUME UNCHANGED vars
      PROVE  IInv'
  BY <1>6 DEF vars, IInv, TypeOK, DurableState, ExclusiveLease, LeasedIffLease,
              BindingsMatchAccounts, LeaseDeadlineBounded
<1> QED
  BY <1>1, <1>2, <1>3, <1>4, <1>5, <1>6, ReleaseIInv, QuarantineIInv,
     ReleaseQuarantineIInv, SweepIInv, RestartIInv, QuietIInv
  DEF Next, Handlers

\* The invariant holds in every reachable state.
THEOREM Invariance == Spec => []IInv
BY InitIInv, NextIInv, PTL DEF Spec

\* Type correctness of the controller.
THEOREM TypeCorrect == Spec => []TypeOK
BY Invariance, PTL DEF IInv

\* Leases are exclusive: acquire_browser never hands a profile that is held to a
\* second client, whatever the interleaving of handlers, sweeps and restarts.
THEOREM LeaseExclusion == Spec => []ExclusiveLease
BY Invariance, PTL DEF IInv

\* The profile status and the lease table never disagree.
THEOREM StatusAgreement == Spec => []LeasedIffLease
BY Invariance, PTL DEF IInv

\* The account bindings are those of the registered profiles, each account with
\* one owner, although reports rebind accounts in the middle of the loop.
THEOREM BindingAgreement == Spec => []BindingsMatchAccounts
BY Invariance, PTL DEF IInv

\* Memory and disk agree between handlers.
THEOREM Durability == Spec => []DurableState
BY Invariance, PTL DEF IInv

\* The machine of a lease is in the network directory.
THEOREM Routability == Spec => []LeasesRoutable
<1>1. IInv => LeasesRoutable
  BY DEF IInv, TypeOK, State, Lease, Homed, LeasesRoutable
<1> QED
  BY <1>1, Invariance, PTL

\* No lease outlives the maximal ttl, whatever was asked for.
THEOREM DeadlineBound == Spec => []LeaseDeadlineBounded
BY Invariance, PTL DEF IInv

\* In a consistent record the two readers of a binding agree: Available excludes
\* a lease, so lookup_browser_connection sees what acquire_browser would do.
LEMMA LookupAgrees ==
  ASSUME NEW s, Consistent(s), NEW key \in Account,
         NEW answer \in LookupBrowserConnection(s, key)
  PROVE  /\ answer.profile \in Profile /\ answer.machine = s.home[answer.profile]
         /\ answer.available <=> answer.profile \in Selectable(s, key)
         /\ answer.available => answer.held = {}
<1>1. PICK p \in Profile :
        /\ s.bindings[key] = p /\ key \in s.accounts[p]
        /\ answer = [profile |-> p, machine |-> s.home[p],
                     available |-> s.profileStatus[p] = "Available",
                     held |-> {l.id : l \in {x \in s.leases : x.profile = p}}]
  BY DEF LookupBrowserConnection, ProfileMatches
<1>2. answer.profile = p /\ answer.machine = s.home[p]
  BY <1>1
<1>3. answer.available <=> s.profileStatus[p] = "Available"
  BY <1>1
<1>4. answer.held = {l.id : l \in {x \in s.leases : x.profile = p}}
  BY <1>1
<1>5. s.profileStatus[p] = "Available" => ~HasActiveLease(s, p)
  BY DEF Consistent, LeasedWhileHeld
<1>6. p \in Selectable(s, key) <=> s.profileStatus[p] = "Available"
  BY <1>1, <1>5 DEF Selectable, ProfileMatches
<1>7. ~HasActiveLease(s, p) => {x \in s.leases : x.profile = p} = {}
  BY DEF HasActiveLease
<1> QED
  BY <1>2, <1>3, <1>4, <1>5, <1>6, <1>7

\* What a lookup tells a client is what an acquisition would do, and its route
\* hint can be followed.
THEOREM TruthfulLookup == Spec => []LookupTruthful
<1>1. IInv => LookupTruthful
  <2> SUFFICES ASSUME IInv, NEW key \in Account, NEW now \in LockedNow,
                      NEW answer \in LookupBrowserConnection(MarkExpiredLeases(state, now), key)
               PROVE  LET s == MarkExpiredLeases(state, now)
                      IN  /\ answer.available <=> answer.profile \in Selectable(s, key)
                          /\ answer.available => answer.held = {}
                          /\ s.profileStatus[answer.profile] # "Absent"
                               => answer.machine \in endpoints
    BY DEF LookupTruthful
  <2> DEFINE s == MarkExpiredLeases(state, now)
  <2>1. Consistent(s) /\ Surrounded(s, endpoints, issued, clock)
    BY MarkExpiredFacts
  <2> HIDE DEF s
  <2>2. /\ answer.profile \in Profile /\ answer.machine = s.home[answer.profile]
        /\ answer.available <=> answer.profile \in Selectable(s, key)
        /\ answer.available => answer.held = {}
    BY <2>1, LookupAgrees DEF s
  <2>3. s.profileStatus[answer.profile] # "Absent" => answer.machine \in endpoints
    BY <2>1, <2>2 DEF Consistent, Homed, Surrounded
  <2> QED
    BY <2>2, <2>3 DEF s
<1> QED
  BY <1>1, Invariance, PTL

-----------------------------------------------------------------------------
(* What a step may do to the lease table and to quarantined profiles. *)

Pairs(s) == {<<l.profile, l.id>> : l \in s.leases}

Announced(l) == [lease |-> l.id, machine |-> l.machine] \in notices'

QuarantineKept(s, t) ==
  \A p \in Profile : s.profileStatus[p] = "Quarantined" => t.profileStatus[p] = "Quarantined"

\* After the step, l is still held: under its id, on its profile and machine.
StillHeld(l) ==
  \E k \in state'.leases : k.id = l.id /\ k.profile = l.profile /\ k.machine = l.machine

\* A step that grants nothing: holders may go, but one whose deadline has not
\* passed goes with an announcement.
NoGrant ==
  /\ issued' = issued
  /\ Pairs(state') \subseteq Pairs(state)
  /\ \A l \in state.leases : l.expires > clock => StillHeld(l) \/ Announced(l)

\* Expiry at a time that is not ahead of the clock keeps every lease whose
\* deadline has not passed, and every quarantine.
LEMMA MarkExpiredEffect ==
  ASSUME IInv, NEW now \in Nat, now <= clock
  PROVE  LET s == MarkExpiredLeases(state, now)
         IN  /\ s \in State
             /\ s.leases \subseteq state.leases
             /\ \A l \in state.leases : l.expires > clock => l \in s.leases
             /\ QuarantineKept(state, s)
<1> DEFINE s == MarkExpiredLeases(state, now)
<1>1. state \in State /\ clock \in Nat
  BY DEF IInv, TypeOK
<1>2. s \in State /\ s.leases = state.leases \ ExpiredLeases(state, now)
  BY <1>1, MarkExpiredFacts, FreeLeasesFrame DEF Consistent, MarkExpiredLeases
<1>3. \A l \in state.leases : l.expires > clock => l \in s.leases
  <2>1. \A l \in state.leases : l.expires \in Int
    BY <1>1 DEF State, Lease
  <2> QED
    BY <1>1, <1>2, <2>1 DEF ExpiredLeases
<1>4. QuarantineKept(state, s)
  BY <1>1 DEF QuarantineKept, MarkExpiredLeases, FreeLeases, State
<1> QED
  BY <1>2, <1>3, <1>4

\* A report changes no lease and ends no quarantine.
LEMMA ReportEffect ==
  ASSUME NEW s \in State, NEW m, NEW status, NEW now, NEW r \in Reports,
         SetMachine(s, m, status, now) \in State
  PROVE  LET t == UpsertProfiles(SetMachine(s, m, status, now), m, r)
         IN  t.leases = s.leases /\ QuarantineKept(s, t)
<1> DEFINE u == SetMachine(s, m, status, now)
           t == UpsertProfiles(u, m, r)
           reported == {r[i].profile : i \in DOMAIN r}
           of(p) == r[CHOOSE i \in DOMAIN r : r[i].profile = p]
<1>1. u.leases = s.leases /\ u.profileStatus = s.profileStatus
  BY DEF SetMachine, State
<1> HIDE DEF u
<1>2. /\ t.leases = u.leases
      /\ t.profileStatus = [p \in Profile |->
           IF p \in reported THEN ReportedStatus(u, of(p)) ELSE u.profileStatus[p]]
  BY DEF UpsertProfiles, State, u
<1>3. \A p \in reported : of(p).profile = p
  OBVIOUS
<1> HIDE DEF t, reported, of
<1>4. ASSUME NEW p \in reported, u.profileStatus[p] = "Quarantined"
      PROVE  ReportedStatus(u, of(p)) = "Quarantined"
  BY <1>3, <1>4 DEF ReportedStatus, OperatorOwned
<1>5. QuarantineKept(s, t)
  BY <1>1, <1>2, <1>4 DEF QuarantineKept
<1> QED
  BY <1>1, <1>2, <1>5 DEF t, u

\* Keeping the lease records that have not run out is enough for NoGrant.
LEMMA SubsetNoGrant ==
  ASSUME issued' = issued, state'.leases \subseteq state.leases,
         \A l \in state.leases : l.expires > clock => l \in state'.leases \/ Announced(l)
  PROVE  NoGrant
BY DEF NoGrant, Pairs, StillHeld

\* Registration and heartbeat.
LEMMA RegisterEffect ==
  ASSUME IInv, NEW m \in Machine, NEW status \in MachineStatus, NEW r \in Reports,
         NEW now \in Nat, now <= clock,
         Commit(UpsertProfiles(SetMachine(MarkExpiredLeases(state, now), m, status, now), m, r)),
         UNCHANGED issued
  PROVE  NoGrant /\ QuarantineKept(state, state')
<1> DEFINE s == MarkExpiredLeases(state, now)
           t == UpsertProfiles(SetMachine(s, m, status, now), m, r)
<1>1. /\ Consistent(s) /\ s \in State /\ s.leases \subseteq state.leases
      /\ \A l \in state.leases : l.expires > clock => l \in s.leases
      /\ QuarantineKept(state, s)
  BY MarkExpiredEffect, MarkExpiredFacts
<1>2. SetMachine(s, m, status, now) \in State
  BY <1>1, SetMachineConsistent DEF Consistent
<1>3. t.leases = s.leases /\ QuarantineKept(s, t)
  BY <1>1, <1>2, ReportEffect
<1>4. state' = t
  BY DEF Commit
<1> HIDE DEF s, t
<1>5. NoGrant
  BY <1>1, <1>3, <1>4, SubsetNoGrant
<1>6. QuarantineKept(state, state')
  BY <1>1, <1>3, <1>4 DEF QuarantineKept
<1> QED
  BY <1>5, <1>6

\* Reads that expire leases.
LEMMA ExpireEffect ==
  ASSUME IInv, NEW now \in Nat, now <= clock,
         Commit(MarkExpiredLeases(state, now)), UNCHANGED issued
  PROVE  NoGrant /\ QuarantineKept(state, state')
BY MarkExpiredEffect, SubsetNoGrant DEF Commit

\* A renewal: the lease keeps its profile and its id.
LEMMA RenewEffect ==
  ASSUME IInv, NEW id \in LeaseId, NEW ttl, NEW now \in Nat, now <= clock,
         RenewLease(id, ttl, now)
  PROVE  NoGrant /\ QuarantineKept(state, state')
<1> DEFINE s == MarkExpiredLeases(state, now)
<1>1. /\ s \in State /\ s.leases \subseteq state.leases
      /\ \A l \in state.leases : l.expires > clock => l \in s.leases
      /\ QuarantineKept(state, s)
  BY MarkExpiredEffect
<1>2. PICK l \in s.leases :
        Commit([s EXCEPT !.leases =
                  (s.leases \ {l}) \cup {[l EXCEPT !.expires = now + ResolveTtl(ttl)]}])
  BY DEF RenewLease
<1> DEFINE n == [l EXCEPT !.expires = now + ResolveTtl(ttl)]
<1> HIDE DEF s
<1>3. n.id = l.id /\ n.profile = l.profile /\ n.machine = l.machine
  BY <1>1 DEF State, Lease
<1>4. state'.leases = (s.leases \ {l}) \cup {n} /\ state'.profileStatus = s.profileStatus
  BY <1>1, <1>2 DEF Commit, State
<1> HIDE DEF n
<1>5. Pairs(state') \subseteq Pairs(state)
  BY <1>1, <1>3, <1>4 DEF Pairs
<1>6. \A x \in s.leases : StillHeld(x)
  BY <1>3, <1>4 DEF StillHeld
<1>7. issued' = issued
  BY DEF RenewLease
<1>8. QuarantineKept(state, state')
  BY <1>1, <1>4 DEF QuarantineKept
<1> QED
  BY <1>1, <1>5, <1>6, <1>7, <1>8 DEF NoGrant

\* A release announces the lease it takes.  Its profile was Leased, hence not
\* quarantined.
LEMMA ReleaseEffect ==
  ASSUME IInv, NEW id \in LeaseId, NEW now \in Nat, now <= clock, ReleaseLease(id, now)
  PROVE  NoGrant /\ QuarantineKept(state, state')
<1> DEFINE s == MarkExpiredLeases(state, now)
<1>1. /\ s \in State /\ s.leases \subseteq state.leases /\ Consistent(s)
      /\ \A l \in state.leases : l.expires > clock => l \in s.leases
      /\ QuarantineKept(state, s)
  BY MarkExpiredEffect, MarkExpiredFacts
<1>2. PICK l \in s.leases :
        /\ Commit([s EXCEPT !.leases = s.leases \ {l},
                            !.profileStatus[l.profile] = "Available"])
        /\ NotifyAgentUninstall({l})
  BY DEF ReleaseLease
<1> HIDE DEF s
<1>3. /\ state'.leases = s.leases \ {l}
      /\ state'.profileStatus = [s.profileStatus EXCEPT ![l.profile] = "Available"]
  BY <1>1, <1>2 DEF Commit, State
<1>4. Announced(l)
  BY <1>2 DEF NotifyAgentUninstall, Announced
<1>5. issued' = issued
  BY DEF ReleaseLease
<1>6. NoGrant
  BY <1>1, <1>3, <1>4, <1>5, SubsetNoGrant
<1>7. s.profileStatus[l.profile] = "Leased" /\ l.profile \in Profile
  BY <1>1 DEF Consistent, LeasedWhileHeld, HasActiveLease, State, Lease
<1>8. QuarantineKept(state, state')
  BY <1>1, <1>3, <1>7 DEF QuarantineKept, State
<1> QED
  BY <1>6, <1>8

\* A quarantine announces the leases it evicts.
LEMMA QuarantineEffect ==
  ASSUME IInv, NEW p \in Profile, NEW now \in Nat, now <= clock, QuarantineProfile(p, now)
  PROVE  NoGrant /\ QuarantineKept(state, state')
<1> DEFINE s == MarkExpiredLeases(state, now)
           evicted == {l \in s.leases : l.profile = p}
<1>1. /\ s \in State /\ s.leases \subseteq state.leases
      /\ \A l \in state.leases : l.expires > clock => l \in s.leases
      /\ QuarantineKept(state, s)
  BY MarkExpiredEffect
<1>2. /\ Commit([s EXCEPT !.profileStatus[p] = "Quarantined", !.leases = s.leases \ evicted])
      /\ NotifyAgentUninstall(evicted) /\ issued' = issued
  BY DEF QuarantineProfile
<1> HIDE DEF s, evicted
<1>3. /\ state'.leases = s.leases \ evicted
      /\ state'.profileStatus = [s.profileStatus EXCEPT ![p] = "Quarantined"]
  BY <1>1, <1>2 DEF Commit, State
<1>4. \A l \in evicted : Announced(l)
  BY <1>2 DEF NotifyAgentUninstall, Announced
<1>5. NoGrant
  BY <1>1, <1>2, <1>3, <1>4, SubsetNoGrant
<1>6. QuarantineKept(state, state')
  BY <1>1, <1>3 DEF QuarantineKept, State
<1> QED
  BY <1>5, <1>6

\* Ending the quarantine of one profile touches no lease and no other profile.
LEMMA ReleaseQuarantineEffect ==
  ASSUME IInv, NEW p \in Profile, ReleaseQuarantine(p)
  PROVE  /\ NoGrant
         /\ \A q \in Profile : q # p => state'.profileStatus[q] = state.profileStatus[q]
<1>1. state \in State
  BY DEF IInv, TypeOK
<1>2. /\ state'.leases = state.leases
      /\ state'.profileStatus = [state.profileStatus EXCEPT ![p] = "Available"]
  BY <1>1 DEF ReleaseQuarantine, Commit, State
<1>3. issued' = issued
  BY DEF ReleaseQuarantine
<1>4. NoGrant
  BY <1>2, <1>3, SubsetNoGrant
<1> QED
  BY <1>1, <1>2, <1>4 DEF State

\* The sweep announces every lease it takes.
LEMMA SweepEffect ==
  ASSUME IInv, NEW now, Sweep(now)
  PROVE  NoGrant /\ QuarantineKept(state, state')
<1> DEFINE s == MarkOffline(state, now)
           revoked == SweptLeases(s, now)
<1>1. state \in State
  BY DEF IInv, TypeOK
<1>2. s \in State /\ s.leases = state.leases /\ s.profileStatus = state.profileStatus
  BY <1>1 DEF MarkOffline, State, MachineStatus
<1>3. Commit(FreeLeases(s, revoked)) /\ NotifyAgentUninstall(revoked) /\ issued' = issued
  BY DEF Sweep
<1> HIDE DEF s, revoked
<1>4. state'.leases = s.leases \ revoked /\ QuarantineKept(s, state')
  BY <1>2, <1>3 DEF Commit, FreeLeases, QuarantineKept, State
<1>5. \A l \in revoked : Announced(l)
  BY <1>3 DEF NotifyAgentUninstall, Announced
<1>6. NoGrant
  BY <1>2, <1>3, <1>4, <1>5, SubsetNoGrant
<1> QED
  BY <1>2, <1>4, <1>6 DEF QuarantineKept

\* A grant: one profile without a holder gets one, under a fresh id.
LEMMA AcquireEffect ==
  ASSUME IInv, NEW key, NEW ttl \in RequestedTtl, NEW id \in LeaseId, NEW now \in LockedNow,
         AcquireBrowser(key, ttl, id, now)
  PROVE  /\ QuarantineKept(state, state')
         /\ \A l \in state.leases : l.expires > clock => StillHeld(l)
         /\ \E p \in Profile :
              /\ id \notin issued /\ issued' = issued \cup {id}
              /\ \A h \in Pairs(state') \ {<<p, id>>} : h \in Pairs(state) /\ h[1] # p
              /\ <<p, id>> \in Pairs(state')
<1> DEFINE s == MarkExpiredLeases(state, now)
<1>1. now \in Nat /\ now <= clock
  BY LockedNowFact DEF IInv, TypeOK
<1>2. /\ s \in State /\ Consistent(s) /\ s.leases \subseteq state.leases
      /\ \A l \in state.leases : l.expires > clock => l \in s.leases
      /\ QuarantineKept(state, s)
  BY <1>1, MarkExpiredEffect, MarkExpiredFacts
<1>3. PICK p \in Selectable(s, key) :
        Commit(GrantLease(s, [id |-> id, profile |-> p, machine |-> s.home[p],
                              expires |-> now + ResolveTtl(ttl)]))
  BY DEF AcquireBrowser
<1> DEFINE n == [id |-> id, profile |-> p, machine |-> s.home[p],
                 expires |-> now + ResolveTtl(ttl)]
<1>4. p \in Profile /\ s.profileStatus[p] = "Available"
  BY DEF Selectable, ProfileMatches
<1>5. n.id = id /\ n.profile = p
  OBVIOUS
<1>6. state' = GrantLease(s, n)
  BY <1>3 DEF Commit
<1> HIDE DEF s, n
<1>7. /\ state'.leases = s.leases \cup {n}
      /\ state'.profileStatus = [s.profileStatus EXCEPT ![p] = "Leased"]
  BY <1>2, <1>5, <1>6 DEF GrantLease, State
<1>8. \A l \in s.leases : l.profile # p
  BY <1>2, <1>4 DEF Consistent, LeasedWhileHeld, HasActiveLease
<1>9. QuarantineKept(state, state')
  BY <1>2, <1>4, <1>7 DEF QuarantineKept, State
<1>10. \A l \in state.leases : l.expires > clock => StillHeld(l)
  BY <1>2, <1>7 DEF StillHeld
<1>11. \A h \in Pairs(state') \ {<<p, id>>} : h \in Pairs(state) /\ h[1] # p
  <2> SUFFICES ASSUME NEW h \in Pairs(state') \ {<<p, id>>}
               PROVE  h \in Pairs(state) /\ h[1] # p
    OBVIOUS
  <2>1. PICK l \in state'.leases : h = <<l.profile, l.id>>
    BY DEF Pairs
  <2>2. l \in s.leases
    BY <1>5, <1>7, <2>1
  <2> QED
    BY <1>2, <1>8, <2>1, <2>2 DEF Pairs
<1>12. <<p, id>> \in Pairs(state')
  BY <1>5, <1>7 DEF Pairs
<1>13. id \notin issued /\ issued' = issued \cup {id}
  BY DEF AcquireBrowser
<1> QED
  BY <1>4, <1>9, <1>10, <1>11, <1>12, <1>13

GrantStep(id) ==
  /\ \A l \in state.leases : l.expires > clock => StillHeld(l)
  /\ \E p \in Profile :
       /\ id \notin issued /\ issued' = issued \cup {id}
       /\ \A h \in Pairs(state') \ {<<p, id>>} : h \in Pairs(state) /\ h[1] # p
       /\ <<p, id>> \in Pairs(state')

\* The effects of all steps together.
LEMMA StepEffect ==
  ASSUME IInv, Next
  PROVE  /\ NoGrant \/ \E id \in LeaseId : GrantStep(id)
         /\ \A p \in Profile :
              \/ state.profileStatus[p] = "Quarantined"
                   => state'.profileStatus[p] = "Quarantined"
              \/ ReleaseQuarantine(p)
<1> DEFINE Effect == /\ NoGrant \/ \E id \in LeaseId : GrantStep(id)
                     /\ \A p \in Profile :
                          \/ state.profileStatus[p] = "Quarantined"
                               => state'.profileStatus[p] = "Quarantined"
                          \/ ReleaseQuarantine(p)
<1>0. \A now \in LockedNow : now \in Nat /\ now <= clock
  BY LockedNowFact DEF IInv, TypeOK
<1>1. NoGrant /\ QuarantineKept(state, state') => Effect
  BY DEF QuarantineKept
<1>2. ASSUME NEW m \in Machine, NEW status \in MachineReports, NEW r \in Reports,
             NEW now \in LockedNow, RegisterMachine(m, status, r, now)
      PROVE  Effect
  <2>1. (IF status = "Unspecified" THEN "Online" ELSE status) \in MachineStatus
    BY BoundAssumption DEF MachineStatus
  <2>2. NoGrant /\ QuarantineKept(state, state')
    BY <1>0, <1>2, <2>1, RegisterEffect DEF RegisterMachine
  <2> QED
    BY <1>1, <2>2
<1>3. ASSUME NEW m \in Machine, NEW status \in MachineReports, NEW r \in Reports,
             Heartbeat(m, status, r)
      PROVE  Effect
  <2>1. status \in MachineStatus /\ clock \in Nat /\ clock <= clock
    BY BoundAssumption DEF IInv, TypeOK
  <2>2. NoGrant /\ QuarantineKept(state, state')
    BY <1>3, <2>1, RegisterEffect DEF Heartbeat
  <2> QED
    BY <1>1, <2>2
<1>4. ASSUME NEW now \in LockedNow,
             ExpireOnRead(now) \/ \E id \in LeaseId : GetRoute(id, now)
      PROVE  Effect
  <2>1. Commit(MarkExpiredLeases(state, now)) /\ UNCHANGED issued
    BY <1>4 DEF ExpireOnRead, GetRoute
  <2>2. NoGrant /\ QuarantineKept(state, state')
    BY <1>0, <2>1, ExpireEffect
  <2> QED
    BY <1>1, <2>2
<1>5. ASSUME NEW now \in LockedNow, NEW id \in LeaseId, NEW ttl \in RequestedTtl,
             NEW key, AcquireBrowser(key, ttl, id, now)
      PROVE  Effect
  <2>1. QuarantineKept(state, state') /\ GrantStep(id)
    BY <1>5, AcquireEffect DEF GrantStep
  <2> QED
    BY <2>1 DEF QuarantineKept
<1>6. ASSUME NEW now \in LockedNow,
             \/ Sweep(now)
             \/ \E p \in Profile : QuarantineProfile(p, now)
             \/ \E id \in LeaseId : ReleaseLease(id, now)
             \/ \E id \in LeaseId, ttl \in RequestedTtl : RenewLease(id, ttl, now)
      PROVE  Effect
  <2>1. NoGrant /\ QuarantineKept(state, state')
    BY <1>0, <1>6, SweepEffect, QuarantineEffect, ReleaseEffect, RenewEffect
  <2> QED
    BY <1>1, <2>1
<1>7. ASSUME NEW p \in Profile, ReleaseQuarantine(p)
      PROVE  Effect
  BY <1>7, ReleaseQuarantineEffect
<1>8. ASSUME Restart \/ Tick \/ \E n \in notices : NoticeDone(n)
      PROVE  Effect
  <2>1. state' = state /\ issued' = issued
    BY <1>8 DEF Restart, Tick, NoticeDone, IInv, DurableState
  <2>2. NoGrant /\ QuarantineKept(state, state')
    BY <2>1, SubsetNoGrant DEF QuarantineKept
  <2> QED
    BY <1>1, <2>2
<1> HIDE DEF Effect
<1>9. Effect
  BY <1>2, <1>3, <1>4, <1>5, <1>6, <1>7, <1>8 DEF Next, Handlers
<1> QED
  BY <1>9 DEF Effect

\* A quarantine is ended by the operator and by nothing else.
THEOREM QuarantineStands == Spec => QuarantineHolds
<1>1. IInv /\ [Next]_vars =>
        [\A p \in Profile :
           state.profileStatus[p] = "Quarantined" /\ state'.profileStatus[p] # "Quarantined"
             => ReleaseQuarantine(p)]_vars
  BY StepEffect
<1> QED
  BY <1>1, Invariance, PTL DEF Spec, QuarantineHolds

\* A lease taken before its deadline is announced in the step that takes it.
THEOREM NoSilentRevocation == Spec => RevocationAnnounced
<1>1. IInv /\ [Next]_vars =>
        [\A l \in state.leases :
           l.expires > clock /\ ~HoldsLease(state', l.id)
             => [lease |-> l.id, machine |-> l.machine] \in notices']_vars
  BY StepEffect DEF NoGrant, GrantStep, Announced, StillHeld, HoldsLease
<1> QED
  BY <1>1, Invariance, PTL DEF Spec, RevocationAnnounced

\* The lease table, with its clocks, storage, sweeps and restarts, implements
\* the lock service: one holder per profile, ids used once, no way back for a
\* holder that lost its profile.
THEOREM Refinement == Spec => ImplementsLock
<1>1. Init => Lock!Init
  BY DEF Init, EmptyState, Lock!Init
<1>2. IInv /\ [Next]_vars => [Lock!Next]_Lock!vars
  <2> SUFFICES ASSUME IInv, [Next]_vars PROVE [Lock!Next]_Lock!vars
    OBVIOUS
  <2>1. CASE UNCHANGED vars
    BY <2>1 DEF vars, Lock!vars
  <2>2. CASE NoGrant
    <3> DEFINE gone == Pairs(state) \ Pairs(state')
    <3>1. Pairs(state') = Pairs(state) \ gone /\ gone \in SUBSET Pairs(state)
      BY <2>2 DEF NoGrant
    <3>2. Lock!Next
      <4>1. issued' = issued
        BY <2>2 DEF NoGrant
      <4> HIDE DEF gone
      <4> QED
        BY <3>1, <4>1 DEF Lock!Next, Lock!Free, Pairs
    <3> QED
      BY <3>2
  <2>3. ASSUME NEW id \in LeaseId, GrantStep(id)
        PROVE  Lock!Next
    <3>1. PICK p \in Profile :
            /\ id \notin issued /\ issued' = issued \cup {id}
            /\ \A h \in Pairs(state') \ {<<p, id>>} : h \in Pairs(state) /\ h[1] # p
            /\ <<p, id>> \in Pairs(state')
      BY <2>3 DEF GrantStep
    <3> DEFINE gone == Pairs(state) \ (Pairs(state') \ {<<p, id>>})
    <3>2. Pairs(state) \ gone = Pairs(state') \ {<<p, id>>}
      BY <3>1
    <3>3. Lock!Grant(gone, p, id)
      <4>1. \A h \in Pairs(state) \ gone : h[1] # p
        BY <3>1, <3>2
      <4>2. Pairs(state') = (Pairs(state) \ gone) \cup {<<p, id>>}
        BY <3>1, <3>2
      <4> HIDE DEF gone
      <4> QED
        BY <3>1, <4>1, <4>2 DEF Lock!Grant, Pairs
    <3>4. gone \in SUBSET Pairs(state)
      OBVIOUS
    <3> QED
      BY <3>3, <3>4 DEF Lock!Next, Pairs
  <2> QED
    BY <2>1, <2>2, <2>3, StepEffect
<1> QED
  BY <1>1, <1>2, Invariance, PTL DEF Spec, ImplementsLock, Lock!Spec
=============================================================================
