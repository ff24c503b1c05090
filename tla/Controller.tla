----------------------------- MODULE Controller -----------------------------
(***************************************************************************)
(* The global controller (crates/bcp-controller): the registry of          *)
(* machines, browser profiles and account bindings, and the lease table.   *)
(*                                                                         *)
(* Every mutating handler takes the write lock, clones the state, works on *)
(* the clone, persists the clone in one SQLite transaction and only then   *)
(* installs it.  So a handler is one step from `state' to the value of an  *)
(* operator on state records, and `disk' is what the last successful       *)
(* transaction wrote.  A handler that returns an error, a failed           *)
(* transaction included, changes nothing and is not a step.                *)
(*                                                                         *)
(* The clock is in ticks of one second.  Handlers that read the clock      *)
(* before they ask for the lock work with a time that is up to MaxLockWait *)
(* ticks old when they get it.                                             *)
(***************************************************************************)
EXTENDS Integers, Sequences

CONSTANTS
  Machine,        \* machine ids
  Profile,        \* profile ids
  Account,        \* account keys: (platform, account id), both present
  LeaseId,        \* lease ids; an id stands for itself and its fencing token
  NoMachine,      \* the empty machine_id
  NoProfile,      \* "no binding under this key"
  AnyAccount,     \* a request that names no account key
  Reports,        \* the profile lists agents send: sequences of reports
  MachineReports, \* the machine statuses agents send
  RequestedTtl,   \* the ttl_seconds clients ask for
  DefaultTtl,     \* DEFAULT_LEASE_TTL_SECONDS
  MaxTtl,         \* MAX_LEASE_TTL_SECONDS
  OfflineAfter,   \* heartbeat age after which a machine is offline
  MaxLockWait,    \* bound: age of a time read before the lock was granted
  MaxClock        \* bound: last tick of the clock

VARIABLES
  state,      \* the ControllerState behind the lock
  disk,       \* the ControllerState in SQLite
  endpoints,  \* machines known to the in-memory network directory
  notices,    \* uninstall notifications spawned and not yet finished
  issued,     \* lease ids the id generator has handed out
  clock

vars == <<state, disk, endpoints, notices, issued, clock>>

MachineStatus == {"Unspecified", "Online", "Degraded", "Offline"}
ProfileStatus == {"Available", "Leased", "Launching", "Broken", "Quarantined"}

\* What an agent may report of a profile: it never claims "Leased".
ReportStatus == {"Unspecified", "Available", "Launching", "Broken", "Quarantined"}

Report == [profile : Profile, machine : Machine \cup {NoMachine},
           status : ReportStatus, accounts : SUBSET Account]

Lease == [id : LeaseId, profile : Profile, machine : Machine, expires : Int]

State ==
  [machineStatus : [Machine -> MachineStatus \cup {"Absent"}],
   heartbeat     : [Machine -> Nat],
   profileStatus : [Profile -> ProfileStatus \cup {"Absent"}],
   home          : [Profile -> Machine \cup {NoMachine}],
   accounts      : [Profile -> SUBSET Account],
   bindings      : [Account -> Profile \cup {NoProfile}],
   leases        : SUBSET Lease]

ASSUME SentinelAssumption ==
  NoMachine \notin Machine /\ NoProfile \notin Profile /\ AnyAccount \notin Account

\* A list of profiles comes from a map, so it names a profile once.
ASSUME ReportAssumption ==
  \A r \in Reports :
    /\ r \in Seq(Report)
    /\ \A i, j \in DOMAIN r : r[i].profile = r[j].profile => i = j

ASSUME BoundAssumption ==
  /\ MachineReports \subseteq MachineStatus
  /\ RequestedTtl \subseteq Int
  /\ DefaultTtl \in Nat /\ MaxTtl \in Nat
  /\ 1 <= DefaultTtl /\ DefaultTtl <= MaxTtl
  /\ OfflineAfter \in Nat /\ MaxLockWait \in Nat /\ MaxClock \in Nat

-----------------------------------------------------------------------------
(* Operators on a state record. *)

EmptyState ==
  [machineStatus |-> [m \in Machine |-> "Absent"],
   heartbeat     |-> [m \in Machine |-> 0],
   profileStatus |-> [p \in Profile |-> "Absent"],
   home          |-> [p \in Profile |-> NoMachine],
   accounts      |-> [p \in Profile |-> {}],
   bindings      |-> [k \in Account |-> NoProfile],
   leases        |-> {}]

\* Leases in `gone' leave the table; their profiles, where they still read
\* Leased, become Available.
FreeLeases(s, gone) ==
  [s EXCEPT
     !.leases = @ \ gone,
     !.profileStatus =
       [p \in Profile |->
          IF @[p] = "Leased" /\ \E l \in gone : l.profile = p
          THEN "Available" ELSE @[p]]]

\* Mutant: leases end one tick early.
MutExpiredLeases(s, now) == {l \in s.leases : l.expires <= now + 1}

ExpiredLeases(s, now) == {l \in s.leases : l.expires <= now}

MarkExpiredLeases(s, now) == FreeLeases(s, ExpiredLeases(s, now))

HoldsLease(s, id) == \E l \in s.leases : l.id = id

HasActiveLease(s, p) == \E l \in s.leases : l.profile = p

\* Mutant: the upper clamp is forgotten.
MutResolveTtl(ttl) == IF ttl <= 0 THEN DefaultTtl ELSE ttl

ResolveTtl(ttl) ==
  IF ttl <= 0 THEN DefaultTtl ELSE IF ttl > MaxTtl THEN MaxTtl ELSE ttl

\* Mutant: a quarantine is not among the statuses to keep.
MutOperatorOwned == {"Broken", "Launching"}

\* Statuses that a report of the agent must not overwrite.
OperatorOwned == {"Quarantined", "Broken", "Launching"}

\* Mutant: a report of a leased profile makes it available.
MutReportedLeased(s, report) ==
  LET old == s.profileStatus[report.profile]
  IN  IF old \in OperatorOwned THEN old
      ELSE IF report.status = "Unspecified" THEN "Available" ELSE report.status

ReportedStatus(s, report) ==
  LET old == s.profileStatus[report.profile]
  IN  CASE old \in OperatorOwned -> old
        [] old \notin OperatorOwned /\ HasActiveLease(s, report.profile) -> "Leased"
        [] OTHER -> IF report.status = "Unspecified" THEN "Available"
                    ELSE report.status

\* Mutant: what earlier profiles of the list have released still counts as bound.
MutAccountConflict(s, r, i) ==
  \E k \in r[i].accounts :
    \/ \E j \in 1..(i - 1) : k \in r[j].accounts
    \/ s.bindings[k] \notin {NoProfile, r[i].profile}

\* The i-th profile of the list claims an account that an earlier one of the
\* list has just bound, or that is bound to a profile the loop has not
\* re-registered yet.
AccountConflict(s, r, i) ==
  \E k \in r[i].accounts :
    \/ \E j \in 1..(i - 1) : k \in r[j].accounts
    \/ /\ s.bindings[k] \notin {NoProfile, r[i].profile}
       /\ \A j \in 1..(i - 1) : s.bindings[k] # r[j].profile

\* No profile of the list makes the loop return an error.
AcceptsReport(s, m, r) ==
  \A i \in DOMAIN r : r[i].machine \in {NoMachine, m} /\ ~AccountConflict(s, r, i)

\* Mutant: bindings a profile no longer claims are not dropped.
MutUpsertProfiles(s, m, r) ==
  LET reported == {r[i].profile : i \in DOMAIN r}
      of(p)    == r[CHOOSE i \in DOMAIN r : r[i].profile = p]
      claims(k) == {i \in DOMAIN r : k \in r[i].accounts}
  IN  [s EXCEPT
         !.profileStatus =
            [p \in Profile |-> IF p \in reported THEN ReportedStatus(s, of(p)) ELSE @[p]],
         !.home     = [p \in Profile |-> IF p \in reported THEN m ELSE @[p]],
         !.accounts = [p \in Profile |-> IF p \in reported THEN of(p).accounts ELSE @[p]],
         !.bindings =
            [k \in Account |->
               IF claims(k) # {} THEN r[CHOOSE i \in claims(k) : TRUE].profile ELSE @[k]]]

\* The whole loop over request.profiles, for a list it accepts.
UpsertProfiles(s, m, r) ==
  LET reported == {r[i].profile : i \in DOMAIN r}
      of(p)    == r[CHOOSE i \in DOMAIN r : r[i].profile = p]
      claims(k) == {i \in DOMAIN r : k \in r[i].accounts}
  IN  [s EXCEPT
         !.profileStatus =
            [p \in Profile |-> IF p \in reported THEN ReportedStatus(s, of(p)) ELSE @[p]],
         !.home     = [p \in Profile |-> IF p \in reported THEN m ELSE @[p]],
         !.accounts = [p \in Profile |-> IF p \in reported THEN of(p).accounts ELSE @[p]],
         !.bindings =
            [k \in Account |->
               IF claims(k) # {} THEN r[CHOOSE i \in claims(k) : TRUE].profile
               ELSE IF @[k] \in reported THEN NoProfile ELSE @[k]]]

SetMachine(s, m, status, now) ==
  [s EXCEPT !.machineStatus[m] = status, !.heartbeat[m] = now]

\* What a selector and an account key ask of a profile.
ProfileMatches(s, key, p, includeUnavailable) ==
  /\ includeUnavailable \/ s.profileStatus[p] = "Available"
  /\ key \in Account => key \in s.accounts[p]

\* Mutant: the lookup by account key returns the profile without filtering it.
MutSelectable(s, key) ==
  {p \in Profile :
     IF key \in Account THEN s.bindings[key] = p
     ELSE ~HasActiveLease(s, p) /\ s.profileStatus[p] = "Available"}

\* The profiles select_profile_for_acquire may return: with an account key only
\* the profile bound to it, else any profile its selector matches.
Selectable(s, key) ==
  {p \in Profile :
     /\ key \in Account => s.bindings[key] = p
     /\ ~HasActiveLease(s, p)
     /\ ProfileMatches(s, key, p, FALSE)}

\* Mutant: a profile without a lease is called available.
MutLookupBrowserConnection(s, key) ==
  {[profile |-> p, machine |-> s.home[p], available |-> ~HasActiveLease(s, p),
    held |-> {l.id : l \in {x \in s.leases : x.profile = p}}] :
     p \in {q \in Profile : s.bindings[key] = q /\ ProfileMatches(s, key, q, TRUE)}}

\* The answer of lookup_browser_connection for an account key, with unavailable
\* profiles included: a set that is empty when nothing is bound to the key.
LookupBrowserConnection(s, key) ==
  {[profile |-> p, machine |-> s.home[p],
    available |-> s.profileStatus[p] = "Available",
    held |-> {l.id : l \in {x \in s.leases : x.profile = p}}] :
     p \in {q \in Profile : s.bindings[key] = q /\ ProfileMatches(s, key, q, TRUE)}}

GrantLease(s, l) ==
  [s EXCEPT !.leases = @ \cup {l}, !.profileStatus[l.profile] = "Leased"]

\* Mutant: the operands of the age are swapped.
MutMarkOffline(s, now) ==
  [s EXCEPT !.machineStatus =
     [m \in Machine |->
        IF @[m] = "Online" /\ s.heartbeat[m] > 0 /\ s.heartbeat[m] - now > OfflineAfter
        THEN "Offline" ELSE @[m]]]

\* Machines that have gone silent are offline.
MarkOffline(s, now) ==
  [s EXCEPT !.machineStatus =
     [m \in Machine |->
        IF /\ @[m] = "Online"
           /\ s.heartbeat[m] > 0
           /\ now - s.heartbeat[m] > OfflineAfter
        THEN "Offline" ELSE @[m]]]

\* Mutant: the sweep leaves expired leases to the readers.
MutSweptLeases(s, now) == {l \in s.leases : s.machineStatus[l.machine] = "Offline"}

\* The leases a sweep reclaims: expired ones and those on offline machines.
SweptLeases(s, now) ==
  ExpiredLeases(s, now) \cup {l \in s.leases : s.machineStatus[l.machine] = "Offline"}

-----------------------------------------------------------------------------
(* Steps. *)

\* A time read before the lock was granted.
LockedNow == {t \in 1..clock : clock - t <= MaxLockWait}

\* Mutant: the new state is installed although it may not have been persisted.
MutCommit(next) == state' = next /\ disk' \in {disk, next}

\* persist_state(&next)?; *state = next
Commit(next) == state' = next /\ disk' = next

\* One spawned call per lease; it looks the endpoint up when it runs.
NotifyAgentUninstall(leases) ==
  notices' = notices \cup {[lease |-> l.id, machine |-> l.machine] : l \in leases}

Init ==
  /\ state = EmptyState
  /\ disk = EmptyState
  /\ endpoints = {}
  /\ notices = {}
  /\ issued = {}
  /\ clock = 1

RegisterMachine(m, status, r, now) ==
  LET s == SetMachine(MarkExpiredLeases(state, now), m,
                      IF status = "Unspecified" THEN "Online" ELSE status, now)
  IN  /\ AcceptsReport(s, m, r)
      /\ Commit(UpsertProfiles(s, m, r))
      /\ endpoints' = endpoints \cup {m}
      /\ UNCHANGED <<notices, issued, clock>>

\* Unlike registration, a heartbeat reads the clock under the lock, keeps the
\* reported status as it is and needs a registered machine.
Heartbeat(m, status, r) ==
  LET s == SetMachine(MarkExpiredLeases(state, clock), m, status, clock)
  IN  /\ state.machineStatus[m] # "Absent"
      /\ AcceptsReport(s, m, r)
      /\ Commit(UpsertProfiles(s, m, r))
      /\ endpoints' = endpoints \cup {m}
      /\ UNCHANGED <<notices, issued, clock>>

\* list_profiles, list_browser_account_bindings, lookup_browser_connection and
\* the web snapshot expire leases before they answer; no agent is told.
ExpireOnRead(now) ==
  /\ ExpiredLeases(state, now) # {}
  /\ Commit(MarkExpiredLeases(state, now))
  /\ UNCHANGED <<endpoints, notices, issued, clock>>

\* get_route does so too, but only when it finds the lease it was asked for.
GetRoute(id, now) ==
  LET s == MarkExpiredLeases(state, now)
  IN  /\ HoldsLease(s, id)
      /\ ExpiredLeases(state, now) # {}
      /\ Commit(s)
      /\ UNCHANGED <<endpoints, notices, issued, clock>>

\* The lease is committed before the endpoint is looked up: a missing endpoint
\* fails the call and leaves the lease behind.
AcquireBrowser(key, ttl, id, now) ==
  LET s == MarkExpiredLeases(state, now)
  IN  /\ id \notin issued
      /\ \E p \in Selectable(s, key) :
           Commit(GrantLease(s, [id |-> id, profile |-> p, machine |-> s.home[p],
                                 expires |-> now + ResolveTtl(ttl)]))
      /\ issued' = issued \cup {id}
      /\ UNCHANGED <<endpoints, notices, clock>>

RenewLease(id, ttl, now) ==
  LET s == MarkExpiredLeases(state, now)
  IN  /\ \E l \in s.leases :
           /\ l.id = id
           /\ Commit([s EXCEPT !.leases =
                        (@ \ {l}) \cup {[l EXCEPT !.expires = now + ResolveTtl(ttl)]}])
      /\ UNCHANGED <<endpoints, notices, issued, clock>>

ReleaseLease(id, now) ==
  LET s == MarkExpiredLeases(state, now)
  IN  /\ \E l \in s.leases :
           /\ l.id = id
           /\ Commit([s EXCEPT !.leases = @ \ {l},
                               !.profileStatus[l.profile] = "Available"])
           /\ NotifyAgentUninstall({l})
      /\ UNCHANGED <<endpoints, issued, clock>>

\* Mutant: the evicted leases are not announced.
MutQuarantineProfile(p, now) ==
  LET s == MarkExpiredLeases(state, now)
  IN  /\ s.profileStatus[p] # "Absent"
      /\ Commit([s EXCEPT !.profileStatus[p] = "Quarantined",
                          !.leases = {l \in @ : l.profile # p}])
      /\ UNCHANGED <<endpoints, notices, issued, clock>>

QuarantineProfile(p, now) ==
  LET s == MarkExpiredLeases(state, now)
      evicted == {l \in s.leases : l.profile = p}
  IN  /\ s.profileStatus[p] # "Absent"
      /\ Commit([s EXCEPT !.profileStatus[p] = "Quarantined", !.leases = @ \ evicted])
      /\ NotifyAgentUninstall(evicted)
      /\ UNCHANGED <<endpoints, issued, clock>>

ReleaseQuarantine(p) ==
  /\ state.profileStatus[p] = "Quarantined"
  /\ Commit([state EXCEPT !.profileStatus[p] = "Available"])
  /\ UNCHANGED <<endpoints, notices, issued, clock>>

Sweep(now) ==
  LET s == MarkOffline(state, now)
      revoked == SweptLeases(s, now)
  IN  /\ Commit(FreeLeases(s, revoked))
      /\ NotifyAgentUninstall(revoked)
      /\ UNCHANGED <<endpoints, issued, clock>>

\* The spawned uninstall call ends: delivered, refused or timed out.
NoticeDone(n) ==
  /\ notices' = notices \ {n}
  /\ UNCHANGED <<state, disk, endpoints, issued, clock>>

\* Mutant: the network directory is not rebuilt.
MutRestart ==
  /\ state' = disk
  /\ endpoints' = {}
  /\ notices' = {}
  /\ UNCHANGED <<disk, issued, clock>>

\* The process dies, its spawned calls with it, and starts again from SQLite.
Restart ==
  /\ state' = disk
  /\ endpoints' = {m \in Machine : disk.machineStatus[m] # "Absent"}
  /\ notices' = {}
  /\ UNCHANGED <<disk, issued, clock>>

Tick ==
  /\ clock < MaxClock
  /\ clock' = clock + 1
  /\ UNCHANGED <<state, disk, endpoints, notices, issued>>

Handlers ==
  \/ \E m \in Machine, status \in MachineReports, r \in Reports :
       \/ \E now \in LockedNow : RegisterMachine(m, status, r, now)
       \/ Heartbeat(m, status, r)
  \/ \E now \in LockedNow :
       \/ ExpireOnRead(now)
       \/ Sweep(now)
       \/ \E id \in LeaseId :
            \/ GetRoute(id, now)
            \/ ReleaseLease(id, now)
            \/ \E ttl \in RequestedTtl :
                 \/ RenewLease(id, ttl, now)
                 \/ \E key \in Account \cup {AnyAccount} : AcquireBrowser(key, ttl, id, now)
       \/ \E p \in Profile : QuarantineProfile(p, now)
  \/ \E p \in Profile : ReleaseQuarantine(p)
  \/ Restart
  \/ Tick

Next == Handlers \/ \E n \in notices : NoticeDone(n)

Spec == Init /\ [][Next]_vars

-----------------------------------------------------------------------------
(* Correctness. *)

\* Every handler leaves well-formed tables: a reported status is stored resolved,
\* and a lease names the machine of its profile.
TypeOK ==
  /\ state \in State
  /\ disk \in State
  /\ endpoints \subseteq Machine
  /\ notices \subseteq [lease : LeaseId, machine : Machine]
  /\ issued \subseteq LeaseId
  /\ clock \in Nat

\* Four facts about a state record that every operator above preserves.
Exclusive(s) ==
  \A l1, l2 \in s.leases : l1.profile = l2.profile \/ l1.id = l2.id => l1 = l2

LeasedWhileHeld(s) ==
  \A p \in Profile : s.profileStatus[p] = "Leased" <=> HasActiveLease(s, p)

AccountsBound(s) ==
  \A k \in Account, p \in Profile : s.bindings[k] = p <=> k \in s.accounts[p]

Homed(s) ==
  /\ \A p \in Profile :
       s.profileStatus[p] # "Absent" =>
         s.home[p] \in Machine /\ s.machineStatus[s.home[p]] # "Absent"
  /\ \A l \in s.leases : s.machineStatus[l.machine] # "Absent"

\* A profile is leased to one client at a time, whatever the order of
\* acquisitions, expiries read from stale clocks, sweeps, quarantines,
\* re-registrations and restarts.
ExclusiveLease == Exclusive(state)

\* A profile reads Leased exactly while the lease table holds a lease on it: no
\* handler strands a profile in Leased, and none frees or re-reports a profile
\* that is still held.
LeasedIffLease == LeasedWhileHeld(state)

\* The binding table is the inverse of the accounts of the registered profiles:
\* an account belongs to one profile, and the loop over a report leaves neither
\* a dangling nor a missing binding.
BindingsMatchAccounts == AccountsBound(state)

\* Memory and disk agree between handlers, so that a restart cannot bring back a
\* lease that was revoked or lose one that was granted.
DurableState == state = disk

\* The machine of every lease has an endpoint in the network directory, which
\* is rebuilt from disk at start: a lease can be routed, and its revocation
\* announced, for as long as it exists.
LeasesRoutable == \A l \in state.leases : l.machine \in endpoints

\* No chain of grants and renewals, whatever ttl was asked for, holds a profile
\* for longer than the maximal ttl from now.
LeaseDeadlineBounded == \A l \in state.leases : l.expires <= clock + MaxTtl

\* lookup_browser_connection looks at the status of the profile, acquire_browser
\* at the lease table as well; still a client that is told "available: call
\* AcquireBrowser" would be given exactly this profile, one that is told of a
\* lease would not, and the route hint names a registered machine.
LookupTruthful ==
  \A key \in Account, now \in LockedNow :
    LET s == MarkExpiredLeases(state, now)
    IN  \A answer \in LookupBrowserConnection(s, key) :
          /\ answer.available <=> answer.profile \in Selectable(s, key)
          /\ answer.available => answer.held = {}
          /\ s.profileStatus[answer.profile] # "Absent" => answer.machine \in endpoints

\* The inductive invariant behind the theorems of ControllerProofs: besides the
\* properties above, ids in the table have been issued, which makes a fresh id
\* new to the table, deadlines are positive (to the agents, 0 means none), and
\* profiles live on registered machines, all of which the network directory knows.
IInv ==
  /\ TypeOK
  /\ DurableState
  /\ ExclusiveLease /\ LeasedIffLease /\ BindingsMatchAccounts /\ Homed(state)
  /\ \A l \in state.leases : l.id \in issued /\ 0 < l.expires
  /\ {m \in Machine : state.machineStatus[m] # "Absent"} \subseteq endpoints
  /\ LeaseDeadlineBounded

\* Only the operator's release ends a quarantine: no report of an agent, expiry,
\* sweep or restart does.
QuarantineHolds ==
  [][\A p \in Profile :
       state.profileStatus[p] = "Quarantined" /\ state'.profileStatus[p] # "Quarantined"
         => ReleaseQuarantine(p)]_vars

\* The lease table is a lock service: see ProfileLock.
Lock == INSTANCE ProfileLock WITH
          held  <- {<<l.profile, l.id>> : l \in state.leases},
          spent <- issued

ImplementsLock == Lock!Spec

\* A lease that is taken away before its deadline is announced to its agent in
\* the same step; only leases past their deadline disappear silently.
RevocationAnnounced ==
  [][\A l \in state.leases :
       l.expires > clock /\ ~HoldsLease(state', l.id)
         => [lease |-> l.id, machine |-> l.machine] \in notices']_vars

\* A profile does not stay blocked by leases that have run out: the sweep frees
\* it even if no client ever calls again.
ExpiredLeaseReclaimed ==
  \A p \in Profile :
    (\E l \in state.leases : l.profile = p /\ l.expires <= clock)
      ~> ~(\E l \in state.leases : l.profile = p /\ l.expires <= clock)

\* A machine that reported Online and then fell silent is taken offline.
SilentMachineOffline ==
  \A m \in Machine :
    (state.machineStatus[m] = "Online" /\ clock - state.heartbeat[m] > OfflineAfter)
      ~> ~(state.machineStatus[m] = "Online" /\ clock - state.heartbeat[m] > OfflineAfter)

-----------------------------------------------------------------------------
(* What the design document says and the code does not do. *)

\* docs/design.md: a machine that has been marked offline gets no new leases.
\* Profile selection never looks at the machine.
OfflineMachineNotLeased ==
  [][\A l \in state'.leases :
       state'.machineStatus[l.machine] = "Offline"
         => HoldsLease(state, l.id)]_vars
=============================================================================
