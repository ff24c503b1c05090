------------------------------- MODULE Agent --------------------------------
(***************************************************************************)
(* The lease table of the machine controllers (crates/bcp-agent): what is  *)
(* installed on each machine, and the check every browser operation and    *)
(* the CDP proxy make against it.  The table lives in memory only.         *)
(***************************************************************************)
EXTENDS Integers

CONSTANTS Machine, Profile, LeaseId

VARIABLE installed   \* per machine, a set of local leases with distinct ids

\* As in Controller, the id stands for itself and its fencing token.
LocalLease == [id : LeaseId, profile : Profile, expires : Int]

LeaseContext(l) == [id |-> l.id, profile |-> l.profile, expires |-> l.expires]

Init == installed = [m \in Machine |-> {}]

\* Mutant: leases other clients hold on the profile stay.
MutInstallLease(m, c) ==
  installed' = [installed EXCEPT ![m] = {l \in @ : l.id # c.id} \cup {c}]

\* The agent takes the client's word for the lease.  Whatever else is installed
\* for the profile goes, and so does an older copy of the same lease.
InstallLease(m, c) ==
  installed' = [installed EXCEPT
                  ![m] = {l \in @ : l.profile # c.profile /\ l.id # c.id} \cup {c}]

UninstallLease(m, id) ==
  installed' = [installed EXCEPT ![m] = {l \in @ : l.id # id}]

\* Mutant: nothing is pruned.
MutSyncKeeps(m, desired) ==
  installed' = [installed EXCEPT
                  ![m] = {l \in @ : \A d \in desired : d.id # l.id} \cup desired]

\* Mutant: nothing is recovered.
MutSyncPrunes(m, desired) ==
  installed' = [installed EXCEPT ![m] = {l \in @ : \E d \in desired : d.id = l.id}]

\* Ids that are not desired are pruned and the desired ones (over)written, which
\* leaves exactly the desired leases.
SyncLeases(m, desired) ==
  installed' = [installed EXCEPT ![m] = desired]

RestartAgent(m) == installed' = [installed EXCEPT ![m] = {}]

Holds(m, id) == \E l \in installed[m] : l.id = id

\* Mutant: the deadline is not checked.
MutAccepts(m, id, p, now) == \E l \in installed[m] : l.id = id /\ l.profile = p

\* validate_lease and check_lease.
Accepts(m, id, p, now) ==
  \E l \in installed[m] :
    /\ l.id = id
    /\ l.profile = p
    /\ l.expires > 0 => now < l.expires

\* The tables hold local leases.
TypeOK == installed \in [Machine -> SUBSET LocalLease]

\* A machine never holds two leases on one profile.
OneLeasePerProfile ==
  \A m \in Machine : \A l1, l2 \in installed[m] :
    l1.profile = l2.profile \/ l1.id = l2.id => l1 = l2
=============================================================================
