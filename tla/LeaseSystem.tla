---------------------------- MODULE LeaseSystem -----------------------------
(***************************************************************************)
(* The controller, the lease tables of the agents and the clients, joined  *)
(* by what travels between them: leases returned to clients, who install   *)
(* them when they get round to it and possibly more than once; uninstall   *)
(* calls, delivered late or never; and lists of leases an agent has asked  *)
(* for and not applied yet.  All clocks are the same clock.                *)
(***************************************************************************)
EXTENDS Controller

VARIABLES
  installed,   \* the agents' lease tables
  granted,     \* every lease, with its deadline, that a client was ever given
  syncing,     \* per machine, the unapplied answers to ListMachineLeases
  curtailed    \* history: the leases that ended, or were set to end, early

A == INSTANCE Agent

sysVars ==
  <<state, disk, endpoints, notices, issued, clock, installed, granted, syncing, curtailed>>

SysInit ==
  /\ Init
  /\ A!Init
  /\ granted = {}
  /\ syncing = [m \in Machine |-> {}]
  /\ curtailed = {}

\* The step cuts the time that was left on lease l: its end is announced to the
\* agent, or a renewal brings its deadline forward.
Curtails(l) ==
  /\ l.expires > clock
  /\ \/ [lease |-> l.id, machine |-> l.machine] \in notices'
     \/ \E k \in state'.leases : k.id = l.id /\ k.expires < l.expires

\* Responses of acquire_browser and renew_lease reach clients.
Answered ==
  /\ granted' = granted \cup state'.leases
  /\ curtailed' = curtailed \cup {l.id : l \in {x \in state.leases : Curtails(x)}}
  /\ UNCHANGED <<installed, syncing>>

ControllerStep == Handlers /\ Answered

\* A client installs the lease it was given, as it was given.
ClientInstall(l) ==
  /\ A!InstallLease(l.machine, A!LeaseContext(l))
  /\ UNCHANGED <<vars, granted, syncing, curtailed>>

\* The uninstall call of the controller arrives, if the endpoint is known.
DeliverUninstall(n) ==
  /\ n.machine \in endpoints
  /\ NoticeDone(n)
  /\ A!UninstallLease(n.machine, n.lease)
  /\ UNCHANGED <<granted, syncing, curtailed>>

LoseUninstall(n) ==
  /\ NoticeDone(n)
  /\ UNCHANGED <<installed, granted, syncing, curtailed>>

\* The controller answers ListMachineLeases; the loop of spawn_lease_sync asks
\* again only after it has applied the answer.
ListMachineLeases(m, now) ==
  /\ syncing[m] = {}
  /\ syncing' = [syncing EXCEPT ![m] =
       {{A!LeaseContext(l) : l \in {x \in state.leases : x.machine = m /\ x.expires > now}}}]
  /\ UNCHANGED <<vars, installed, granted, curtailed>>

ApplySync(m) ==
  /\ \E desired \in syncing[m] : A!SyncLeases(m, desired)
  /\ syncing' = [syncing EXCEPT ![m] = {}]
  /\ UNCHANGED <<vars, granted, curtailed>>

\* The agent process restarts: its lease table and its pending call are lost.
RestartAgent(m) ==
  /\ A!RestartAgent(m)
  /\ syncing' = [syncing EXCEPT ![m] = {}]
  /\ UNCHANGED <<vars, granted, curtailed>>

SysNext ==
  \/ ControllerStep
  \/ \E l \in granted : ClientInstall(l)
  \/ \E n \in notices : DeliverUninstall(n) \/ LoseUninstall(n)
  \/ \E m \in Machine :
       \/ \E now \in LockedNow : ListMachineLeases(m, now)
       \/ ApplySync(m)
       \/ RestartAgent(m)

SysSpec == SysInit /\ [][SysNext]_sysVars

\* The sweep of the controller and the sync loop of every agent run at fixed
\* intervals.  The loop reaches the controller again and again, and a restart of
\* the agent does not hit every single round of it.
SysFairness ==
  /\ WF_sysVars(\E now \in LockedNow : Sweep(now) /\ Answered)
  /\ \A m \in Machine :
       /\ WF_sysVars(\E now \in LockedNow : ListMachineLeases(m, now))
       /\ SF_sysVars(ApplySync(m))

SysFairSpec == SysSpec /\ SysFairness

-----------------------------------------------------------------------------
(* Correctness. *)

\* What is installed, granted and on its way to the sync loops is well-formed.
SysTypeOK ==
  /\ A!TypeOK
  /\ granted \subseteq Lease
  /\ syncing \in [Machine -> SUBSET SUBSET A!LocalLease]
  /\ curtailed \subseteq LeaseId

\* The agents keep the exclusivity of the controller's table: neither a late or
\* repeated install nor a stale answer to the sync loop leaves two leases on one
\* profile installed on a machine.
AgentExclusive == A!OneLeasePerProfile

\* The agent lets nobody in after the last deadline the controller ever gave for
\* the lease, whatever became of the calls that should have uninstalled it.
AcceptedWithinGrant ==
  \A m \in Machine, l \in granted :
    A!Accepts(m, l.id, l.profile, clock)
      => \E g \in granted : g.id = l.id /\ clock < g.expires

\* Agent and controller agree on the holder although they never talk within one
\* step: whom an agent lets in holds the lease in the controller's table, on this
\* profile and this machine, and so, by ExclusiveLease, nobody else does on any
\* machine.  The exceptions are the leases cut short, by a release, a quarantine,
\* a sweep of an offline machine or a renewal to an earlier deadline; a lease
\* that just runs out is dropped by the controller no sooner than by the agent,
\* however old the time it was dropped with and the copy the agent has of it.
HolderServed ==
  \A m \in Machine, l \in granted :
    A!Accepts(m, l.id, l.profile, clock) /\ l.id \notin curtailed
      => \E k \in state.leases : k.id = l.id /\ k.profile = l.profile /\ k.machine = m

\* A lease the controller has dropped does not stay installed: the sync loop
\* removes it although the uninstall call may be lost.
RevokedPruned ==
  \A m \in Machine, id \in LeaseId :
    LET stale == A!Holds(m, id) /\ ~HoldsLease(state, id)
    IN  stale ~> ~stale

\* A lease that lives on the controller is installed on its machine in the end
\* although the agent lost it in a restart: the client need not install it again.
LeaseRecovered ==
  \A id \in LeaseId :
    LET missing == \E l \in state.leases :
                     l.id = id /\ l.expires > clock /\ ~A!Holds(l.machine, id)
    IN  missing ~> ~missing

-----------------------------------------------------------------------------
(* What a comment says and the code does not do. *)

\* bcp-agent/src/lib.rs: once a profile has been leased again and the new lease
\* is installed, the client of the old lease cannot pass validate_lease.  An
\* install of the old lease that arrives late evicts the new one.
SupersededStaysOut ==
  [][\A cur \in state.leases, old \in granted :
       (/\ cur.profile = old.profile /\ cur.machine = old.machine /\ cur.id # old.id
        /\ ~HoldsLease(state, old.id)
        /\ A!Accepts(cur.machine, cur.id, cur.profile, clock))
         => ~A!Accepts(old.machine, old.id, old.profile, clock)']_sysVars
=============================================================================
