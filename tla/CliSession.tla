----------------------------- MODULE CliSession -----------------------------
(***************************************************************************)
(* The commands of the client (crates/bcp-client/src/main.rs) against one  *)
(* agent with the recording gateway                                        *)
(* (crates/bcp-core/src/pwright/recording.rs), whose log of actions only   *)
(* tests read and is left out.  A command acquires a profile, installs its *)
(* lease on the agent, ensures the browser, performs one operation and     *)
(* releases the lease.  Any step may fail, which ends the command without  *)
(* a release; operators release, revoke and install leases of others by    *)
(* hand.                                                                   *)
(*                                                                         *)
(* Of the controller only the lease table is kept; Controller shows that   *)
(* it behaves like this.  An operation is validated when it arrives and    *)
(* executed later.  All clocks are the same clock.                         *)
(***************************************************************************)
EXTENDS Integers, FiniteSets

CONSTANTS
  Profile, LeaseId, Session,
  Machine,    \* the agent
  Ttl,        \* what every command asks for
  HandTtl,    \* what the install command asks for
  MaxClock    \* bound: last instant; leases are granted only if they end by then

ASSUME TtlAssumption == Ttl \in Nat \ {0} /\ HandTtl \in Nat /\ MaxClock \in Nat \ {0}

VARIABLES
  clock,
  held,        \* the lease table of the controller
  spent,       \* every lease that was granted
  notices,     \* uninstall calls under way
  installed,   \* the lease table of the agent
  answer,      \* the unapplied answers of the sync loop, at most one
  healthy,     \* the gateway: whether each browser is there
  sessions,    \* the command each client is running
  strays,      \* history: leases that an operator ended or installed by hand
  late         \* history: per lease, the operations executed after it had ended

agentVars == <<notices, installed, answer, healthy>>
histVars == <<strays, late>>
vars == <<clock, held, spent, sessions, agentVars, histVars>>

A == INSTANCE Agent WITH Machine <- {Machine}

Idle == [phase |-> "idle"]

SessionState ==
  {Idle}
    \cup [phase : {"acquired", "installed", "ensuring", "ready", "done"}, lease : A!LocalLease]
    \cup [phase : {"calling"}, lease : A!LocalLease, op : {"use", "stop"}]

Init ==
  /\ clock = 1
  /\ held = {} /\ spent = {}
  /\ notices = {}
  /\ A!Init
  /\ answer = {}
  /\ healthy = [p \in Profile |-> TRUE]
  /\ sessions = [s \in Session |-> Idle]
  /\ strays = {} /\ late = [id \in LeaseId |-> 0]

Live(l) == l \in held /\ clock < l.expires

Expired == {l \in held : l.expires <= clock}

SetSession(s, next) == sessions' = [sessions EXCEPT ![s] = next]

-----------------------------------------------------------------------------
(* The steps of a command. *)

\* The controller grants a free profile; leases past their deadline go silently.
Acquire(s, p, id) ==
  LET l == [id |-> id, profile |-> p, expires |-> clock + Ttl]
  IN  /\ sessions[s] = Idle
      /\ l.expires <= MaxClock
      /\ \A k \in spent : k.id # id
      /\ \A k \in held \ Expired : k.profile # p
      /\ held' = (held \ Expired) \cup {l}
      /\ spent' = spent \cup {l}
      /\ SetSession(s, [phase |-> "acquired", lease |-> l])
      /\ UNCHANGED <<clock, agentVars, histVars>>

InstallLease(s) ==
  /\ sessions[s].phase = "acquired"
  /\ A!InstallLease(Machine, sessions[s].lease)
  /\ SetSession(s, [sessions[s] EXCEPT !.phase = "installed"])
  /\ UNCHANGED <<clock, held, spent, notices, answer, healthy, histVars>>

\* Mutant: an operation is let through for whoever names an installed lease.
MutValidated(s) == \E l \in installed[Machine] : l.id = sessions[s].lease.id

Validated(s) == A!Accepts(Machine, sessions[s].lease.id, sessions[s].lease.profile, clock)

EnsureRequested(s) ==
  /\ sessions[s].phase = "installed"
  /\ Validated(s)
  /\ SetSession(s, [sessions[s] EXCEPT !.phase = "ensuring"])
  /\ UNCHANGED <<clock, held, spent, agentVars, histVars>>

\* An operation is executed, although its lease may have ended since it was let in.
CountLate(l) == late' = IF Live(l) THEN late ELSE [late EXCEPT ![l.id] = @ + 1]

\* Mutant: the browser is taken to be there.
MutEnsureBrowser(s) ==
  /\ sessions[s].phase = "ensuring"
  /\ SetSession(s, [sessions[s] EXCEPT !.phase = "ready"])
  /\ CountLate(sessions[s].lease)
  /\ UNCHANGED <<clock, held, spent, notices, installed, answer, healthy, strays>>

EnsureBrowser(s) ==
  LET l == sessions[s].lease
  IN  /\ sessions[s].phase = "ensuring"
      /\ healthy' = [healthy EXCEPT ![l.profile] = TRUE]
      /\ SetSession(s, [sessions[s] EXCEPT !.phase = "ready"])
      /\ CountLate(l)
      /\ UNCHANGED <<clock, held, spent, notices, installed, answer, strays>>

\* The commands use the page (snapshot, eval, run-script, screenshot, pdf); other
\* clients of the agent also stop the browser.
OperationRequested(s, op) ==
  /\ sessions[s].phase = "ready"
  /\ Validated(s)
  /\ SetSession(s, [phase |-> "calling", lease |-> sessions[s].lease, op |-> op])
  /\ UNCHANGED <<clock, held, spent, agentVars, histVars>>

Operate(s) ==
  LET l == sessions[s].lease
  IN  /\ sessions[s].phase = "calling"
      /\ healthy' = IF sessions[s].op = "stop" THEN [healthy EXCEPT ![l.profile] = FALSE]
                    ELSE healthy
      /\ SetSession(s, [phase |-> "done", lease |-> l])
      /\ CountLate(l)
      /\ UNCHANGED <<clock, held, spent, notices, installed, answer, strays>>

\* The controller frees exactly the lease named and calls the agent.
Free(l) ==
  /\ held' = held \ {l}
  /\ notices' = IF l \in held THEN notices \cup {l.id} ELSE notices

\* Mutant: whoever holds the profile is freed.
MutRelease(s) ==
  /\ sessions[s].phase = "done"
  /\ held' = {k \in held : k.profile # sessions[s].lease.profile}
  /\ SetSession(s, Idle)
  /\ UNCHANGED <<clock, spent, agentVars, histVars>>

\* The last step of a command, however long the ones before took.
Release(s) ==
  /\ sessions[s].phase = "done"
  /\ Free(sessions[s].lease)
  /\ SetSession(s, Idle)
  /\ UNCHANGED <<clock, spent, installed, answer, healthy, histVars>>

\* A step is refused or breaks off, the client dies, or the release is lost: the
\* command is over and its lease is not released.  So ends the acquire command.
CommandFails(s) ==
  /\ sessions[s] # Idle
  /\ SetSession(s, Idle)
  /\ UNCHANGED <<clock, held, spent, agentVars, histVars>>

-----------------------------------------------------------------------------
(* Operators, the controller and the agent. *)

\* The release and quarantine commands, and a machine gone offline.
EndEarly(l) ==
  /\ Live(l)
  /\ Free(l)
  /\ strays' = strays \cup {l.id}
  /\ UNCHANGED <<clock, spent, installed, answer, healthy, sessions, late>>

\* The install command, with any id and profile and a deadline it makes up.
InstallByHand(p, id) ==
  /\ A!InstallLease(Machine, [id |-> id, profile |-> p, expires |-> clock + HandTtl])
  /\ strays' = strays \cup {id}
  /\ UNCHANGED <<clock, held, spent, notices, answer, healthy, sessions, late>>

Sweep ==
  /\ Expired # {}
  /\ held' = held \ Expired
  /\ notices' = notices \cup {l.id : l \in Expired}
  /\ UNCHANGED <<clock, spent, installed, answer, healthy, sessions, histVars>>

DeliverUninstall(id) ==
  /\ notices' = notices \ {id}
  /\ A!UninstallLease(Machine, id)
  /\ UNCHANGED <<clock, held, spent, answer, healthy, sessions, histVars>>

LoseUninstall(id) ==
  /\ notices' = notices \ {id}
  /\ UNCHANGED <<clock, held, spent, installed, answer, healthy, sessions, histVars>>

\* The sync loop of the agent asks for the leases that have not expired.
ListMachineLeases ==
  /\ answer = {}
  /\ answer' = {held \ Expired}
  /\ UNCHANGED <<clock, held, spent, notices, installed, healthy, sessions, histVars>>

ApplySync ==
  /\ \E desired \in answer : A!SyncLeases(Machine, desired)
  /\ answer' = {}
  /\ UNCHANGED <<clock, held, spent, notices, healthy, sessions, histVars>>

\* The fleet manager finds a browser that is not there and starts it, for which it
\* needs no lease.
ReconcileBrowser(p) ==
  /\ ~healthy[p]
  /\ healthy' = [healthy EXCEPT ![p] = TRUE]
  /\ UNCHANGED <<clock, held, spent, notices, installed, answer, sessions, histVars>>

\* The gateway is built anew; the calls under way break off.
RestartAgent ==
  /\ A!RestartAgent(Machine)
  /\ answer' = {}
  /\ healthy' = [p \in Profile |-> TRUE]
  /\ sessions' = [s \in Session |->
       IF sessions[s].phase \in {"ensuring", "calling"} THEN Idle ELSE sessions[s]]
  /\ UNCHANGED <<clock, held, spent, notices, histVars>>

Tick ==
  /\ clock < MaxClock
  /\ clock' = clock + 1
  /\ UNCHANGED <<held, spent, sessions, agentVars, histVars>>

Next ==
  \/ \E s \in Session :
       \/ \E p \in Profile, id \in LeaseId : Acquire(s, p, id)
       \/ InstallLease(s) \/ EnsureRequested(s) \/ EnsureBrowser(s)
       \/ \E op \in {"use", "stop"} : OperationRequested(s, op)
       \/ Operate(s) \/ Release(s) \/ CommandFails(s)
  \/ \E l \in spent : EndEarly(l)
  \/ \E p \in Profile, id \in LeaseId : InstallByHand(p, id)
  \/ Sweep
  \/ \E id \in notices : DeliverUninstall(id) \/ LoseUninstall(id)
  \/ ListMachineLeases \/ ApplySync
  \/ \E p \in Profile : ReconcileBrowser(p)
  \/ RestartAgent
  \/ Tick

Spec == Init /\ [][Next]_vars

-----------------------------------------------------------------------------
(* Correctness. *)

\* The variables have their types.
TypeOK ==
  /\ clock \in 1..MaxClock
  /\ held \subseteq spent /\ spent \subseteq A!LocalLease
  /\ notices \subseteq LeaseId
  /\ A!TypeOK
  /\ answer \subseteq SUBSET A!LocalLease
  /\ healthy \in [Profile -> BOOLEAN]
  /\ sessions \in [Session -> SessionState]
  /\ strays \subseteq LeaseId
  /\ late \in [LeaseId -> Nat]

\* Nobody takes the profile from a command that is within its time, unless an
\* operator does: not a command that failed, nor one that releases long after
\* its own lease has expired and was granted to another.
KeptWhileRunning ==
  \A s \in Session :
    /\ sessions[s] # Idle
    /\ clock < sessions[s].lease.expires
    /\ sessions[s].lease.id \notin strays
    => sessions[s].lease \in held

\* The agent lets an operation in only for the holder of the profile, or for a
\* lease that an operator has ended early or installed by hand.
OperationsFenced ==
  [][\A s \in Session :
       sessions'[s].phase \in {"ensuring", "calling"} /\ sessions[s].phase # sessions'[s].phase
         => Live(sessions[s].lease) \/ sessions[s].lease.id \in strays]_vars

\* The browser a command has ensured is there until the command stops it: no
\* other client gets at it in between, unless a lease on the profile is in the
\* hands of an operator or an operation was let in and executed later.
EnsuredStaysUp ==
  \A s \in Session :
    sessions[s].phase \in {"ready", "calling"} =>
      LET l == sessions[s].lease
      IN  \/ healthy[l.profile]
          \/ ~Live(l)
          \/ \E k \in spent : k.profile = l.profile /\ (k.id \in strays \/ late[k.id] > 0)

\* A lease that has ended reaches the browser, which may be the next holder's by
\* then, with one operation at most: the one that was under way.  Whatever is
\* still installed, listed by a stale answer or to be uninstalled, the command
\* gets no further, unless an operator meddled with its lease.
OneLateOperation == \A id \in LeaseId : id \in strays \/ late[id] <= 1
=============================================================================
