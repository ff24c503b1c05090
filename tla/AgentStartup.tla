---------------------------- MODULE AgentStartup ----------------------------
(***************************************************************************)
(* How a machine controller comes up (crates/bcp-agent/src/main.rs and     *)
(* config.rs): the profiles of the configuration are discovered one after  *)
(* the other, each is given the address of its browser, and the table that *)
(* results is stored; a process without any profile takes the stored ones. *)
(*                                                                         *)
(* A configuration is a sequence of entries, empty when there is neither a *)
(* file nor a variable of the environment.  Profiles of the environment    *)
(* name the address of their browser, as an entry with a cdp_url does.     *)
(* Accounts, labels, paths and the launch command are left out.            *)
(***************************************************************************)
EXTENDS Integers, Sequences, FiniteSets, FiniteSetsExt

CONSTANTS
  Profile,
  Configs,     \* the configurations a process may find
  StartPort,   \* cdp.start_port
  EndPort,     \* cdp.end_port
  PortSpace,   \* 2^16, the values of a u16
  Host,        \* cdp.host
  None

ASSUME PortAssumption ==
  /\ StartPort \in Nat \ {0} /\ EndPort \in Nat /\ StartPort <= EndPort
  /\ PortSpace \in Nat \ {0}

VARIABLES
  phase,    \* how far the process is
  config,   \* the configuration it found
  found,    \* number of entries discovered
  used,     \* ports the allocator has given out or was told of
  routes,   \* the address of the browser of each profile, or None
  db        \* the table agent_profiles

startupVars == <<phase, config, found, used, routes, db>>

\* What a name resolves to on the other machines does not matter: two addresses
\* are the same browser when host and port agree.
Address == [host : STRING, port : Int]

\* parses: the text after the last colon of cdp_url is a number, which it is not
\* when a slash follows.
Entry == [profile : Profile, cdp_url : Address \cup {None}, parses : BOOLEAN,
          cdp_port : Int \cup {None}]

ASSUME ConfigAssumption ==
  /\ Configs \subseteq Seq(Entry)
  /\ Host \in STRING
  /\ None \notin Address

Phase == {"down", "discovering", "storing", "serving"}

NoRoutes == [p \in Profile |-> None]

StartupInit ==
  /\ phase = "down"
  /\ config = << >>
  /\ found = 0
  /\ used = {}
  /\ routes = NoRoutes
  /\ db = NoRoutes

\* A configuration that does not validate ends the process here.
LoadConfig(c) ==
  /\ phase = "down"
  /\ phase' = "discovering"
  /\ config' = c
  /\ UNCHANGED <<found, used, routes, db>>

AutoPort(e) == e.cdp_url = None /\ e.cdp_port = None

\* The port an entry names: cdp_port or else the one parse_cdp_port finds.
NamedPort(e) ==
  IF e.cdp_port # None THEN e.cdp_port
  ELSE IF e.cdp_url # None /\ e.parses THEN e.cdp_url.port ELSE 0

\* Mutant: a port that an entry names is not remembered.
MutReserve(n) == used

Reserve(n) == IF n > 0 THEN used \cup {n} ELSE used

\* Another program listens on the ports in busy.  The number is cut to 16 bits
\* for the attempt, and an attempt on port 0 always succeeds.
IsPortAvailable(n, busy) == n % PortSpace \notin busy

Allocatable(busy) ==
  {n \in StartPort..EndPort : n \notin used /\ IsPortAvailable(n, busy)}

DiscoverNamed(e) ==
  /\ ~AutoPort(e)
  /\ used' = Reserve(NamedPort(e))
  /\ routes' = [routes EXCEPT ![e.profile] =
                  IF e.cdp_url # None THEN e.cdp_url
                  ELSE [host |-> Host, port |-> e.cdp_port]]

Allocate(e, busy) ==
  LET n == Min(Allocatable(busy))
  IN  /\ AutoPort(e)
      /\ Allocatable(busy) # {}
      /\ used' = used \cup {n}
      /\ routes' = [routes EXCEPT ![e.profile] = [host |-> Host, port |-> n]]

\* The next entry; a later entry of the same profile replaces an earlier one.
DiscoverProfile ==
  /\ phase = "discovering"
  /\ found < Len(config)
  /\ \/ DiscoverNamed(config[found + 1])
     \/ \E busy \in SUBSET (1..(PortSpace - 1)) : Allocate(config[found + 1], busy)
  /\ found' = found + 1
  /\ UNCHANGED <<phase, config, db>>

\* Mutant: the stored profiles are not looked at.
MutHydrateProfiles ==
  /\ phase = "discovering"
  /\ found = Len(config)
  /\ phase' = "storing"
  /\ UNCHANGED <<config, found, used, routes, db>>

\* The stored profiles are only for a process that found none.
HydrateProfiles ==
  /\ phase = "discovering"
  /\ found = Len(config)
  /\ phase' = "storing"
  /\ routes' = IF routes = NoRoutes THEN db ELSE routes
  /\ UNCHANGED <<config, found, used, db>>

\* The table is replaced in one transaction; then the services are started.
PersistProfiles ==
  /\ phase = "storing"
  /\ phase' = "serving"
  /\ db' = routes
  /\ UNCHANGED <<config, found, used, routes>>

\* The process ends: an error on the way up (no port left, an account of an
\* unknown platform, SQLite), or a crash at any time.
Exit ==
  /\ phase # "down"
  /\ phase' = "down"
  /\ config' = << >>
  /\ found' = 0
  /\ used' = {}
  /\ routes' = NoRoutes
  /\ UNCHANGED db

StartupNext ==
  \/ \E c \in Configs : LoadConfig(c)
  \/ DiscoverProfile
  \/ HydrateProfiles
  \/ PersistProfiles

StartupTypeOK ==
  /\ phase \in Phase
  /\ config \in Configs \cup {<< >>}
  /\ found \in 0..Len(config)
  /\ used \subseteq Nat
  /\ routes \in [Profile -> Address \cup {None}]
  /\ db \in [Profile -> Address \cup {None}]

-----------------------------------------------------------------------------
(* Correctness. *)

\* The entry that decides the address of its profile.
Effective(i) == \A j \in (i + 1)..Len(config) : config[j].profile # config[i].profile

\* The allocator gives no port away twice.  Two profiles share a browser only if
\* the later entry names its address itself, or the earlier one has an address
\* whose port the allocator was not told.
AllocatedDistinct ==
  phase \in {"storing", "serving"} =>
    \A i, j \in DOMAIN config :
      LET d == config[i]
          e == config[j]
      IN  /\ i < j /\ Effective(i) /\ Effective(j)
          /\ d.profile # e.profile
          /\ routes[d.profile] = routes[e.profile]
          => \/ ~AutoPort(e)
             \/ ~AutoPort(d) /\ NamedPort(d) # routes[d.profile].port

\* The stored table changes only to the complete table of a configuration: a
\* start that fails half-way, or finds no configuration, leaves it as it was.
StoredTableComplete ==
  [][db' # db =>
       /\ config # << >>
       /\ \A p \in Profile :
            db'[p] # None <=> \E i \in DOMAIN config : config[i].profile = p]_startupVars
=============================================================================
