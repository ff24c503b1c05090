--------------------------- MODULE CdpProxyProofs ---------------------------
(***************************************************************************)
(* Theorems about AgentStartup and CdpProxy, for any configurations, any   *)
(* range of ports, any leases and any number of connections.               *)
(***************************************************************************)
EXTENDS CdpProxy, WellFoundedInduction, TLAPS

\* Among the entries discovered so far, i is the one its profile has its address
\* from.
Latest(i) == \A j \in (i + 1)..found : config[j].profile # config[i].profile

\* The allocator was told the port of every entry that names one, and knows the
\* ports it gave to the entries that still count.
Remembered ==
  \A i \in 1..found :
    IF AutoPort(config[i])
      THEN Latest(i) => routes[config[i].profile].port \in used
      ELSE NamedPort(config[i]) > 0 => NamedPort(config[i]) \in used

\* AllocatedDistinct of the entries discovered so far.
DistinctSoFar ==
  \A i, j \in 1..found :
    LET d == config[i]
        e == config[j]
    IN  /\ i < j /\ Latest(i) /\ Latest(j)
        /\ d.profile # e.profile
        /\ routes[d.profile] = routes[e.profile]
        => \/ ~AutoPort(e)
           \/ ~AutoPort(d) /\ NamedPort(d) # routes[d.profile].port

\* The table has exactly the profiles of the entries discovered so far, unless it
\* was taken from the database.
TableOfEntries ==
  \A p \in Profile : routes[p] # None <=> \E i \in 1..found : config[i].profile = p

\* The inductive invariant of a process that comes up.
StartupIInv ==
  /\ StartupTypeOK
  /\ phase = "down" => config = << >> /\ found = 0 /\ routes = NoRoutes
  /\ phase \in {"storing", "serving"} => found = Len(config)
  /\ Remembered
  /\ DistinctSoFar
  /\ ~(phase \in {"storing", "serving"} /\ config = << >>) => TableOfEntries
  /\ phase = "storing" /\ config = << >> => routes = db

-----------------------------------------------------------------------------
(* Helpers. *)

\* The allocator takes a port of the range that is not in use.
LEMMA MinAllocatable ==
  ASSUME NEW busy, Allocatable(busy) # {}
  PROVE  Min(Allocatable(busy)) \in Allocatable(busy)
<1> DEFINE S == Allocatable(busy)
<1>1. S \subseteq Nat
  BY PortAssumption DEF Allocatable
<1> HIDE DEF S
<1>2. S # {}
  BY DEF S
<1>3. PICK x \in S : \A y \in S : ~(<<y, x>> \in OpToRel(<, Nat))
  BY <1>1, <1>2, NatLessThanWellFounded, WFMin
<1>4. \A y \in S : ~(y < x)
  BY <1>1, <1>3, Zenon DEF OpToRel
<1>5. \A y \in S : x <= y
  BY <1>1, <1>4
<1>6. Min(S) \in S
  BY <1>5 DEF Min
<1> QED
  BY <1>6 DEF S

\* An entry is a record, and its named port a number.
LEMMA EntryTyped ==
  ASSUME NEW e \in Entry
  PROVE  /\ e.profile \in Profile
         /\ e.cdp_url \in Address \cup {None}
         /\ e.cdp_port \in Int \cup {None}
         /\ NamedPort(e) \in Int
<1>1. e.profile \in Profile /\ e.cdp_url \in Address \cup {None} /\ e.cdp_port \in Int \cup {None}
  BY DEF Entry
<1>2. NamedPort(e) \in Int
  BY <1>1 DEF NamedPort, Address
<1> QED
  BY <1>1, <1>2

\* The entries of the configuration.
LEMMA ConfigTyped ==
  ASSUME StartupTypeOK
  PROVE  /\ config \in Seq(Entry)
         /\ Len(config) \in Nat /\ DOMAIN config = 1..Len(config)
         /\ found \in Nat
         /\ \A i \in 1..Len(config) : config[i] \in Entry
<1>1. config \in Seq(Entry)
  <2>1. << >> \in Seq(Entry)
    OBVIOUS
  <2>2. config \in Configs \/ config = << >>
    BY DEF StartupTypeOK
  <2> QED
    BY <2>1, <2>2, ConfigAssumption
<1> QED
  BY <1>1 DEF StartupTypeOK

-----------------------------------------------------------------------------
(* The process comes up. *)

\* The next entry e gets the address a.  An allocated port is new, so that no
\* profile that has a remembered one shares it.
LEMMA DiscoverSound ==
  ASSUME StartupIInv, phase = "discovering", found < Len(config),
         NEW e, e = config[found + 1], NEW a \in Address,
         routes' = [routes EXCEPT ![e.profile] = a],
         used \subseteq used', used' \subseteq Nat,
         AutoPort(e) => a.port \in used' \ used /\ a.port > 0,
         ~AutoPort(e) /\ NamedPort(e) > 0 => NamedPort(e) \in used',
         found' = found + 1, UNCHANGED <<phase, config, db>>
  PROVE  StartupIInv'
<1> DEFINE k == found + 1
           LatestThen(i) == \A j \in (i + 1)..k : config[j].profile # config[i].profile
<1>1. /\ config \in Seq(Entry) /\ Len(config) \in Nat /\ found \in Nat
      /\ \A i \in 1..Len(config) : config[i] \in Entry
      /\ StartupTypeOK /\ Remembered /\ DistinctSoFar /\ TableOfEntries
  BY ConfigTyped DEF StartupIInv
<1>2. k \in 1..Len(config) /\ e \in Entry /\ e.profile \in Profile
  BY <1>1, EntryTyped
<1>3. \A i \in 1..found : i \in 1..Len(config) /\ config[i] \in Entry
                          /\ config[i].profile \in Profile /\ NamedPort(config[i]) \in Int
  BY <1>1, EntryTyped
<1>4. routes \in [Profile -> Address \cup {None}]
  BY <1>1 DEF StartupTypeOK
<1>5. StartupTypeOK'
  BY <1>1, <1>2, <1>4 DEF StartupTypeOK
<1>6. /\ routes'[e.profile] = a
      /\ \A p \in Profile : p # e.profile => routes'[p] = routes[p]
  BY <1>2, <1>4
<1>7. \A i : Latest(i)' <=> LatestThen(i)
  BY DEF Latest
<1>8. ASSUME NEW i \in 1..found, LatestThen(i)
      PROVE  Latest(i) /\ config[i].profile # e.profile
             /\ routes'[config[i].profile] = routes[config[i].profile]
  <2>1. \A j \in (i + 1)..found : j \in (i + 1)..k
    BY <1>1
  <2>2. k \in (i + 1)..k
    BY <1>1
  <2>3. config[i].profile # e.profile
    BY <1>8, <2>2
  <2> QED
    BY <1>3, <1>6, <1>8, <2>1, <2>3 DEF Latest
<1>9. \A i \in 1..k : i = k \/ i \in 1..found
  BY <1>1
<1> HIDE DEF LatestThen
<1>10. Remembered'
  <2> SUFFICES ASSUME NEW i \in 1..k
               PROVE  IF AutoPort(config[i])
                        THEN LatestThen(i) => routes'[config[i].profile].port \in used'
                        ELSE NamedPort(config[i]) > 0 => NamedPort(config[i]) \in used'
    BY <1>7 DEF Remembered, AutoPort, NamedPort
  <2>1. CASE i = k
    BY <1>6, <2>1
  <2>2. CASE i \in 1..found
    BY <1>1, <1>8, <2>2 DEF Remembered
  <2> QED
    BY <1>9, <2>1, <2>2
<1>11. DistinctSoFar'
  <2> SUFFICES ASSUME NEW i \in 1..k, NEW j \in 1..k,
                      i < j, LatestThen(i), LatestThen(j),
                      config[i].profile # config[j].profile,
                      routes'[config[i].profile] = routes'[config[j].profile],
                      AutoPort(config[j])
               PROVE  ~AutoPort(config[i])
                      /\ NamedPort(config[i]) # routes'[config[i].profile].port
    BY <1>7 DEF DistinctSoFar, AutoPort, NamedPort
  <2>1. i \in 1..found
    BY <1>1
  <2>2. Latest(i) /\ routes'[config[i].profile] = routes[config[i].profile]
    BY <1>8, <2>1
  <2>3. CASE j \in 1..found
    <3>1. Latest(j) /\ routes'[config[j].profile] = routes[config[j].profile]
      BY <1>8, <2>3
    <3> QED
      BY <1>1, <2>1, <2>2, <2>3, <3>1 DEF DistinctSoFar
  <2>4. CASE j = k
    <3>1. routes[config[i].profile] = a /\ a.port \notin used /\ a.port > 0
      BY <1>6, <2>2, <2>4
    <3> QED
      BY <1>1, <2>1, <2>2, <3>1 DEF Remembered
  <2> QED
    BY <1>9, <2>3, <2>4
<1>12. TableOfEntries'
  <2> SUFFICES ASSUME NEW p \in Profile
               PROVE  routes'[p] # None <=> \E i \in 1..k : config[i].profile = p
    BY DEF TableOfEntries
  <2>1. CASE p = e.profile
    <3>1. a # None
      BY ConfigAssumption
    <3>2. k \in 1..k
      BY <1>1
    <3> QED
      BY <1>6, <2>1, <3>1, <3>2
  <2>2. CASE p # e.profile
    <3>1. \A i \in 1..k : config[i].profile = p => i \in 1..found
      BY <1>9, <2>2
    <3>2. \A i \in 1..found : i \in 1..k
      BY <1>1
    <3> QED
      BY <1>1, <1>6, <2>2, <3>1, <3>2 DEF TableOfEntries
  <2> QED
    BY <2>1, <2>2
<1> QED
  BY <1>5, <1>10, <1>11, <1>12 DEF StartupIInv

\* An entry that names its browser.
LEMMA NamedStartupIInv ==
  ASSUME StartupIInv, phase = "discovering", found < Len(config),
         DiscoverNamed(config[found + 1]),
         found' = found + 1, UNCHANGED <<phase, config, db>>
  PROVE  StartupIInv'
<1> DEFINE e == config[found + 1]
           a == IF e.cdp_url # None THEN e.cdp_url ELSE [host |-> Host, port |-> e.cdp_port]
<1>1. found + 1 \in 1..Len(config) /\ e \in Entry
  BY ConfigTyped DEF StartupIInv
<1>2. NamedPort(e) \in Int /\ e.cdp_url \in Address \cup {None} /\ e.cdp_port \in Int \cup {None}
  BY <1>1, EntryTyped
<1>3. ~AutoPort(e) /\ used' = Reserve(NamedPort(e)) /\ routes' = [routes EXCEPT ![e.profile] = a]
  BY DEF DiscoverNamed
<1>4. a \in Address
  BY <1>2, <1>3, ConfigAssumption DEF AutoPort, Address
<1>5. /\ used \subseteq used' /\ used' \subseteq Nat
      /\ NamedPort(e) > 0 => NamedPort(e) \in used'
  <2> DEFINE n == NamedPort(e)
  <2>1. n \in Int /\ used' = Reserve(n) /\ used \subseteq Nat
    BY <1>2, <1>3 DEF StartupIInv, StartupTypeOK
  <2> HIDE DEF n, e
  <2>2. n > 0 => n \in Nat
    BY <2>1
  <2>3. /\ used \subseteq used' /\ used' \subseteq Nat
        /\ n > 0 => n \in used'
    BY <2>1, <2>2 DEF Reserve
  <2> QED
    BY <2>3 DEF n
<1> HIDE DEF a
<1> QED
  BY <1>3, <1>4, <1>5, DiscoverSound

\* An entry that leaves the port to the allocator.
LEMMA AllocateStartupIInv ==
  ASSUME StartupIInv, phase = "discovering", found < Len(config),
         NEW busy, Allocate(config[found + 1], busy),
         found' = found + 1, UNCHANGED <<phase, config, db>>
  PROVE  StartupIInv'
<1> DEFINE e == config[found + 1]
           n == Min(Allocatable(busy))
           a == [host |-> Host, port |-> n]
<1>1. AutoPort(e) /\ used' = used \cup {n} /\ routes' = [routes EXCEPT ![e.profile] = a]
  BY DEF Allocate
<1>2. n \in Allocatable(busy)
  BY MinAllocatable DEF Allocate
<1> HIDE DEF n
<1>3. n \in Nat /\ n > 0 /\ n \notin used
  BY <1>2, PortAssumption DEF Allocatable
<1>4. a \in Address /\ a.port = n
  BY <1>3, ConfigAssumption DEF Address
<1>5. used \subseteq used' /\ used' \subseteq Nat
  BY <1>1, <1>3 DEF StartupIInv, StartupTypeOK
<1> HIDE DEF a
<1> QED
  BY <1>1, <1>3, <1>4, <1>5, DiscoverSound

\* A process that found no entry takes the stored table.
LEMMA HydrateStartupIInv ==
  ASSUME StartupIInv, HydrateProfiles
  PROVE  StartupIInv'
<1>1. /\ config \in Seq(Entry) /\ Len(config) \in Nat
      /\ \A i \in 1..Len(config) : config[i] \in Entry
  BY ConfigTyped DEF StartupIInv
<1>2. /\ phase = "discovering" /\ found = Len(config) /\ phase' = "storing"
      /\ routes' = IF routes = NoRoutes THEN db ELSE routes
      /\ UNCHANGED <<config, found, used, db>>
      /\ StartupTypeOK /\ Remembered /\ DistinctSoFar /\ TableOfEntries
  BY DEF HydrateProfiles, StartupIInv
<1>3. StartupTypeOK'
  BY <1>2 DEF StartupTypeOK, Phase
<1>4. CASE config = << >>
  <2>1. found = 0
    BY <1>2, <1>4
  <2>2. routes = NoRoutes
    BY <1>2, <2>1 DEF TableOfEntries, StartupTypeOK, NoRoutes
  <2> QED
    BY <1>2, <1>3, <1>4, <2>1, <2>2 DEF StartupIInv, Remembered, DistinctSoFar
<1>5. CASE config # << >>
  <2>1. 1 \in 1..found /\ config[1].profile \in Profile
    BY <1>1, <1>2, <1>5, EntryTyped
  <2>2. routes # NoRoutes
    BY <1>2, <2>1 DEF TableOfEntries, NoRoutes
  <2>3. UNCHANGED <<routes, config, found, used>>
    BY <1>2, <2>2
  <2>4. Remembered' /\ DistinctSoFar' /\ TableOfEntries'
    BY <1>2, <2>3 DEF Remembered, DistinctSoFar, TableOfEntries, Latest
  <2> QED
    BY <1>2, <1>3, <1>5, <2>3, <2>4 DEF StartupIInv
<1> QED
  BY <1>4, <1>5

\* Every step on the way up, and the end of the process.
LEMMA StartupStepIInv ==
  ASSUME StartupIInv, StartupNext \/ Exit \/ UNCHANGED startupVars
  PROVE  StartupIInv'
<1>1. ASSUME NEW c \in Configs, LoadConfig(c) PROVE StartupIInv'
  <2>1. /\ phase = "down" /\ phase' = "discovering" /\ config' = c
        /\ UNCHANGED <<found, used, routes, db>> /\ found = 0 /\ routes = NoRoutes
        /\ StartupTypeOK
    BY <1>1 DEF LoadConfig, StartupIInv
  <2>2. c \in Seq(Entry)
    BY ConfigAssumption
  <2>3. StartupTypeOK'
    BY <2>1, <2>2 DEF StartupTypeOK, Phase
  <2>4. Remembered' /\ DistinctSoFar' /\ TableOfEntries'
    BY <2>1 DEF Remembered, DistinctSoFar, TableOfEntries, NoRoutes
  <2> QED
    BY <2>1, <2>3, <2>4 DEF StartupIInv
<1>2. CASE DiscoverProfile
  BY <1>2, NamedStartupIInv, AllocateStartupIInv DEF DiscoverProfile
<1>3. CASE HydrateProfiles
  BY <1>3, HydrateStartupIInv
<1>4. CASE PersistProfiles
  <2>1. /\ phase = "storing" /\ phase' = "serving" /\ db' = routes
        /\ UNCHANGED <<config, found, used, routes>> /\ StartupTypeOK
    BY <1>4 DEF PersistProfiles, StartupIInv
  <2>2. StartupTypeOK'
    BY <2>1 DEF StartupTypeOK, Phase
  <2>3. Remembered' /\ DistinctSoFar'
    BY <2>1 DEF StartupIInv, Remembered, DistinctSoFar, Latest
  <2>4. config # << >> => TableOfEntries'
    BY <2>1 DEF StartupIInv, TableOfEntries
  <2> QED
    BY <2>1, <2>2, <2>3, <2>4 DEF StartupIInv
<1>5. CASE Exit
  <2>1. /\ phase' = "down" /\ config' = << >> /\ found' = 0 /\ used' = {}
        /\ routes' = NoRoutes /\ db' = db /\ StartupTypeOK
    BY <1>5 DEF Exit, StartupIInv
  <2>2. StartupTypeOK'
    BY <2>1 DEF StartupTypeOK, Phase, NoRoutes
  <2>3. Remembered' /\ DistinctSoFar' /\ TableOfEntries'
    BY <2>1 DEF Remembered, DistinctSoFar, TableOfEntries, NoRoutes
  <2> QED
    BY <2>1, <2>2, <2>3 DEF StartupIInv
<1>6. CASE UNCHANGED startupVars
  BY <1>6 DEF startupVars, StartupIInv, StartupTypeOK, Remembered, DistinctSoFar,
              TableOfEntries, Latest
<1> QED
  BY <1>1, <1>2, <1>3, <1>4, <1>5, <1>6 DEF StartupNext

\* A process that has not started.
LEMMA StartupInitIInv ==
  ASSUME StartupInit
  PROVE  StartupIInv
<1>1. StartupTypeOK
  BY DEF StartupInit, StartupTypeOK, NoRoutes, Phase
<1>2. Remembered /\ DistinctSoFar /\ TableOfEntries
  BY DEF StartupInit, Remembered, DistinctSoFar, TableOfEntries, NoRoutes
<1> QED
  BY <1>1, <1>2 DEF StartupInit, StartupIInv

\* When the table is complete, the invariant is AllocatedDistinct.
LEMMA DistinctWhenComplete ==
  ASSUME StartupIInv
  PROVE  AllocatedDistinct
<1> SUFFICES ASSUME phase \in {"storing", "serving"} PROVE AllocatedDistinct
  BY DEF AllocatedDistinct
<1>1. found = Len(config) /\ DOMAIN config = 1..found
  BY ConfigTyped DEF StartupIInv
<1>2. \A i : Effective(i) <=> Latest(i)
  BY <1>1 DEF Effective, Latest
<1> QED
  BY <1>1, <1>2 DEF StartupIInv, DistinctSoFar, AllocatedDistinct

\* What a start stores is the table of its configuration.
LEMMA StoresComplete ==
  ASSUME StartupIInv, StartupNext \/ Exit \/ UNCHANGED startupVars, db' # db
  PROVE  /\ config # << >>
         /\ \A p \in Profile :
              db'[p] # None <=> \E i \in DOMAIN config : config[i].profile = p
<1>1. phase = "storing" /\ db' = routes
  BY DEF StartupNext, LoadConfig, DiscoverProfile, HydrateProfiles, PersistProfiles, Exit,
         startupVars
<1>2. config # << >> /\ TableOfEntries
  BY <1>1 DEF StartupIInv
<1>3. DOMAIN config = 1..found
  BY <1>1, ConfigTyped DEF StartupIInv
<1> QED
  BY <1>1, <1>2, <1>3 DEF TableOfEntries

-----------------------------------------------------------------------------
(* The proxy. *)

Live(b) == b.phase \in {"connecting", "open"}

\* A lease on the profile was granted under this id.
Covered(profile, id) == \E l \in Granted : l.id = id /\ l.profile = profile

\* A direction finishes because the peer it reads from cannot be read, or because
\* the one it writes to is gone, so that it owes that one no Close.
Caused(b) ==
  /\ b.toChrome = "closing" => b.client # "up" \/ b.chrome = "gone"
  /\ b.toClient = "closing" => b.chrome # "up" \/ b.client = "gone"

\* A peer that was there and could not be read: the other one, if it is all right,
\* was sent a Close.
Told(b) ==
  /\ b.client # "up" \/ b.chrome # "up"
  /\ b.client = "broken" /\ b.chrome = "up" => "chrome" \in b.closed
  /\ b.chrome = "broken" /\ b.client = "up" => "client" \in b.closed

\* While a bridge lasts the process serves, so that its table stands still, and
\* its directions have a cause to finish.
BridgeOK(b) ==
  /\ b \in Bridge
  /\ Live(b) => phase = "serving" /\ b.addr = routes[b.profile] /\ Caused(b)
  /\ b.phase = "ended" => Told(b)

Bridges == bridges \in [Conn -> Bridge] /\ \A c \in Conn : BridgeOK(bridges[c])

\* The table of the agent holds granted leases, and whatever was authorised by it
\* goes back to one of them.
Authority ==
  /\ A!TypeOK /\ installed[Host] \subseteq Granted
  /\ urls \subseteq [profile : Profile, lease : LeaseId] /\ UrlCarriesAuthority
  /\ call \in Call /\ (call # NoCall => Covered(call.profile, call.lease))

\* The inductive invariant.
IInv == StartupIInv /\ now \in 1..MaxClock /\ Authority /\ Bridges

\* The empty state.
LEMMA InitIInv == Init => IInv
<1> SUFFICES ASSUME Init PROVE IInv
  OBVIOUS
<1>1. StartupIInv
  BY StartupInitIInv DEF Init
<1>2. now \in 1..MaxClock
  BY GrantedAssumption DEF Init
<1>3. Authority
  BY DEF Init, A!Init, Authority, A!TypeOK, UrlCarriesAuthority, Call
<1>4. Bridges
  BY DEF Init, Bridges, BridgeOK, Bridge, Unused, Live
<1> QED
  BY <1>1, <1>2, <1>3, <1>4 DEF IInv

\* What authorises was granted.
LEMMA AuthorizedCovered ==
  ASSUME Authority, NEW p \in Profile, NEW token \in Credential, Authorize(p, token)
  PROVE  /\ token \in LeaseId /\ Covered(p, token)
         /\ \E l \in Granted : l.id = token /\ A!Accepts(Host, token, l.profile, now)
<1>1. token \in LeaseId
  BY DEF Authorize, Credential
<1>2. PICK l \in installed[Host] : l.id = token /\ l.profile = p
  BY DEF Authorize, A!Accepts
<1>3. l \in Granted /\ A!Accepts(Host, token, l.profile, now)
  BY <1>2 DEF Authorize, Authority
<1> QED
  BY <1>1, <1>2, <1>3 DEF Covered

\* The table keeps to what was granted.
LEMMA TableAuthority ==
  ASSUME Authority, NEW table \in SUBSET Granted,
         installed' = [installed EXCEPT ![Host] = table],
         UNCHANGED <<urls, call>>
  PROVE  Authority'
<1>1. table \subseteq A!LocalLease
  BY GrantedAssumption
<1>2. A!TypeOK' /\ installed'[Host] = table
  BY <1>1 DEF Authority, A!TypeOK
<1> QED
  BY <1>2 DEF Authority, UrlCarriesAuthority

\* Nothing that the bridges rest on changes.
LEMMA SameBridges ==
  ASSUME Bridges, UNCHANGED <<bridges, phase, routes>>
  PROVE  Bridges'
BY DEF Bridges, BridgeOK

\* Nothing that the table and the calls rest on changes.
LEMMA SameAuthority ==
  ASSUME Authority, UNCHANGED <<installed, urls, call>>
  PROVE  Authority'
BY DEF Authority, A!TypeOK, UrlCarriesAuthority

\* Startup steps happen only while there is no bridge.
LEMMA StartupBridges ==
  ASSUME Bridges, StartupNext, UNCHANGED bridges
  PROVE  Bridges'
<1>1. phase # "serving"
  BY DEF StartupNext, LoadConfig, DiscoverProfile, HydrateProfiles, PersistProfiles
<1>2. \A c \in Conn : ~Live(bridges[c])
  BY <1>1 DEF Bridges, BridgeOK
<1> QED
  BY <1>2 DEF Bridges, BridgeOK, Live

\* A bridge changes into one that is in order.
LEMMA SetBridgeIInv ==
  ASSUME IInv, NEW c \in Conn, NEW b, SetBridge(c, b), BridgeOK(b)
  PROVE  IInv'
<1>1. /\ UNCHANGED <<startupVars, now, installed, urls, call, phase, routes>>
      /\ bridges' = [bridges EXCEPT ![c] = b]
  BY DEF SetBridge, startupVars
<1>2. StartupIInv' /\ Authority'
  BY <1>1, StartupStepIInv, SameAuthority DEF IInv
<1>3. b \in Bridge
  BY DEF BridgeOK
<1>4. bridges' \in [Conn -> Bridge]
  BY <1>1, <1>3 DEF IInv, Bridges
<1>5. \A d \in Conn : bridges'[d] = IF d = c THEN b ELSE bridges[d]
  BY <1>1 DEF IInv, Bridges
<1>6. \A d \in Conn : BridgeOK(bridges'[d])
  BY <1>5 DEF IInv, Bridges
<1>7. \A d \in Conn : BridgeOK(bridges[d])'
  BY <1>1, <1>6 DEF BridgeOK, Live
<1> QED
  BY <1>1, <1>2, <1>4, <1>7 DEF IInv, Bridges

\* A connection that was made.
BridgeRecord ==
  [phase : {"connecting", "open", "ended"},
   profile : Profile, lease : LeaseId, addr : Address,
   client : Peer, chrome : Peer,
   toChrome : {"relay", "closing"}, toClient : {"relay", "closing"},
   closed : SUBSET {"client", "chrome"}]

\* A lease of this id opens something on the machine now.
Accepted(id) == \E l \in Granted : l.id = id /\ A!Accepts(Host, id, l.profile, now)

\* A bridge that lasts was there before, under the same lease, or its lease has
\* just been accepted.
Continues(old, b) == Live(b) => (Live(old) /\ b.lease = old.lease) \/ Accepted(b.lease)

\* A connection moves on: it neither reopens nor moves to another browser, and
\* finishes for a cause.
LEMMA MoveOK ==
  ASSUME NEW b, BridgeOK(b), Live(b), NEW t, t \in BridgeRecord,
         t.profile = b.profile, t.lease = b.lease, t.addr = b.addr,
         IF t.phase = "ended" THEN Told(t) ELSE Caused(t)
  PROVE  BridgeOK(t) /\ Continues(b, t)
<1>1. t \in Bridge
  BY DEF BridgeRecord, Bridge
<1> QED
  BY <1>1 DEF BridgeOK, Continues, Live

\* Every step of a connection.
LEMMA BridgeStepSound ==
  ASSUME IInv, NEW c \in Conn, BridgeStep(c)
  PROVE  \E b : SetBridge(c, b) /\ BridgeOK(b) /\ Continues(bridges[c], b)
<1> DEFINE old == bridges[c]
<1>1. BridgeOK(old)
  BY DEF IInv, Bridges
<1>2. Live(old) => old \in BridgeRecord
  BY <1>1 DEF BridgeOK, Bridge, BridgeRecord, Unused, Live
<1>3. ASSUME NEW p \in Profile, NEW query \in Credential, NEW header \in Credential,
             WsUpgrade(c, p, query, header)
      PROVE  \E b : SetBridge(c, b) /\ BridgeOK(b) /\ Continues(old, b)
  <2> DEFINE token == ExtractToken(query, header)
             t == [phase |-> "connecting", profile |-> p, lease |-> token,
                   addr |-> routes[p], client |-> "up", chrome |-> "up",
                   toChrome |-> "relay", toClient |-> "relay", closed |-> {}]
  <2>1. /\ phase = "serving" /\ Authorize(p, token) /\ routes[p] # None
        /\ SetBridge(c, t)
    BY <1>3 DEF WsUpgrade
  <2>2. token \in Credential
    BY DEF ExtractToken
  <2> HIDE DEF token
  <2>3. token \in LeaseId /\ Accepted(token)
    BY <2>1, <2>2, AuthorizedCovered DEF IInv, Accepted
  <2>4. routes[p] \in Address
    BY <2>1 DEF IInv, StartupIInv, StartupTypeOK
  <2>5. t \in BridgeRecord
    BY <2>3, <2>4 DEF BridgeRecord, Peer
  <2>6. t \in Bridge
    BY <2>5 DEF BridgeRecord, Bridge
  <2>7. BridgeOK(t) /\ Continues(old, t)
    BY <2>1, <2>3, <2>6 DEF BridgeOK, Caused, Continues, Live
  <2> QED
    BY <2>1, <2>7
<1>4. CASE BridgeConnected(c)
  <2> DEFINE t == [old EXCEPT !.phase = "open"]
  <2>1. old.phase = "connecting" /\ SetBridge(c, t)
    BY <1>4 DEF BridgeConnected
  <2>2. Live(old) /\ old \in BridgeRecord
    BY <1>2, <2>1 DEF Live
  <2>3. t \in BridgeRecord
    BY <2>2 DEF BridgeRecord, Peer
  <2> QED
    BY <1>1, <2>1, <2>2, <2>3, MoveOK DEF BridgeRecord, Peer, BridgeOK, Caused, Told
<1>5. CASE ConnectFailed(c)
  <2> DEFINE t == [old EXCEPT !.phase = "ended", !.chrome = "gone"]
  <2>1. old.phase = "connecting" /\ SetBridge(c, t)
    BY <1>5 DEF ConnectFailed
  <2>2. Live(old) /\ old \in BridgeRecord
    BY <1>2, <2>1 DEF Live
  <2>3. t \in BridgeRecord
    BY <2>2 DEF BridgeRecord, Peer
  <2> QED
    BY <1>1, <2>1, <2>2, <2>3, MoveOK DEF BridgeRecord, Peer, BridgeOK, Caused, Told
<1>6. CASE ClientGone(c)
  <2> DEFINE t == [old EXCEPT !.client = "gone"]
  <2>1. old.phase \in {"connecting", "open"} /\ SetBridge(c, t)
    BY <1>6 DEF ClientGone
  <2>2. Live(old) /\ old \in BridgeRecord
    BY <1>2, <2>1 DEF Live
  <2>3. t \in BridgeRecord
    BY <2>2 DEF BridgeRecord, Peer
  <2> QED
    BY <1>1, <2>1, <2>2, <2>3, MoveOK DEF BridgeRecord, Peer, BridgeOK, Caused, Told
<1>7. CASE ChromeGone(c)
  <2> DEFINE t == [old EXCEPT !.chrome = "gone"]
  <2>1. old.phase = "open" /\ SetBridge(c, t)
    BY <1>7 DEF ChromeGone
  <2>2. Live(old) /\ old \in BridgeRecord
    BY <1>2, <2>1 DEF Live
  <2>3. t \in BridgeRecord
    BY <2>2 DEF BridgeRecord, Peer
  <2> QED
    BY <1>1, <2>1, <2>2, <2>3, MoveOK DEF BridgeRecord, Peer, BridgeOK, Caused, Told
<1>8. CASE ClientReadEnds(c)
  <2> DEFINE t == [old EXCEPT !.toChrome = "closing"]
  <2>1. old.phase = "open" /\ old.client # "up" /\ SetBridge(c, t)
    BY <1>8 DEF ClientReadEnds
  <2>2. Live(old) /\ old \in BridgeRecord
    BY <1>2, <2>1 DEF Live
  <2>3. t \in BridgeRecord
    BY <2>2 DEF BridgeRecord, Peer
  <2> QED
    BY <1>1, <2>1, <2>2, <2>3, MoveOK DEF BridgeRecord, Peer, BridgeOK, Caused, Told
<1>9. CASE SendToChromeFails(c)
  <2> DEFINE t == [old EXCEPT !.toChrome = "closing"]
  <2>1. old.phase = "open" /\ old.chrome = "gone" /\ SetBridge(c, t)
    BY <1>9 DEF SendToChromeFails
  <2>2. Live(old) /\ old \in BridgeRecord
    BY <1>2, <2>1 DEF Live
  <2>3. t \in BridgeRecord
    BY <2>2 DEF BridgeRecord, Peer
  <2> QED
    BY <1>1, <2>1, <2>2, <2>3, MoveOK DEF BridgeRecord, Peer, BridgeOK, Caused, Told
<1>10. CASE ChromeReadEnds(c)
  <2> DEFINE t == [old EXCEPT !.toClient = "closing"]
  <2>1. old.phase = "open" /\ old.chrome # "up" /\ SetBridge(c, t)
    BY <1>10 DEF ChromeReadEnds
  <2>2. Live(old) /\ old \in BridgeRecord
    BY <1>2, <2>1 DEF Live
  <2>3. t \in BridgeRecord
    BY <2>2 DEF BridgeRecord, Peer
  <2> QED
    BY <1>1, <2>1, <2>2, <2>3, MoveOK DEF BridgeRecord, Peer, BridgeOK, Caused, Told
<1>11. CASE SendToClientFails(c)
  <2> DEFINE t == [old EXCEPT !.toClient = "closing"]
  <2>1. old.phase = "open" /\ old.client = "gone" /\ SetBridge(c, t)
    BY <1>11 DEF SendToClientFails
  <2>2. Live(old) /\ old \in BridgeRecord
    BY <1>2, <2>1 DEF Live
  <2>3. t \in BridgeRecord
    BY <2>2 DEF BridgeRecord, Peer
  <2> QED
    BY <1>1, <2>1, <2>2, <2>3, MoveOK DEF BridgeRecord, Peer, BridgeOK, Caused, Told
<1>12. CASE CloseChrome(c)
  <2> DEFINE t == [old EXCEPT
                    !.phase = "ended",
                    !.closed = IF old.chrome # "gone" THEN @ \cup {"chrome"} ELSE @]
  <2>1. old.phase = "open" /\ old.toChrome = "closing" /\ SetBridge(c, t)
    BY <1>12 DEF CloseChrome
  <2>2. Live(old) /\ old \in BridgeRecord
    BY <1>2, <2>1 DEF Live
  <2>3. t \in BridgeRecord
    BY <2>2 DEF BridgeRecord, Peer
  <2> QED
    BY <1>1, <2>1, <2>2, <2>3, MoveOK DEF BridgeRecord, Peer, BridgeOK, Caused, Told
<1>13. CASE CloseClient(c)
  <2> DEFINE t == [old EXCEPT
                    !.phase = "ended",
                    !.closed = IF old.client # "gone" THEN @ \cup {"client"} ELSE @]
  <2>1. old.phase = "open" /\ old.toClient = "closing" /\ SetBridge(c, t)
    BY <1>13 DEF CloseClient
  <2>2. Live(old) /\ old \in BridgeRecord
    BY <1>2, <2>1 DEF Live
  <2>3. t \in BridgeRecord
    BY <2>2 DEF BridgeRecord, Peer
  <2> QED
    BY <1>1, <2>1, <2>2, <2>3, MoveOK DEF BridgeRecord, Peer, BridgeOK, Caused, Told
<1>14. CASE ClientFails(c)
  <2> DEFINE t == [old EXCEPT !.client = "broken"]
  <2>1. old.phase \in {"connecting", "open"} /\ old.client = "up" /\ SetBridge(c, t)
    BY <1>14 DEF ClientFails
  <2>2. Live(old) /\ old \in BridgeRecord
    BY <1>2, <2>1 DEF Live
  <2>3. t \in BridgeRecord
    BY <2>2 DEF BridgeRecord, Peer
  <2> QED
    BY <1>1, <2>1, <2>2, <2>3, MoveOK DEF BridgeRecord, Peer, BridgeOK, Caused, Told
<1>15. CASE ChromeFails(c)
  <2> DEFINE t == [old EXCEPT !.chrome = "broken"]
  <2>1. old.phase = "open" /\ old.chrome = "up" /\ SetBridge(c, t)
    BY <1>15 DEF ChromeFails
  <2>2. Live(old) /\ old \in BridgeRecord
    BY <1>2, <2>1 DEF Live
  <2>3. t \in BridgeRecord
    BY <2>2 DEF BridgeRecord, Peer
  <2> QED
    BY <1>1, <2>1, <2>2, <2>3, MoveOK DEF BridgeRecord, Peer, BridgeOK, Caused, Told
<1> QED
  BY <1>3, <1>4, <1>5, <1>6, <1>7, <1>8, <1>9, <1>10, <1>11, <1>12, <1>13, <1>14, <1>15
  DEF BridgeStep

\* Every step keeps the invariant.
LEMMA NextIInv ==
  ASSUME IInv, [Next]_vars
  PROVE  IInv'
<1>1. ASSUME Startup PROVE IInv'
  <2>1. StartupIInv'
    BY <1>1, StartupStepIInv DEF Startup, IInv
  <2>2. Authority' /\ Bridges'
    BY <1>1, SameAuthority, StartupBridges DEF Startup, proxyVars, IInv
  <2> QED
    BY <1>1, <2>1, <2>2 DEF Startup, IInv
<1>2. ASSUME ProcessExit PROVE IInv'
  <2>1. StartupIInv'
    BY <1>2, StartupStepIInv DEF ProcessExit, IInv
  <2>2. Authority'
    BY <1>2 DEF ProcessExit, A!RestartAgent, IInv, Authority, A!TypeOK, UrlCarriesAuthority, Call
  <2>3. Bridges'
    BY <1>2 DEF ProcessExit, Bridges, BridgeOK, Bridge, Unused, Live
  <2> QED
    BY <1>2, <2>1, <2>2, <2>3 DEF ProcessExit, IInv
<1>3. ASSUME Tick PROVE IInv'
  <2>1. StartupIInv' /\ Authority' /\ Bridges'
    BY <1>3, StartupStepIInv, SameAuthority, SameBridges DEF Tick, startupVars, proxyVars, IInv
  <2>2. now' \in 1..MaxClock
    BY <1>3, GrantedAssumption DEF Tick, IInv
  <2> QED
    BY <2>1, <2>2 DEF IInv
<1>4. ASSUME NEW table \in SUBSET Granted,
             installed' = [installed EXCEPT ![Host] = table],
             UNCHANGED <<startupVars, now, proxyVars>>
      PROVE  IInv'
  <2>1. StartupIInv' /\ Bridges'
    BY <1>4, StartupStepIInv, SameBridges DEF startupVars, proxyVars, IInv
  <2>2. Authority'
    BY <1>4, TableAuthority DEF proxyVars, IInv
  <2> QED
    BY <1>4, <2>1, <2>2 DEF IInv
<1>5. ASSUME NEW l \in Granted, InstallLease(l) PROVE IInv'
  <2> DEFINE table == {x \in installed[Host] : x.profile # l.profile /\ x.id # l.id} \cup {l}
  <2>1. table \subseteq Granted
    BY DEF IInv, Authority
  <2>2. installed' = [installed EXCEPT ![Host] = table]
    BY <1>5 DEF InstallLease, A!InstallLease
  <2> QED
    BY <1>4, <1>5, <2>1, <2>2 DEF InstallLease
<1>6. ASSUME NEW l \in Granted, UninstallLease(l.id) PROVE IInv'
  <2> DEFINE table == {x \in installed[Host] : x.id # l.id}
  <2>1. table \subseteq Granted
    BY DEF IInv, Authority
  <2>2. installed' = [installed EXCEPT ![Host] = table]
    BY <1>6 DEF UninstallLease, A!UninstallLease
  <2> QED
    BY <1>4, <1>6, <2>1, <2>2 DEF UninstallLease
<1>7. ASSUME NEW desired \in SUBSET Granted, SyncLeases(desired) PROVE IInv'
  BY <1>4, <1>7 DEF SyncLeases, A!SyncLeases
<1>8. ASSUME NEW kind \in {"json", "operation"}, NEW p \in Profile, NEW token \in Credential,
             Begin(kind, p, token)
      PROVE  IInv'
  <2>1. /\ Authorize(p, token) /\ call' = [kind |-> kind, profile |-> p, lease |-> token]
        /\ UNCHANGED <<startupVars, now, installed, urls, bridges>>
    BY <1>8 DEF Begin
  <2>2. token \in LeaseId /\ Covered(p, token)
    BY <2>1, AuthorizedCovered DEF IInv
  <2>3. Authority'
    BY <2>1, <2>2 DEF IInv, Authority, A!TypeOK, UrlCarriesAuthority, Call, Covered
  <2>4. StartupIInv' /\ Bridges'
    BY <2>1, StartupStepIInv, SameBridges DEF startupVars, IInv
  <2> QED
    BY <2>1, <2>3, <2>4 DEF IInv
<1>9. ASSUME NEW p \in Profile, NEW query \in Credential, NEW header \in Credential,
             ProxyJson(p, query, header) \/ JsonNew(p, query, header)
      PROVE  IInv'
  <2>1. ExtractToken(query, header) \in Credential /\ NewToken(query, header) \in Credential
    BY DEF ExtractToken, NewToken
  <2> QED
    BY <1>8, <1>9, <2>1 DEF ProxyJson, JsonNew
<1>10. ASSUME NEW p \in Profile, NEW id \in LeaseId, Operation(p, id) PROVE IInv'
  BY <1>8, <1>10 DEF Operation, Credential
<1>11. ASSUME RewriteWsUrls \/ CallEnds PROVE IInv'
  <2>1. UNCHANGED <<startupVars, now, installed, bridges>> /\ call' = NoCall
    BY <1>11 DEF RewriteWsUrls, CallEnds
  <2>2. StartupIInv' /\ Bridges'
    BY <2>1, StartupStepIInv, SameBridges DEF startupVars, IInv
  <2>3. Authority'
    <3>1. CASE CallEnds
      BY <2>1, <3>1 DEF CallEnds, IInv, Authority, A!TypeOK, UrlCarriesAuthority, Call
    <3>2. CASE RewriteWsUrls
      <4> DEFINE u == [profile |-> call.profile, lease |-> call.lease]
      <4>1. call.kind = "json" /\ urls' = urls \cup {u}
        BY <3>2 DEF RewriteWsUrls
      <4>2. call # NoCall
        BY <4>1 DEF NoCall
      <4>3. u \in [profile : Profile, lease : LeaseId] /\ Covered(u.profile, u.lease)
        BY <4>2 DEF IInv, Authority, Call
      <4> HIDE DEF u
      <4>4. UrlCarriesAuthority'
        BY <4>1, <4>3 DEF IInv, Authority, UrlCarriesAuthority, Covered
      <4> QED
        BY <2>1, <4>1, <4>3, <4>4 DEF IInv, Authority, A!TypeOK, Call
    <3> QED
      BY <1>11, <3>1, <3>2
  <2> QED
    BY <2>1, <2>2, <2>3 DEF IInv
<1>12. ASSUME NEW c \in Conn, BridgeStep(c) PROVE IInv'
  BY <1>12, BridgeStepSound, SetBridgeIInv
<1>13. ASSUME UNCHANGED vars PROVE IInv'
  BY <1>13, StartupStepIInv, SameAuthority, SameBridges DEF vars, startupVars, IInv
<1> QED
  BY <1>1, <1>2, <1>3, <1>5, <1>6, <1>7, <1>9, <1>10, <1>11, <1>12, <1>13 DEF Next

\* In a state that satisfies the invariant, nothing starts for a lease that is
\* not accepted.
LEMMA NobodyNewDrives ==
  ASSUME IInv, [Next]_vars, NEW id \in LeaseId, ~Accepted(id)
  PROVE  Driving(id)' \subseteq Driving(id)
<1>1. ASSUME UNCHANGED <<call, bridges>> PROVE Driving(id)' = Driving(id)
  BY <1>1 DEF Driving
<1>2. ASSUME call' = NoCall, bridges' = bridges PROVE Driving(id)' \subseteq Driving(id)
  BY <1>2 DEF Driving
<1>3. ASSUME ProcessExit PROVE Driving(id)' = {}
  BY <1>3 DEF ProcessExit, Driving, Unused
<1>4. ASSUME NEW kind \in {"json", "operation"}, NEW p \in Profile, NEW token \in Credential,
             Begin(kind, p, token)
      PROVE  Driving(id)' \subseteq Driving(id)
  <2>1. token # id
    BY <1>4, AuthorizedCovered DEF Begin, IInv, Accepted
  <2> QED
    BY <1>4, <2>1 DEF Begin, Driving
<1>5. ASSUME NEW p \in Profile, NEW query \in Credential, NEW header \in Credential,
             ProxyJson(p, query, header) \/ JsonNew(p, query, header)
      PROVE  Driving(id)' \subseteq Driving(id)
  <2>1. ExtractToken(query, header) \in Credential /\ NewToken(query, header) \in Credential
    BY DEF ExtractToken, NewToken
  <2> QED
    BY <1>4, <1>5, <2>1 DEF ProxyJson, JsonNew
<1>6. ASSUME NEW p \in Profile, NEW i \in LeaseId, Operation(p, i)
      PROVE  Driving(id)' \subseteq Driving(id)
  BY <1>4, <1>6 DEF Operation, Credential
<1>7. ASSUME NEW c \in Conn, BridgeStep(c) PROVE Driving(id)' \subseteq Driving(id)
  <2>1. PICK b : SetBridge(c, b) /\ Continues(bridges[c], b)
    BY <1>7, BridgeStepSound
  <2>2. call' = call /\ \A d \in Conn : bridges'[d] = IF d = c THEN b ELSE bridges[d]
    BY <2>1 DEF SetBridge, IInv, Bridges
  <2>3. \A d \in Conn : Live(bridges'[d]) /\ bridges'[d].lease = id =>
                          Live(bridges[d]) /\ bridges[d].lease = id
    BY <2>1, <2>2 DEF Continues
  <2> QED
    BY <2>2, <2>3 DEF Driving, Live
<1>8. ASSUME Startup \/ Tick \/ UNCHANGED vars PROVE UNCHANGED <<call, bridges>>
  BY <1>8 DEF Startup, Tick, proxyVars, vars
<1>9. ASSUME NEW l \in Granted, InstallLease(l) \/ UninstallLease(l.id)
      PROVE  UNCHANGED <<call, bridges>>
  BY <1>9 DEF InstallLease, UninstallLease, proxyVars
<1>10. ASSUME NEW desired \in SUBSET Granted, SyncLeases(desired)
       PROVE  UNCHANGED <<call, bridges>>
  BY <1>10 DEF SyncLeases, proxyVars
<1>11. ASSUME RewriteWsUrls \/ CallEnds PROVE call' = NoCall /\ bridges' = bridges
  BY <1>11 DEF RewriteWsUrls, CallEnds
<1> QED
  BY <1>1, <1>2, <1>3, <1>5, <1>6, <1>7, <1>8, <1>9, <1>10, <1>11 DEF Next

-----------------------------------------------------------------------------
(* Results. *)

\* The invariant holds throughout.
THEOREM Invariance == Spec => []IInv
BY InitIInv, NextIInv, PTL DEF Spec

\* The variables have their types.
THEOREM TypeCorrect == Spec => []TypeOK
<1>1. IInv => TypeOK
  BY DEF IInv, TypeOK, StartupIInv, Authority, Bridges
<1> QED
  BY <1>1, Invariance, PTL

\* The allocator gives no port away twice, whatever the configuration and whichever
\* ports other programs take in the meantime.
THEOREM PortsDistinct == Spec => []AllocatedDistinct
<1>1. IInv => AllocatedDistinct
  BY DistinctWhenComplete DEF IInv
<1> QED
  BY <1>1, Invariance, PTL

\* A URL that was handed out carries the credential of a lease on its profile.
THEOREM UrlsAuthorised == Spec => []UrlCarriesAuthority
<1>1. IInv => UrlCarriesAuthority
  BY DEF IInv, Authority
<1> QED
  BY <1>1, Invariance, PTL

\* No bridge ends while both its peers can be read, an error of a peer that is
\* there reaches the other one as a Close, and a bridge leads to the browser of
\* its profile while it lasts.
THEOREM EndsTold == Spec => []EndReachesPeer
<1>1. IInv => EndReachesPeer
  BY DEF IInv, Bridges, BridgeOK, Live, Told, EndReachesPeer
<1> QED
  BY <1>1, Invariance, PTL

\* A start stores nothing but the complete table of its configuration.
THEOREM StoredComplete == Spec => StoredTableComplete
<1> DEFINE Listed(p) == db'[p] # None <=> \E i \in DOMAIN config : config[i].profile = p
<1>1. IInv /\ [Next]_vars =>
        [db' # db => config # << >> /\ \A p \in Profile : Listed(p)]_startupVars
  <2> SUFFICES ASSUME IInv, [Next]_vars, ~UNCHANGED startupVars, db' # db
               PROVE  config # << >> /\ \A p \in Profile : Listed(p)
    OBVIOUS
  <2>1. StartupNext \/ Exit
    BY DEF Next, vars, Startup, ProcessExit, Tick, InstallLease, UninstallLease, SyncLeases,
           ProxyJson, JsonNew, Operation, Begin, RewriteWsUrls, CallEnds, BridgeStep, WsUpgrade,
           BridgeConnected, ConnectFailed, ClientGone, ChromeGone, ClientFails, ChromeFails,
           ClientReadEnds,
           SendToChromeFails, ChromeReadEnds, SendToClientFails, CloseChrome, CloseClient,
           SetBridge
  <2> QED
    BY <2>1, StoresComplete DEF IInv
<1> QED
  BY <1>1, Invariance, PTL DEF Spec, StoredTableComplete

\* A lease that the agent does not accept starts nothing.
THEOREM Revoked == Spec => NoNewDriver
<1>1. IInv /\ [Next]_vars =>
        [\A id \in LeaseId :
           ~(\E l \in Granted : l.id = id /\ A!Accepts(Host, id, l.profile, now))
             => Driving(id)' \subseteq Driving(id)]_vars
  BY NobodyNewDrives DEF Accepted
<1> QED
  BY <1>1, Invariance, PTL DEF Spec, NoNewDriver
=============================================================================
