------------------------------ MODULE CdpProxy ------------------------------
(***************************************************************************)
(* The raw CDP proxy of a machine controller (crates/bcp-agent/src/        *)
(* proxy.rs), on top of the way its process comes up: discovery calls that *)
(* are authorised, fetched from the browser and answered with URLs of the  *)
(* proxy; and WebSocket connections that are authorised, connected to the  *)
(* browser and relayed until one of their two directions has finished.     *)
(*                                                                         *)
(* Leases come and go in the table of the agent while calls and relays are *)
(* under way.  Frames are not told apart.  A peer that is gone has closed  *)
(* its socket; one that is broken is still there, but what it sends cannot *)
(* be read any more (a message over the limits of the library, a breach of *)
(* the protocol).  One that vanishes without a trace is never noticed,     *)
(* since no timeout is set anywhere.                                       *)
(***************************************************************************)
EXTENDS AgentStartup

CONSTANTS
  LeaseId,
  Granted,   \* the leases clients hold for this machine, with their deadlines
  Conn,      \* WebSocket connections the clients make
  MaxClock   \* bound: last instant

VARIABLES
  now,
  installed,   \* the lease table of the agent
  urls,        \* profile and credential of the URLs handed out
  call,        \* a call that was authorised and is under way, or NoCall
  bridges      \* the state of each connection

vars == <<startupVars, now, installed, urls, call, bridges>>

A == INSTANCE Agent WITH Machine <- {Host}

ASSUME GrantedAssumption == Granted \subseteq A!LocalLease /\ MaxClock \in Nat \ {0}

\* The credential of a client is the id of its lease.
Credential == LeaseId \cup {None}

NoCall == [kind |-> "none"]

Call == {NoCall} \cup [kind : {"json", "operation"}, profile : Profile, lease : LeaseId]

Unused == [phase |-> "unused"]

Peer == {"up", "broken", "gone"}

\* toChrome, toClient: how far the two directions are.  closed: the peers that
\* were sent a Close frame.
Bridge ==
  {Unused}
    \cup [phase : {"connecting", "open", "ended"},
          profile : Profile, lease : LeaseId, addr : Address,
          client : Peer, chrome : Peer,
          toChrome : {"relay", "closing"}, toClient : {"relay", "closing"},
          closed : SUBSET {"client", "chrome"}]

Init ==
  /\ StartupInit
  /\ now = 1
  /\ A!Init
  /\ urls = {}
  /\ call = NoCall
  /\ bridges = [c \in Conn |-> Unused]

-----------------------------------------------------------------------------
(* The lease table around the proxy, and the process. *)

proxyVars == <<urls, call, bridges>>

InstallLease(l) ==
  /\ phase = "serving"
  /\ A!InstallLease(Host, l)
  /\ UNCHANGED <<startupVars, now, proxyVars>>

UninstallLease(id) ==
  /\ phase = "serving"
  /\ A!UninstallLease(Host, id)
  /\ UNCHANGED <<startupVars, now, proxyVars>>

\* The controller never lists two leases on one profile.
SyncLeases(desired) ==
  /\ phase = "serving"
  /\ \A l, k \in desired : l.profile = k.profile => l = k
  /\ A!SyncLeases(Host, desired)
  /\ UNCHANGED <<startupVars, now, proxyVars>>

Tick ==
  /\ now < MaxClock
  /\ now' = now + 1
  /\ UNCHANGED <<startupVars, installed, proxyVars>>

Startup ==
  /\ StartupNext
  /\ UNCHANGED <<now, installed, proxyVars>>

\* With the process go its table, its calls and its connections.  Clients keep
\* the URLs they were given.
ProcessExit ==
  /\ Exit
  /\ A!RestartAgent(Host)
  /\ call' = NoCall
  /\ bridges' = [c \in Conn |-> Unused]
  /\ UNCHANGED <<now, urls>>

-----------------------------------------------------------------------------
(* Discovery calls and browser operations. *)

\* The query comes before the header.
ExtractToken(query, header) == IF query # None THEN query ELSE header

\* json_new looks at the header first.
NewToken(query, header) == IF header # None THEN header ELSE query

\* Mutant: any lease of the table will do.
MutAuthorize(profile, token) ==
  token # None /\ \E p \in Profile : A!Accepts(Host, token, p, now)

\* Mutant: the deadline is not looked at.
MutAuthorizeLate(profile, token) ==
  token # None /\ \E l \in installed[Host] : l.id = token /\ l.profile = profile

Authorize(profile, token) == token # None /\ A!Accepts(Host, token, profile, now)

Begin(kind, profile, token) ==
  /\ phase = "serving"
  /\ call = NoCall
  /\ Authorize(profile, token)
  /\ call' = [kind |-> kind, profile |-> profile, lease |-> token]
  /\ UNCHANGED <<startupVars, now, installed, urls, bridges>>

\* /json, /json/list, /json/version and /json/protocol.
ProxyJson(profile, query, header) ==
  /\ routes[profile] # None
  /\ Begin("json", profile, ExtractToken(query, header))

\* /json/new opens a tab in the browser.
JsonNew(profile, query, header) ==
  /\ routes[profile] # None
  /\ Begin("json", profile, NewToken(query, header))

\* A browser operation of the gRPC service, validated in the same way.
Operation(profile, token) == Begin("operation", profile, token)

\* The answer of the browser is passed on with its WebSocket URLs rewritten.
RewriteWsUrls ==
  /\ call.kind = "json"
  /\ urls' = urls \cup {[profile |-> call.profile, lease |-> call.lease]}
  /\ call' = NoCall
  /\ UNCHANGED <<startupVars, now, installed, bridges>>

\* The call ends without a URL: the browser did not answer, its answer had none,
\* or the call was an operation.
CallEnds ==
  /\ call # NoCall
  /\ call' = NoCall
  /\ UNCHANGED <<startupVars, now, installed, urls, bridges>>

-----------------------------------------------------------------------------
(* WebSocket connections. *)

SetBridge(c, b) ==
  /\ bridges' = [bridges EXCEPT ![c] = b]
  /\ UNCHANGED <<startupVars, now, installed, urls, call>>

\* Authorised once, here; a URL that was handed out presents its credential in
\* the query.  The address is that of the profile in the path.
WsUpgrade(c, profile, query, header) ==
  LET token == ExtractToken(query, header)
  IN  /\ phase = "serving"
      /\ bridges[c].phase \in {"unused", "ended"}
      /\ Authorize(profile, token)
      /\ routes[profile] # None
      /\ SetBridge(c, [phase |-> "connecting", profile |-> profile, lease |-> token,
                       addr |-> routes[profile], client |-> "up", chrome |-> "up",
                       toChrome |-> "relay", toClient |-> "relay", closed |-> {}])

BridgeConnected(c) ==
  /\ bridges[c].phase = "connecting"
  /\ SetBridge(c, [bridges[c] EXCEPT !.phase = "open"])

ConnectFailed(c) ==
  /\ bridges[c].phase = "connecting"
  /\ SetBridge(c, [bridges[c] EXCEPT !.phase = "ended", !.chrome = "gone"])

ClientGone(c) ==
  /\ bridges[c].phase \in {"connecting", "open"}
  /\ SetBridge(c, [bridges[c] EXCEPT !.client = "gone"])

ChromeGone(c) ==
  /\ bridges[c].phase = "open"
  /\ SetBridge(c, [bridges[c] EXCEPT !.chrome = "gone"])

\* The stream of a peer that is there turns unreadable; it can be written to.
ClientFails(c) ==
  /\ bridges[c].phase \in {"connecting", "open"} /\ bridges[c].client = "up"
  /\ SetBridge(c, [bridges[c] EXCEPT !.client = "broken"])

ChromeFails(c) ==
  /\ bridges[c].phase = "open" /\ bridges[c].chrome = "up"
  /\ SetBridge(c, [bridges[c] EXCEPT !.chrome = "broken"])

\* The direction to Chrome reads no further: it meets the Close of the client, the
\* end of its stream, or an error, whether the client is still there or not.
ClientReadEnds(c) ==
  /\ bridges[c].phase = "open" /\ bridges[c].toChrome = "relay"
  /\ bridges[c].client # "up"
  /\ SetBridge(c, [bridges[c] EXCEPT !.toChrome = "closing"])

\* The direction to Chrome fails to pass on a frame.
SendToChromeFails(c) ==
  /\ bridges[c].phase = "open" /\ bridges[c].toChrome = "relay"
  /\ bridges[c].chrome = "gone"
  /\ SetBridge(c, [bridges[c] EXCEPT !.toChrome = "closing"])

ChromeReadEnds(c) ==
  /\ bridges[c].phase = "open" /\ bridges[c].toClient = "relay"
  /\ bridges[c].chrome # "up"
  /\ SetBridge(c, [bridges[c] EXCEPT !.toClient = "closing"])

\* Mutant: a frame that is not passed on ends the direction as an error does.
MutSendToClientFails(c) ==
  /\ bridges[c].phase = "open" /\ bridges[c].toClient = "relay"
  /\ SetBridge(c, [bridges[c] EXCEPT !.toClient = "closing"])

SendToClientFails(c) ==
  /\ bridges[c].phase = "open" /\ bridges[c].toClient = "relay"
  /\ bridges[c].client = "gone"
  /\ SetBridge(c, [bridges[c] EXCEPT !.toClient = "closing"])

\* Mutant: the bridge waits for both directions to finish.
MutCloseChrome(c) ==
  /\ bridges[c].phase = "open" /\ bridges[c].toChrome = "closing"
  /\ SetBridge(c, [bridges[c] EXCEPT
       !.phase = IF bridges[c].toClient = "closing" THEN "ended" ELSE "open",
       !.closed = @ \cup {"chrome"}])

\* The direction to Chrome sends its Close, which reaches Chrome if it is there,
\* and has finished; the select ends the bridge and drops the other direction
\* wherever it is.
CloseChrome(c) ==
  /\ bridges[c].phase = "open" /\ bridges[c].toChrome = "closing"
  /\ SetBridge(c, [bridges[c] EXCEPT
       !.phase = "ended",
       !.closed = IF bridges[c].chrome # "gone" THEN @ \cup {"chrome"} ELSE @])

CloseClient(c) ==
  /\ bridges[c].phase = "open" /\ bridges[c].toClient = "closing"
  /\ SetBridge(c, [bridges[c] EXCEPT
       !.phase = "ended",
       !.closed = IF bridges[c].client # "gone" THEN @ \cup {"client"} ELSE @])

BridgeStep(c) ==
  \/ \E p \in Profile, query, header \in Credential : WsUpgrade(c, p, query, header)
  \/ BridgeConnected(c) \/ ConnectFailed(c)
  \/ ClientGone(c) \/ ChromeGone(c) \/ ClientFails(c) \/ ChromeFails(c)
  \/ ClientReadEnds(c) \/ SendToChromeFails(c)
  \/ ChromeReadEnds(c) \/ SendToClientFails(c)
  \/ CloseChrome(c) \/ CloseClient(c)

-----------------------------------------------------------------------------

Next ==
  \/ Startup
  \/ ProcessExit
  \/ Tick
  \/ \E l \in Granted : InstallLease(l) \/ UninstallLease(l.id)
  \/ \E desired \in SUBSET Granted : SyncLeases(desired)
  \/ \E p \in Profile, query, header \in Credential :
       ProxyJson(p, query, header) \/ JsonNew(p, query, header)
  \/ \E p \in Profile, id \in LeaseId : Operation(p, id)
  \/ RewriteWsUrls
  \/ CallEnds
  \/ \E c \in Conn : BridgeStep(c)

Spec == Init /\ [][Next]_vars

\* The tasks of a bridge are scheduled: an attempt to connect comes to an end,
\* reads are always awaited, and a peer that is there takes its Close.
Fairness ==
  \A c \in Conn :
    /\ WF_vars(BridgeConnected(c) \/ ConnectFailed(c))
    /\ WF_vars(ClientReadEnds(c)) /\ WF_vars(ChromeReadEnds(c))
    /\ WF_vars(CloseChrome(c)) /\ WF_vars(CloseClient(c))

FairSpec == Spec /\ Fairness

-----------------------------------------------------------------------------
(* Correctness. *)

\* The variables have their types.
TypeOK ==
  /\ StartupTypeOK
  /\ now \in 1..MaxClock
  /\ A!TypeOK
  /\ urls \subseteq [profile : Profile, lease : LeaseId]
  /\ call \in Call
  /\ bridges \in [Conn -> Bridge]

\* A URL that was handed out opens the profile it is for, whichever of the two
\* sources supplied the credential: the credential in it is that of a lease on
\* this profile, so it works for as long as the lease does.
UrlCarriesAuthority ==
  \A u \in urls : \E l \in Granted : l.id = u.lease /\ l.profile = u.profile

\* What the holder of a lease has under way.
Driving(id) ==
  {c \in Conn : bridges[c].phase \in {"connecting", "open"} /\ bridges[c].lease = id}
    \cup (IF call # NoCall /\ call.lease = id THEN {"call"} ELSE {})

\* A lease that the agent does not accept, for the clock, a revocation or a
\* restart, starts nothing: what was authorised before winds down.
NoNewDriver ==
  [][\A id \in LeaseId :
       ~(\E l \in Granted : l.id = id /\ A!Accepts(Host, id, l.profile, now))
         => Driving(id)' \subseteq Driving(id)]_vars

\* A bridge ends for a reason, and says so to who is still there: not while both
\* peers can be read, and when one of them could not be read although it was
\* there, the other has been sent a Close, whichever direction was the first.
\* Only of a peer that is gone may the other hear nothing (CleanClose below).
\* While the bridge lasts it leads to the browser that its profile has.
EndReachesPeer ==
  \A c \in Conn :
    LET b == bridges[c]
    IN  /\ b.phase = "ended" =>
             /\ b.client # "up" \/ b.chrome # "up"
             /\ b.client = "broken" /\ b.chrome = "up" => "chrome" \in b.closed
             /\ b.chrome = "broken" /\ b.client = "up" => "client" \in b.closed
        /\ b.phase \in {"connecting", "open"} => b.addr = routes[b.profile]

\* Once a peer is gone or cannot be read the bridge ends, so that the other peer is
\* let go.
BridgeReleased ==
  \A c \in Conn :
    /\ bridges[c].phase \in {"connecting", "open"}
    /\ bridges[c].client # "up" \/ bridges[c].chrome # "up"
    ~> bridges[c].phase \in {"ended", "unused"}

-----------------------------------------------------------------------------
(* What a comment says and the code does not do. *)

\* proxy.rs: on any end a Close frame is sent and the upstream sink closed, so
\* that a Chrome which is still there always sees one.  When the client is gone
\* and the direction to the client is the first to notice, the other direction is
\* dropped before it sends its Close.
CleanClose ==
  \A c \in Conn :
    bridges[c].phase = "ended" /\ bridges[c].chrome = "up" => "chrome" \in bridges[c].closed
=============================================================================
