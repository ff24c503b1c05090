------------------------------ MODULE Gateway -------------------------------
(***************************************************************************)
(* The browser of one managed profile of an agent: the process that        *)
(* crates/bcp-agent/src/lifecycle.rs launches, watches and kills, and the  *)
(* cached connection to it of crates/bcp-core/src/pwright/real.rs.         *)
(*                                                                         *)
(* Operations and scripts of clients, checks of the reconcile loop and     *)
(* stops run concurrently.  The children map and the active map are locked *)
(* only for single steps, so everything that waits (the launch, the        *)
(* connection, a call into the page) has steps of other workers before and *)
(* after it.                                                               *)
(*                                                                         *)
(* The browser and the connection library are external: a process becomes  *)
(* ready or dies, a link drops, and a call on a dropped link may have been *)
(* executed.  What goes wrong is counted in faults and bounded, so that    *)
(* recovery can be stated.                                                 *)
(***************************************************************************)
EXTENDS Integers, FiniteSets

CONSTANTS
  Operation,  \* workers that call page operations through with_reconnect
  Script,     \* workers that call run_script
  Keeper,     \* workers that call check_browser and ensure_browser
  Steps,      \* calls into the page that an operation or a script makes
  MaxFaults   \* bound: things that go wrong in a behaviour

ASSUME GatewayAssumption ==
  /\ IsFiniteSet(Operation) /\ IsFiniteSet(Script) /\ IsFiniteSet(Keeper)
  /\ Operation \cap Script = {} /\ (Operation \cup Script) \cap Keeper = {}
  /\ Steps \in Nat \ {0} /\ MaxFaults \in Nat

VARIABLES
  child,    \* the entry of the children map, as try_wait sees it
  running,  \* number of browser processes alive
  orphans,  \* those of them that the children map has lost
  active,   \* the entry of the active map: a connection, or NoConn
  link,     \* state of each connection
  worker,   \* the call each worker is in
  stop,     \* "kill" while stop_browser is between the tab and the process
  faults

process == <<child, running, orphans>>
vars    == <<child, running, orphans, active, link, worker, stop, faults>>

Caller == Operation \cup Script
Worker == Caller \cup Keeper
NoConn == 0
Conn   == 1..(Cardinality(Worker) + 1)
Step   == 1..Steps

\* ran, answered: how often each step of the call was executed and answered.
Fresh(pc) == [pc |-> pc, conn |-> NoConn, step |-> 1, retried |-> FALSE,
              ran |-> [i \in Step |-> 0], answered |-> [i \in Step |-> 0]]

Init ==
  /\ child = "none" /\ running = 0 /\ orphans = 0
  /\ active = NoConn
  /\ link = [c \in Conn |-> "unused"]
  /\ worker = [w \in Worker |-> Fresh("idle")]
  /\ stop = "idle"
  /\ faults = 0

Alive == child \in {"starting", "ready"}

\* Something listens on the DevTools port: the child, or a process that outlived
\* its entry.
Reachable == child = "ready" \/ orphans > 0

Fault == faults < MaxFaults /\ faults' = faults + 1

\* A process has ended and others of the profile may be left: whether one of
\* them served the open links is not known.
LinksAfterExit(others) ==
  LET cut == [c \in Conn |-> IF link[c] = "open" THEN "dropped" ELSE link[c]]
  IN  IF others > 0 THEN {cut, link} ELSE {cut}

Goto(w, pc) == worker' = [worker EXCEPT ![w].pc = pc]

\* The call returns an error, or a check its verdict.
End(w) == worker' = [worker EXCEPT ![w] = Fresh("idle")]

-----------------------------------------------------------------------------
(* The process: ensure_process, wait_for_readiness.                        *)

Check(k) ==
  /\ worker[k].pc \in {"idle", "done"}
  /\ worker' = [worker EXCEPT ![k] = Fresh("process")]
  /\ UNCHANGED <<process, active, link, stop, faults>>

\* Mutant: the entry of a launch that is not ready yet is taken for dead.
MutEnsureProcess(k) ==
  /\ worker[k].pc = "process"
  /\ \/ child = "ready" /\ Goto(k, "ensure") /\ UNCHANGED <<process, faults>>
     \/ child # "ready" /\ child' = "starting" /\ running' = running + 1
        /\ Goto(k, "wait") /\ UNCHANGED <<orphans, faults>>
  /\ UNCHANGED <<active, link, stop>>

\* Under the lock of the children map: a child that runs, ready or not, is
\* left alone and not waited for; one that exited is replaced.  An error of
\* try_wait ends the call and keeps the entry.
EnsureProcess(k) ==
  /\ worker[k].pc = "process"
  /\ \/ Alive /\ Goto(k, "ensure") /\ UNCHANGED <<process, faults>>
     \/ child # "none" /\ Fault /\ End(k) /\ UNCHANGED process
     \/ ~ Alive /\ child' = "starting" /\ running' = running + 1
        /\ Goto(k, "wait") /\ UNCHANGED <<orphans, faults>>
     \/ ~ Alive /\ Fault /\ child' = "none"     \* spawn fails
        /\ End(k) /\ UNCHANGED <<running, orphans>>
  /\ UNCHANGED <<active, link, stop>>

\* The entry stays in the map when the wait times out.
WaitForReadiness(k) ==
  /\ worker[k].pc = "wait"
  /\ \/ Reachable /\ Goto(k, "ensure")
     \/ child # "ready" /\ End(k)
  /\ UNCHANGED <<process, active, link, stop, faults>>

-----------------------------------------------------------------------------
(* The cached connection: ensure_browser of the inner gateway.             *)

EnsureBrowser(w) ==
  /\ worker[w].pc = "ensure"
  /\ \/ active # NoConn /\ IF w \in Keeper THEN End(w) ELSE Goto(w, "page")
     \/ active = NoConn /\ Goto(w, "connect")
  /\ UNCHANGED <<process, active, link, stop, faults>>

\* Nobody holds the connection; its number is free for a new one.
Unused(c) == c # active /\ \A w \in Worker : worker[w].conn # c

Relink(c, state) == [d \in Conn |-> IF d = c THEN state
                                   ELSE IF Unused(d) THEN "unused" ELSE link[d]]

\* Thirty attempts, a second apart; nothing is locked meanwhile.
Connect(w) ==
  /\ worker[w].pc = "connect"
  /\ \/ /\ Reachable
        /\ LET c == CHOOSE d \in Conn : Unused(d)
           IN  /\ link' = Relink(c, "open")
               /\ worker' = [worker EXCEPT ![w].pc = "insert", ![w].conn = c]
     \/ child # "ready" /\ End(w) /\ UNCHANGED link
  /\ UNCHANGED <<process, active, stop, faults>>

\* The tab is opened and the initial page loaded: that may fail on any link,
\* and succeeds on a dropped one only when it dropped after the page was
\* loaded.  The insert replaces whatever another worker has cached meanwhile.
Insert(w) ==
  /\ worker[w].pc = "insert"
  /\ \/ /\ active' = worker[w].conn
        /\ IF w \in Keeper THEN End(w) ELSE Goto(w, "page")
        /\ UNCHANGED faults
     \/ /\ \/ link[worker[w].conn] = "dropped" /\ UNCHANGED faults
           \/ link[worker[w].conn] = "open" /\ Fault
        /\ End(w) /\ UNCHANGED active
  /\ UNCHANGED <<process, link, stop>>

-----------------------------------------------------------------------------
(* Page operations: with_reconnect, run_script.                            *)

\* The handler has validated the lease; it does not look at it again.
Call(w) ==
  /\ worker[w].pc \in {"idle", "done"}
  /\ worker' = [worker EXCEPT ![w] = Fresh("ensure")]
  /\ UNCHANGED <<process, active, link, stop, faults>>

\* The map is read again after ensure_browser: the entry may be gone.
PageForProfile(w) ==
  /\ worker[w].pc = "page"
  /\ \/ /\ active # NoConn
        /\ worker' = [worker EXCEPT ![w].pc = "run", ![w].conn = active]
     \/ active = NoConn /\ End(w)
  /\ UNCHANGED <<process, active, link, stop, faults>>

Executed(r) == [r EXCEPT !.ran[r.step] = @ + 1]

\* The step is executed and answered.
RunStep(w) ==
  /\ worker[w].pc = "run"
  /\ link[worker[w].conn] = "open"
  /\ LET r == [Executed(worker[w]) EXCEPT !.answered[worker[w].step] = @ + 1]
     IN  worker' = [worker EXCEPT ![w] =
                      IF r.step < Steps THEN [r EXCEPT !.step = @ + 1]
                      ELSE [r EXCEPT !.pc = "done", !.conn = NoConn]]
  /\ UNCHANGED <<process, active, link, stop, faults>>

\* The step is executed and the link drops before its answer is there.
AnswerLost(w) ==
  /\ worker[w].pc = "run"
  /\ link[worker[w].conn] = "open"
  /\ Fault
  /\ link' = [link EXCEPT ![worker[w].conn] = "dropped"]
  /\ worker' = [worker EXCEPT ![w] = [Executed(worker[w]) EXCEPT !.pc = "closed"]]
  /\ UNCHANGED <<process, active, stop>>

ConnectionClosed(w) ==
  /\ worker[w].pc = "run"
  /\ link[worker[w].conn] = "dropped"
  /\ Goto(w, "closed")
  /\ UNCHANGED <<process, active, link, stop, faults>>

\* Any other error, the one of a tab that stop_browser closed included, is
\* returned as it is.
OtherError(w) ==
  /\ worker[w].pc = "run"
  /\ \/ link[worker[w].conn] = "tab_closed" /\ UNCHANGED faults
     \/ link[worker[w].conn] = "open" /\ Fault
  /\ End(w)
  /\ UNCHANGED <<process, active, link, stop>>

\* Mutant: a script is restarted at whatever step the connection failed.
MutRestartable(w) == ~ worker[w].retried

\* with_reconnect runs its operation again from the start; run_script does so
\* only when the first step failed.
Restartable(w) ==
  /\ ~ worker[w].retried
  /\ w \in Script => worker[w].step = 1

\* Mutant: the retry finds the dead connection in the cache again.
MutEvict(w) ==
  /\ worker[w].pc = "closed"
  /\ Restartable(w)
  /\ worker' = [worker EXCEPT ![w].pc = "ensure", ![w].conn = NoConn, ![w].step = 1,
                              ![w].retried = TRUE]
  /\ UNCHANGED <<process, active, link, stop, faults>>

\* evict removes the entry of the profile, whichever connection it holds.
Evict(w) ==
  /\ worker[w].pc = "closed"
  /\ Restartable(w)
  /\ active' = NoConn
  /\ worker' = [worker EXCEPT ![w].pc = "ensure", ![w].conn = NoConn, ![w].step = 1,
                              ![w].retried = TRUE]
  /\ UNCHANGED <<process, link, stop, faults>>

GiveUp(w) ==
  /\ worker[w].pc = "closed"
  /\ ~ Restartable(w)
  /\ End(w)
  /\ UNCHANGED <<process, active, link, stop, faults>>

-----------------------------------------------------------------------------
(* stop_browser, and the browser itself.                                   *)

\* A call of a client, counted as a fault with all that may go wrong in it.  The
\* lock of the active map is held until the tab is closed.  The close asks the
\* process over HTTP; on an error or a timeout, the tab closed or not, the call
\* returns and the process is not killed.
StopBrowser ==
  /\ stop = "idle"
  /\ Fault
  /\ LET closed == [link EXCEPT ![active] = IF @ = "open" THEN "tab_closed" ELSE @]
     IN  \/ active = NoConn /\ stop' = "kill" /\ UNCHANGED link
         \/ active # NoConn /\ Reachable /\ stop' = "kill" /\ link' = closed
         \/ active # NoConn /\ UNCHANGED stop
            /\ link' \in IF Reachable THEN {link, closed} ELSE {link}
  /\ active' = NoConn
  /\ UNCHANGED <<process, worker>>

\* The entry is removed first: when the kill is refused the process goes on and
\* nothing knows of it any more.
StopProcess ==
  /\ stop = "kill"
  /\ child' = "none" /\ stop' = "idle"
  /\ \/ ~ Alive /\ UNCHANGED <<running, orphans, link>>
     \/ Alive /\ running' = running - 1
        /\ link' \in LinksAfterExit(orphans) /\ UNCHANGED orphans
     \/ Alive /\ orphans' = orphans + 1 /\ UNCHANGED <<running, link>>
  /\ UNCHANGED <<active, worker, faults>>

BecomeReady ==
  /\ child = "starting"
  /\ child' = "ready"
  /\ UNCHANGED <<running, orphans, active, link, worker, stop, faults>>

Die ==
  /\ Alive
  /\ Fault
  /\ child' = "exited"
  /\ running' = running - 1
  /\ link' \in LinksAfterExit(orphans)
  /\ UNCHANGED <<orphans, active, worker, stop>>

\* Not counted as a fault: the stop that left the process behind was one.
OrphanExits ==
  /\ orphans > 0
  /\ orphans' = orphans - 1
  /\ running' = running - 1
  /\ link' \in LinksAfterExit(running - 1)
  /\ UNCHANGED <<child, active, worker, stop, faults>>

DropLink(c) ==
  /\ link[c] = "open"
  /\ Fault
  /\ link' = [link EXCEPT ![c] = "dropped"]
  /\ UNCHANGED <<process, active, worker, stop>>

KeeperStep(k) ==
  Check(k) \/ EnsureProcess(k) \/ WaitForReadiness(k)
    \/ EnsureBrowser(k) \/ Connect(k) \/ Insert(k)

CallerStep(w) ==
  \/ Call(w) \/ EnsureBrowser(w) \/ Connect(w) \/ Insert(w) \/ PageForProfile(w)
  \/ RunStep(w) \/ ConnectionClosed(w) \/ Evict(w) \/ GiveUp(w)

Next ==
  \/ \E k \in Keeper : KeeperStep(k)
  \/ \E w \in Caller : CallerStep(w) \/ AnswerLost(w) \/ OtherError(w)
  \/ StopBrowser \/ StopProcess
  \/ BecomeReady \/ Die \/ OrphanExits
  \/ \E c \in Conn : DropLink(c)

Spec == Init /\ [][Next]_vars

\* The reconcile loop checks every desired browser on each of its ticks, a call
\* that has started is polled until it returns, clients go on calling, and a
\* browser that is left alone comes up.
Fairness ==
  /\ \A k \in Keeper : WF_vars(KeeperStep(k))
  /\ \A w \in Caller : WF_vars(CallerStep(w) \/ OtherError(w))
  /\ WF_vars(StopProcess) /\ WF_vars(BecomeReady)

FairSpec == Spec /\ Fairness

-----------------------------------------------------------------------------
Phase == {"idle", "process", "wait", "ensure", "connect", "insert", "page", "run",
          "closed", "done"}

\* The tables and the calls are well formed; in particular no call executes a
\* step more than twice, because every call reconnects at most once.
TypeOK ==
  /\ child \in {"none", "starting", "ready", "exited"} /\ running \in Nat /\ orphans \in Nat
  /\ active \in Conn \cup {NoConn}
  /\ link \in [Conn -> {"unused", "open", "dropped", "tab_closed"}]
  /\ worker \in [Worker -> [pc : Phase, conn : Conn \cup {NoConn}, step : Step,
                            retried : BOOLEAN,
                            ran : [Step -> 0..2], answered : [Step -> 0..2]]]
  /\ stop \in {"idle", "kill"}
  /\ faults \in 0..MaxFaults

\* There is one browser process at most, and the children map knows whether it
\* runs: concurrent checks, launches that miss their readiness deadline, failing
\* stops and deaths never leave a second one on the profile directory.  The one
\* way around it is a kill that is refused, after the entry is gone: there is
\* one more process for each of these while it runs, and none for anything else.
OneBrowser == running = orphans + IF Alive THEN 1 ELSE 0

\* run_script never executes a step again that it has an answer for, although it
\* may restart the program: "A later step failing mid-script is not replayed"
\* (real.rs, run_script).  Nor does it skip one: a script that succeeds has exactly
\* one answer to each of its steps, the connection lost or not.
AnsweredOnce ==
  \A w \in Script : \A i \in Step :
    /\ worker[w].answered[i] <= 1
    /\ worker[w].pc = "done" => worker[w].answered[i] = 1

\* Once nothing goes wrong any more, every caller succeeds again and again:
\* dead processes are relaunched and dead connections replaced, whatever was
\* cached ("self-heal instead of wedging the profile forever", with_reconnect).
SelfHeals == \A w \in Caller : []<>(worker[w].pc = "done")
=============================================================================
