--------------------------- MODULE GatewayProofs ----------------------------
(***************************************************************************)
(* Theorems about Gateway, for any finite sets of workers, any length of   *)
(* the scripts and any number of faults.                                   *)
(***************************************************************************)
EXTENDS Gateway, FiniteSetTheorems, TLAPS

CallRecord == [pc : Phase, conn : Conn \cup {NoConn}, step : Step, retried : BOOLEAN,
               ran : [Step -> Nat], answered : [Step -> Nat]]

\* The pass over the steps that the call is in has got past step i.
Passed(r, i) == i < r.step \/ (i = r.step /\ r.pc \in {"closed", "done"})

\* How often a call may have executed step i: once in the pass it is in, and once
\* in the pass before it reconnected.
MayHaveRun(r, i) == (IF r.retried THEN 1 ELSE 0) + (IF Passed(r, i) THEN 1 ELSE 0)

\* What each call keeps: it holds a connection only between Connect or
\* PageForProfile and the end of its pass, its executions are bounded, it has
\* no answer to a step it has not executed, and a script has exactly one answer to
\* each step that the pass it is in has got past, and no other answer.
CallOK(w, r) ==
  /\ r \in CallRecord
  /\ r.pc \notin {"insert", "page", "run", "closed"} => r.conn = NoConn
  /\ \A i \in Step : r.answered[i] <= r.ran[i] /\ r.ran[i] <= MayHaveRun(r, i)
  /\ w \in Script => \A i \in Step :
       r.answered[i] = IF i < r.step \/ r.pc = "done" THEN 1 ELSE 0

Calls == worker \in [Worker -> CallRecord] /\ \A w \in Worker : CallOK(w, worker[w])

\* Everything but the calls.
Shared ==
  /\ child \in {"none", "starting", "ready", "exited"} /\ running \in Nat /\ orphans \in Nat
  /\ active \in Conn \cup {NoConn}
  /\ link \in [Conn -> {"unused", "open", "dropped", "tab_closed"}]
  /\ stop \in {"idle", "kill"}
  /\ faults \in 0..MaxFaults

\* The inductive invariant.
IInv == Shared /\ Calls /\ OneBrowser

-----------------------------------------------------------------------------
(* One call. *)

\* A call that begins, and one that is over.
LEMMA FreshOK ==
  ASSUME NEW w, NEW pc \in {"idle", "process", "ensure"}
  PROVE  CallOK(w, Fresh(pc))
BY GatewayAssumption DEF CallOK, Fresh, CallRecord, Phase, Step, Conn, NoConn, MayHaveRun, Passed

\* A phase that leaves step and connection alone.
LEMMA GotoOK ==
  ASSUME NEW w, NEW r, CallOK(w, r), r.pc \notin {"closed", "done"}, NEW pc \in Phase \ {"done"},
         pc \notin {"insert", "page", "run", "closed"} => r.conn = NoConn
  PROVE  CallOK(w, [r EXCEPT !.pc = pc])
<1> DEFINE t == [r EXCEPT !.pc = pc]
<1>1. t \in CallRecord
  BY DEF CallOK, CallRecord
<1>2. /\ t.pc = pc /\ t.conn = r.conn /\ t.step = r.step /\ t.retried = r.retried
      /\ t.ran = r.ran /\ t.answered = r.answered
  BY DEF CallOK, CallRecord
<1> HIDE DEF t
<1>3. \A i \in Step : MayHaveRun(r, i) <= MayHaveRun(t, i)
  BY <1>2, GatewayAssumption DEF MayHaveRun, Passed
<1>4. \A i \in Step : t.answered[i] <= t.ran[i] /\ t.ran[i] <= MayHaveRun(t, i)
  BY <1>2, <1>3, GatewayAssumption DEF CallOK, CallRecord, MayHaveRun
<1>5. w \in Script => \A i \in Step :
       t.answered[i] = IF i < t.step \/ t.pc = "done" THEN 1 ELSE 0
  BY <1>2 DEF CallOK
<1> QED
  BY <1>1, <1>2, <1>4, <1>5 DEF CallOK, t

\* A phase in which the call gets a connection.
LEMMA HoldOK ==
  ASSUME NEW w, NEW r, CallOK(w, r), r.pc \notin {"closed", "done"}, NEW pc \in {"insert", "run"},
         NEW c \in Conn
  PROVE  CallOK(w, [r EXCEPT !.pc = pc, !.conn = c])
<1> DEFINE t == [r EXCEPT !.pc = pc, !.conn = c]
<1>1. t \in CallRecord
  BY DEF CallOK, CallRecord, Phase
<1>2. /\ t.pc = pc /\ t.step = r.step /\ t.retried = r.retried
      /\ t.ran = r.ran /\ t.answered = r.answered
  BY DEF CallOK, CallRecord
<1> HIDE DEF t
<1>3. \A i \in Step : MayHaveRun(r, i) <= MayHaveRun(t, i)
  BY <1>2, GatewayAssumption DEF MayHaveRun, Passed
<1>4. \A i \in Step : t.answered[i] <= t.ran[i] /\ t.ran[i] <= MayHaveRun(t, i)
  BY <1>2, <1>3, GatewayAssumption DEF CallOK, CallRecord, MayHaveRun
<1>5. w \in Script => \A i \in Step :
       t.answered[i] = IF i < t.step \/ t.pc = "done" THEN 1 ELSE 0
  BY <1>2 DEF CallOK
<1> QED
  BY <1>1, <1>2, <1>4, <1>5 DEF CallOK, t

\* Executing the step at hand.
LEMMA ExecutedFields ==
  ASSUME NEW r \in CallRecord
  PROVE  /\ Executed(r) \in CallRecord
         /\ Executed(r).pc = r.pc /\ Executed(r).conn = r.conn
         /\ Executed(r).step = r.step /\ Executed(r).retried = r.retried
         /\ Executed(r).answered = r.answered
         /\ Executed(r).ran = [r.ran EXCEPT ![r.step] = @ + 1]
<1>1. [r.ran EXCEPT ![r.step] = @ + 1] \in [Step -> Nat]
  BY DEF CallRecord
<1> QED
  BY <1>1 DEF Executed, CallRecord

\* A step that is executed and answered.
LEMMA AnsweredOK ==
  ASSUME NEW w, NEW r, CallOK(w, r), r.pc = "run"
  PROVE  LET s == [Executed(r) EXCEPT !.answered[r.step] = @ + 1]
         IN  CallOK(w, IF s.step < Steps THEN [s EXCEPT !.step = @ + 1]
                       ELSE [s EXCEPT !.pc = "done", !.conn = NoConn])
<1> DEFINE e == Executed(r)
           s == [e EXCEPT !.answered[r.step] = @ + 1]
<1>1. /\ r \in CallRecord /\ e \in CallRecord
      /\ e.pc = "run" /\ e.step = r.step /\ e.retried = r.retried
      /\ e.answered = r.answered /\ e.ran = [r.ran EXCEPT ![r.step] = @ + 1]
  BY ExecutedFields DEF CallOK
<1> HIDE DEF e
<1>2. [e.answered EXCEPT ![r.step] = @ + 1] \in [Step -> Nat]
  BY <1>1 DEF CallRecord
<1>3. /\ s \in CallRecord
      /\ s.pc = "run" /\ s.step = r.step /\ s.retried = r.retried
      /\ s.ran = e.ran /\ s.answered = [r.answered EXCEPT ![r.step] = @ + 1]
  BY <1>1, <1>2 DEF CallRecord
<1> HIDE DEF s
<1>4. r.step \in 1..Steps /\ r.ran \in [Step -> Nat] /\ r.answered \in [Step -> Nat]
  BY <1>1 DEF CallRecord, Step
<1>5. \A i \in Step :
        /\ r.answered[i] \in Nat /\ r.ran[i] \in Nat
        /\ s.ran[i] = IF i = r.step THEN r.ran[i] + 1 ELSE r.ran[i]
        /\ s.answered[i] = IF i = r.step THEN r.answered[i] + 1 ELSE r.answered[i]
  BY <1>1, <1>3, <1>4
<1>6. \A i \in Step : r.answered[i] <= r.ran[i] /\ r.ran[i] <= MayHaveRun(r, i)
  BY DEF CallOK
<1>7. ASSUME w \in Script, NEW i \in Step
      PROVE  r.answered[i] = IF i < r.step THEN 1 ELSE 0
  BY <1>7 DEF CallOK
<1>8. CASE s.step < Steps
  <2> DEFINE t == [s EXCEPT !.step = @ + 1]
  <2>1. s.step + 1 \in Step
    BY <1>3, <1>4, <1>8, GatewayAssumption DEF Step
  <2>2. /\ t \in CallRecord
        /\ t.pc = "run" /\ t.step = r.step + 1 /\ t.retried = r.retried
        /\ t.ran = s.ran /\ t.answered = s.answered
    BY <1>3, <2>1 DEF CallRecord
  <2> HIDE DEF t
  <2>3. \A i \in Step : MayHaveRun(t, i) = MayHaveRun(r, i) + (IF i = r.step THEN 1 ELSE 0)
    BY <2>2, <1>4, GatewayAssumption DEF MayHaveRun, Passed, Step
  <2>4. \A i \in Step : t.answered[i] <= t.ran[i] /\ t.ran[i] <= MayHaveRun(t, i)
    BY <1>5, <1>6, <2>2, <2>3 DEF MayHaveRun
  <2>5. ASSUME w \in Script, NEW i \in Step
        PROVE  t.answered[i] = IF i < t.step \/ t.pc = "done" THEN 1 ELSE 0
    <3>1. /\ r.answered[i] \in Nat
          /\ r.answered[i] = IF i < r.step THEN 1 ELSE 0
          /\ t.answered[i] = IF i = r.step THEN r.answered[i] + 1 ELSE r.answered[i]
      BY <1>5, <1>7, <2>2, <2>5
    <3>2. i \in 1..Steps
      BY DEF Step
    <3> QED
      BY <1>4, <2>1, <2>2, <3>1, <3>2, GatewayAssumption
  <2>6. CallOK(w, t)
    BY <2>2, <2>4, <2>5 DEF CallOK
  <2> QED
    BY <1>8, <2>6 DEF t, s, e
<1>9. CASE ~(s.step < Steps)
  <2> DEFINE t == [s EXCEPT !.pc = "done", !.conn = NoConn]
  <2>1. r.step = Steps
    BY <1>3, <1>4, <1>9, GatewayAssumption
  <2>2. /\ t \in CallRecord
        /\ t.pc = "done" /\ t.conn = NoConn /\ t.step = r.step /\ t.retried = r.retried
        /\ t.ran = s.ran /\ t.answered = s.answered
    BY <1>3 DEF CallRecord, Phase
  <2> HIDE DEF t
  <2>3. \A i \in Step : MayHaveRun(t, i) = MayHaveRun(r, i) + (IF i = r.step THEN 1 ELSE 0)
    BY <2>2, <1>4, GatewayAssumption DEF MayHaveRun, Passed, Step
  <2>4. \A i \in Step : t.answered[i] <= t.ran[i] /\ t.ran[i] <= MayHaveRun(t, i)
    BY <1>5, <1>6, <2>2, <2>3 DEF MayHaveRun
  <2>5. ASSUME w \in Script, NEW i \in Step
        PROVE  t.answered[i] = IF i < t.step \/ t.pc = "done" THEN 1 ELSE 0
    <3>1. /\ r.answered[i] \in Nat
          /\ r.answered[i] = IF i < r.step THEN 1 ELSE 0
          /\ t.answered[i] = IF i = r.step THEN r.answered[i] + 1 ELSE r.answered[i]
      BY <1>5, <1>7, <2>2, <2>5
    <3>2. i \in 1..Steps
      BY DEF Step
    <3> QED
      BY <1>4, <2>1, <2>2, <3>1, <3>2, GatewayAssumption
  <2>6. CallOK(w, t)
    BY <2>2, <2>4, <2>5 DEF CallOK
  <2> QED
    BY <1>9, <2>6 DEF t, s, e
<1> QED
  BY <1>8, <1>9

\* A step that is executed and whose answer is lost.
LEMMA LostOK ==
  ASSUME NEW w, NEW r, CallOK(w, r), r.pc = "run"
  PROVE  CallOK(w, [Executed(r) EXCEPT !.pc = "closed"])
<1> DEFINE e == Executed(r)
           t == [e EXCEPT !.pc = "closed"]
<1>1. /\ r \in CallRecord /\ e \in CallRecord
      /\ e.step = r.step /\ e.retried = r.retried
      /\ e.answered = r.answered /\ e.ran = [r.ran EXCEPT ![r.step] = @ + 1]
  BY ExecutedFields DEF CallOK
<1> HIDE DEF e
<1>2. /\ t \in CallRecord
      /\ t.pc = "closed" /\ t.step = r.step /\ t.retried = r.retried
      /\ t.ran = e.ran /\ t.answered = r.answered
  BY <1>1 DEF CallRecord, Phase
<1> HIDE DEF t
<1>3. r.step \in 1..Steps /\ r.ran \in [Step -> Nat] /\ r.answered \in [Step -> Nat]
  BY <1>1 DEF CallRecord, Step
<1>4. \A i \in Step :
        /\ r.answered[i] \in Nat /\ r.ran[i] \in Nat
        /\ t.ran[i] = IF i = r.step THEN r.ran[i] + 1 ELSE r.ran[i]
  BY <1>1, <1>2, <1>3
<1>5. \A i \in Step :
        /\ r.answered[i] <= r.ran[i] /\ r.ran[i] <= MayHaveRun(r, i)
        /\ w \in Script => r.answered[i] = IF i < r.step THEN 1 ELSE 0
  BY DEF CallOK
<1>6. \A i \in Step : MayHaveRun(t, i) = MayHaveRun(r, i) + (IF i = r.step THEN 1 ELSE 0)
  BY <1>2, <1>3, GatewayAssumption DEF MayHaveRun, Passed, Step
<1>7. \A i \in Step : t.answered[i] <= t.ran[i] /\ t.ran[i] <= MayHaveRun(t, i)
  BY <1>2, <1>4, <1>5, <1>6 DEF MayHaveRun
<1>8. w \in Script => \A i \in Step :
        t.answered[i] = IF i < t.step \/ t.pc = "done" THEN 1 ELSE 0
  BY <1>2, <1>5
<1>9. CallOK(w, t)
  BY <1>2, <1>7, <1>8 DEF CallOK
<1> QED
  BY <1>9 DEF t, e

\* A call that starts its second pass: by its bounds it has executed each step once
\* at most, and a script has no answer yet.
LEMMA RestartOK ==
  ASSUME NEW w, NEW r, CallOK(w, r), r.pc = "closed", ~r.retried, w \in Script => r.step = 1
  PROVE  CallOK(w, [r EXCEPT !.pc = "ensure", !.conn = NoConn, !.step = 1, !.retried = TRUE])
<1> DEFINE t == [r EXCEPT !.pc = "ensure", !.conn = NoConn, !.step = 1, !.retried = TRUE]
<1>1. 1 \in Step
  BY GatewayAssumption DEF Step
<1>2. /\ t \in CallRecord
      /\ t.pc = "ensure" /\ t.conn = NoConn /\ t.step = 1 /\ t.retried = TRUE
      /\ t.ran = r.ran /\ t.answered = r.answered
  BY <1>1 DEF CallOK, CallRecord, Phase
<1> HIDE DEF t
<1>3. \A i \in Step : r.ran[i] \in Nat /\ r.answered[i] \in Nat
  BY DEF CallOK, CallRecord
<1>4. \A i \in Step : MayHaveRun(r, i) <= 1 /\ MayHaveRun(t, i) = 1
  BY <1>2 DEF MayHaveRun, Passed, Step
<1>5. \A i \in Step : t.answered[i] <= t.ran[i] /\ t.ran[i] <= MayHaveRun(t, i)
  BY <1>2, <1>3, <1>4 DEF CallOK, MayHaveRun
<1>6. w \in Script => \A i \in Step :
        t.answered[i] = IF i < t.step \/ t.pc = "done" THEN 1 ELSE 0
  BY <1>2, <1>3 DEF CallOK, Step
<1>7. CallOK(w, t)
  BY <1>2, <1>5, <1>6 DEF CallOK
<1> QED
  BY <1>7 DEF t

-----------------------------------------------------------------------------
(* Steps of a worker. *)

\* A worker whose record is replaced by one that is as it should be.
LEMMA SetWorker ==
  ASSUME Calls, NEW w \in Worker, NEW r, CallOK(w, r), worker' = [worker EXCEPT ![w] = r]
  PROVE  Calls'
<1>1. r \in CallRecord
  BY DEF CallOK
<1>2. worker' \in [Worker -> CallRecord]
  BY <1>1 DEF Calls
<1>3. \A v \in Worker : worker'[v] = IF v = w THEN r ELSE worker[v]
  BY DEF Calls
<1>4. \A v \in Worker : CallOK(v, worker'[v])
  BY <1>3 DEF Calls
<1> QED
  BY <1>2, <1>4 DEF Calls

\* A call that ends or begins.
LEMMA FreshCalls ==
  ASSUME Calls, NEW w \in Worker, NEW pc \in {"idle", "process", "ensure"},
         worker' = [worker EXCEPT ![w] = Fresh(pc)]
  PROVE  Calls'
BY FreshOK, SetWorker

\* A call that moves on without a connection.
LEMMA GotoCalls ==
  ASSUME Calls, NEW w \in Worker, NEW pc \in Phase \ {"done"}, Goto(w, pc),
         worker[w].pc \notin {"closed", "done"},
         pc \notin {"insert", "page", "run", "closed"} => worker[w].conn = NoConn
  PROVE  Calls'
<1>1. CallOK(w, worker[w])
  BY DEF Calls
<1>2. worker' = [worker EXCEPT ![w] = [worker[w] EXCEPT !.pc = pc]]
  BY DEF Goto
<1> QED
  BY <1>1, <1>2, GotoOK, SetWorker

\* There is a number for a new connection: every worker holds one at most, the
\* one that connects holds none, and the cache holds one.
LEMMA UnusedExists ==
  ASSUME Shared, Calls, NEW w \in Worker, worker[w].conn = NoConn
  PROVE  \E d \in Conn : Unused(d)
<1>1. IsFiniteSet(Worker)
  <2>1. IsFiniteSet(Operation \cup Script)
    BY GatewayAssumption, FS_Union
  <2> QED
    BY <2>1, GatewayAssumption, FS_Union DEF Worker, Caller
<1>2. Cardinality(Worker) \in Nat
  BY <1>1, FS_CardinalityType
<1>3. IsFiniteSet(Conn) /\ Cardinality(Conn) = Cardinality(Worker) + 1
  <2>1. /\ IsFiniteSet(1..(Cardinality(Worker) + 1))
        /\ Cardinality(1..(Cardinality(Worker) + 1)) =
             IF 1 > Cardinality(Worker) + 1 THEN 0 ELSE (Cardinality(Worker) + 1) - 1 + 1
    BY <1>2, FS_Interval
  <2> QED
    BY <1>2, <2>1 DEF Conn
<1> SUFFICES ASSUME \A d \in Conn : ~ Unused(d) PROVE FALSE
  OBVIOUS
<1> DEFINE f == [d \in Conn |-> IF d = active THEN w
                                ELSE CHOOSE v \in Worker : worker[v].conn = d]
<1>4. \A d \in Conn : d # active => \E v \in Worker : worker[v].conn = d
  BY DEF Unused
<1>5. \A d \in Conn : d # active => f[d] \in Worker /\ worker[f[d]].conn = d
  BY <1>4
<1>6. f \in [Conn -> Worker]
  BY <1>5
<1>7. NoConn \notin Conn
  BY <1>2 DEF NoConn, Conn
<1>8. \A d \in Conn : f[d] = w <=> d = active
  BY <1>5, <1>7
<1> HIDE DEF f
<1>9. \A d, e \in Conn : f[d] = f[e] => d = e
  BY <1>5, <1>8
<1>10. Cardinality(Worker) < Cardinality(Conn)
  BY <1>2, <1>3
<1>11. \E d, e \in Conn : d # e /\ f[d] = f[e]
  BY <1>1, <1>3, <1>6, <1>10, FS_PigeonHole
<1> QED
  BY <1>9, <1>11

\* The steps that only read and move the worker.
LEMMA QuietIInv ==
  ASSUME IInv, NEW w \in Worker,
         \/ Check(w) \/ WaitForReadiness(w) \/ EnsureBrowser(w) \/ Call(w)
         \/ ConnectionClosed(w) \/ GiveUp(w)
  PROVE  IInv'
<1>1. UNCHANGED <<child, running, orphans, active, link, stop, faults>>
  BY DEF Check, WaitForReadiness, EnsureBrowser, Call, ConnectionClosed, GiveUp, process
<1>2. CallOK(w, worker[w])
  BY DEF IInv, Calls
<1>3. Calls'
  <2>1. CASE Check(w) \/ Call(w)
    BY <2>1, FreshCalls DEF IInv, Check, Call
  <2>2. CASE WaitForReadiness(w)
    BY <2>2, <1>2, FreshCalls, GotoCalls DEF IInv, WaitForReadiness, End, Phase, CallOK
  <2>3. CASE EnsureBrowser(w)
    BY <2>3, <1>2, FreshCalls, GotoCalls DEF IInv, EnsureBrowser, End, Phase, CallOK
  <2>4. CASE ConnectionClosed(w)
    BY <2>4, GotoCalls DEF IInv, ConnectionClosed, Phase
  <2>5. CASE GiveUp(w)
    BY <2>5, FreshCalls DEF IInv, GiveUp, End
  <2> QED
    BY <2>1, <2>2, <2>3, <2>4, <2>5
<1> QED
  BY <1>1, <1>3 DEF IInv, Shared, OneBrowser, Alive

\* A launch: only where no process runs.
LEMMA EnsureProcessIInv ==
  ASSUME IInv, NEW k \in Worker, EnsureProcess(k)
  PROVE  IInv'
<1>1. CallOK(k, worker[k])
  BY DEF IInv, Calls
<1>2. Calls'
  BY <1>1, FreshCalls, GotoCalls DEF IInv, EnsureProcess, End, Phase, CallOK
<1>3. Shared' /\ OneBrowser'
  BY GatewayAssumption DEF IInv, Shared, OneBrowser, Alive, EnsureProcess, Fault, process
<1> QED
  BY <1>2, <1>3 DEF IInv

\* Connecting and caching the connection.
LEMMA ConnectIInv ==
  ASSUME IInv, NEW w \in Worker, Connect(w) \/ Insert(w) \/ PageForProfile(w)
  PROVE  IInv'
<1>1. UNCHANGED <<child, running, orphans, stop>> /\ faults' \in 0..MaxFaults
  BY GatewayAssumption DEF Connect, Insert, PageForProfile, Fault, process, IInv, Shared
<1>2. CallOK(w, worker[w]) /\ worker[w].conn \in Conn \cup {NoConn}
  BY DEF IInv, Calls, CallRecord
<1>3. CASE Connect(w)
  <2>1. worker[w].conn = NoConn
    BY <1>2, <1>3 DEF Connect, CallOK
  <2> DEFINE c == CHOOSE d \in Conn : Unused(d)
  <2>2. c \in Conn
    BY <2>1, UnusedExists DEF IInv
  <2> HIDE DEF c
  <2>3. \/ worker' = [worker EXCEPT ![w].pc = "insert", ![w].conn = c]
        \/ End(w)
    BY <1>3 DEF Connect, c
  <2>4. ASSUME worker' = [worker EXCEPT ![w].pc = "insert", ![w].conn = c]
        PROVE  Calls'
    <3>1. worker' = [worker EXCEPT ![w] = [worker[w] EXCEPT !.pc = "insert", !.conn = c]]
      BY <2>4 DEF IInv, Calls
    <3>2. worker[w].pc \notin {"closed", "done"}
      BY <1>3 DEF Connect
    <3> QED
      BY <1>2, <2>2, <3>1, <3>2, HoldOK, SetWorker DEF IInv
  <2>5. ASSUME End(w) PROVE Calls'
    BY <2>5, FreshCalls DEF IInv, End
  <2>6. Calls'
    BY <2>3, <2>4, <2>5
  <2>7. link' \in [Conn -> {"unused", "open", "dropped", "tab_closed"}]
    BY <1>3 DEF Connect, Relink, IInv, Shared
  <2>8. active' = active
    BY <1>3 DEF Connect
  <2> QED
    BY <1>1, <2>6, <2>7, <2>8 DEF IInv, Shared, OneBrowser, Alive
<1>4. CASE Insert(w)
  <2>1. Calls'
    BY <1>2, <1>4, FreshCalls, GotoCalls DEF IInv, Insert, End, Phase, CallOK
  <2>2. active' \in Conn \cup {NoConn} /\ link' = link
    BY <1>2, <1>4 DEF Insert, IInv, Shared
  <2> QED
    BY <1>1, <2>1, <2>2 DEF IInv, Shared, OneBrowser, Alive
<1>5. CASE PageForProfile(w)
  <2>1. ASSUME active # NoConn, worker' = [worker EXCEPT ![w].pc = "run", ![w].conn = active]
        PROVE  Calls'
    <3>1. worker' = [worker EXCEPT ![w] = [worker[w] EXCEPT !.pc = "run", !.conn = active]]
      BY <2>1 DEF IInv, Calls
    <3>2. active \in Conn /\ worker[w].pc \notin {"closed", "done"}
      BY <1>5, <2>1 DEF PageForProfile, IInv, Shared
    <3> QED
      BY <1>2, <3>1, <3>2, HoldOK, SetWorker DEF IInv
  <2>2. ASSUME End(w) PROVE Calls'
    BY <2>2, FreshCalls DEF IInv, End
  <2>3. Calls'
    BY <1>5, <2>1, <2>2 DEF PageForProfile
  <2> QED
    BY <1>1, <1>5, <2>3 DEF PageForProfile, IInv, Shared, OneBrowser, Alive
<1> QED
  BY <1>3, <1>4, <1>5

\* The steps of a pass and its end.
LEMMA RunIInv ==
  ASSUME IInv, NEW w \in Worker,
         RunStep(w) \/ AnswerLost(w) \/ OtherError(w) \/ Evict(w)
  PROVE  IInv'
<1>1. CallOK(w, worker[w])
  BY DEF IInv, Calls
<1>2. CASE RunStep(w)
  <2>1. Calls'
    BY <1>1, <1>2, AnsweredOK, SetWorker DEF IInv, RunStep
  <2> QED
    BY <1>2, <2>1 DEF RunStep, process, IInv, Shared, OneBrowser, Alive
<1>3. CASE AnswerLost(w)
  <2>1. Calls'
    BY <1>1, <1>3, LostOK, SetWorker DEF IInv, AnswerLost
  <2>2. link' \in [Conn -> {"unused", "open", "dropped", "tab_closed"}]
    BY <1>3 DEF AnswerLost, IInv, Shared
  <2> QED
    BY <1>3, <2>1, <2>2, GatewayAssumption
    DEF AnswerLost, Fault, process, IInv, Shared, OneBrowser, Alive
<1>4. CASE OtherError(w)
  <2>1. Calls'
    BY <1>4, FreshCalls DEF IInv, OtherError, End
  <2> QED
    BY <1>4, <2>1, GatewayAssumption
    DEF OtherError, Fault, process, IInv, Shared, OneBrowser, Alive
<1>5. CASE Evict(w)
  <2>1. worker' = [worker EXCEPT ![w] = [worker[w] EXCEPT !.pc = "ensure", !.conn = NoConn,
                                                          !.step = 1, !.retried = TRUE]]
    BY <1>5 DEF Evict, IInv, Calls
  <2>2. Calls'
    BY <1>1, <1>5, <2>1, RestartOK, SetWorker DEF IInv, Evict, Restartable
  <2> QED
    BY <1>5, <2>2 DEF Evict, process, IInv, Shared, OneBrowser, Alive
<1> QED
  BY <1>2, <1>3, <1>4, <1>5

-----------------------------------------------------------------------------
(* Steps of the stop and of the browser. *)

\* What happens to the process keeps its count: the entry of the children map says
\* whether there is one to kill.
LEMMA BrowserIInv ==
  ASSUME IInv,
         \/ StopBrowser \/ StopProcess \/ BecomeReady \/ Die \/ OrphanExits
         \/ \E c \in Conn : DropLink(c)
  PROVE  IInv'
<1>1. worker' = worker
  BY DEF StopBrowser, StopProcess, BecomeReady, Die, OrphanExits, DropLink
<1>2. Calls'
  BY <1>1 DEF IInv, Calls
<1>3. link' \in [Conn -> {"unused", "open", "dropped", "tab_closed"}]
  BY DEF StopBrowser, StopProcess, BecomeReady, Die, OrphanExits, DropLink, LinksAfterExit, IInv, Shared
<1>4. /\ child' \in {"none", "starting", "ready", "exited"} /\ active' \in Conn \cup {NoConn}
      /\ stop' \in {"idle", "kill"} /\ faults' \in 0..MaxFaults
  BY GatewayAssumption
  DEF StopBrowser, StopProcess, BecomeReady, Die, OrphanExits, DropLink, Fault, process,
      NoConn, IInv, Shared
<1>5. OneBrowser' /\ running' \in Nat /\ orphans' \in Nat
  BY DEF StopBrowser, StopProcess, BecomeReady, Die, OrphanExits, DropLink, process,
         IInv, Shared, OneBrowser, Alive
<1>6. Shared'
  BY <1>3, <1>4, <1>5 DEF Shared
<1> QED
  BY <1>2, <1>5, <1>6 DEF IInv

-----------------------------------------------------------------------------
(* Invariance. *)

\* Before anything is launched.
LEMMA InitIInv == Init => IInv
<1> SUFFICES ASSUME Init PROVE IInv
  OBVIOUS
<1>1. Shared /\ OneBrowser
  BY GatewayAssumption DEF Init, Shared, OneBrowser, Alive
<1>2. \A w \in Worker : worker[w] = Fresh("idle") /\ CallOK(w, Fresh("idle"))
  BY FreshOK DEF Init
<1>3. Fresh("idle") \in CallRecord
  BY FreshOK DEF CallOK
<1> QED
  BY <1>1, <1>2, <1>3 DEF Init, IInv, Calls

\* Every step keeps the invariant.
LEMMA NextIInv == IInv /\ [Next]_vars => IInv'
<1> SUFFICES ASSUME IInv, [Next]_vars PROVE IInv'
  OBVIOUS
<1>1. CASE UNCHANGED vars
  BY <1>1 DEF vars, IInv, Shared, Calls, OneBrowser, Alive
<1>2. ASSUME NEW w \in Worker, KeeperStep(w) \/ CallerStep(w) \/ AnswerLost(w) \/ OtherError(w)
      PROVE  IInv'
  BY <1>2, QuietIInv, EnsureProcessIInv, ConnectIInv, RunIInv DEF KeeperStep, CallerStep
<1> QED
  BY <1>1, <1>2, BrowserIInv DEF Next, Worker

\* The inductive invariant holds in every reachable state.
THEOREM Invariance == Spec => []IInv
BY InitIInv, NextIInv, PTL DEF Spec

\* The tables and the calls are well formed, and no call executes a step of its
\* program more than twice: every call reconnects at most once.
THEOREM TypeCorrect == Spec => []TypeOK
<1>1. IInv => TypeOK
  <2> SUFFICES ASSUME IInv PROVE TypeOK
    OBVIOUS
  <2>1. ASSUME NEW w \in Worker
        PROVE  worker[w].ran \in [Step -> 0..2] /\ worker[w].answered \in [Step -> 0..2]
    <3>1. CallOK(w, worker[w]) /\ worker[w] \in CallRecord
      BY DEF IInv, Calls
    <3>2. \A i \in Step : MayHaveRun(worker[w], i) <= 2
      BY DEF MayHaveRun
    <3>3. \A i \in Step : worker[w].ran[i] \in Nat /\ worker[w].answered[i] \in Nat
      BY <3>1 DEF CallRecord
    <3>4. \A i \in Step : worker[w].ran[i] \in 0..2 /\ worker[w].answered[i] \in 0..2
      BY <3>1, <3>2, <3>3 DEF CallOK, MayHaveRun
    <3> QED
      BY <3>1, <3>4 DEF CallRecord
  <2>2. worker \in [Worker -> [pc : Phase, conn : Conn \cup {NoConn}, step : Step,
                               retried : BOOLEAN,
                               ran : [Step -> 0..2], answered : [Step -> 0..2]]]
    BY <2>1 DEF IInv, Calls, CallRecord
  <2> QED
    BY <2>2 DEF IInv, Shared, TypeOK
<1> QED
  BY <1>1, Invariance, PTL

\* Checks, launches, stops and deaths never leave two processes on the profile
\* directory, nor one that the children map does not know, but for those whose
\* kill was refused.
THEOREM SingleBrowser == Spec => []OneBrowser
BY Invariance, PTL DEF IInv

\* run_script never executes again a step that it has an answer for, and when it
\* succeeds no step is without one.
THEOREM NoReplay == Spec => []AnsweredOnce
<1>1. IInv => AnsweredOnce
  <2> SUFFICES ASSUME IInv, NEW w \in Script, NEW i \in Step
               PROVE  /\ worker[w].answered[i] <= 1
                      /\ worker[w].pc = "done" => worker[w].answered[i] = 1
    BY DEF AnsweredOnce
  <2>1. CallOK(w, worker[w])
    BY DEF IInv, Calls, Worker, Caller
  <2> QED
    BY <2>1 DEF CallOK
<1> QED
  BY <1>1, Invariance, PTL
=============================================================================
