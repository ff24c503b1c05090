-------------------------- MODULE ReportLoopProofs --------------------------
(***************************************************************************)
(* The loop of register_machine and heartbeat over the profiles of a       *)
(* report computes the closed form that Controller uses for it, for lists  *)
(* of any length and from any state record.                                *)
(***************************************************************************)
EXTENDS MCController, ControllerProofs, WellFoundedInduction

\* What the loop is to make of s: nothing if it meets an error, or one record.
ClosedForm(s, m, r) == IF AcceptsReport(s, m, r) THEN {UpsertProfiles(s, m, r)} ELSE {}

NamesOnce(r) == \A i, j \in DOMAIN r : r[i].profile = r[j].profile => i = j

Claimed(r, k) == \E i \in DOMAIN r : k \in r[i].accounts

Reported(r) == {r[i].profile : i \in DOMAIN r}

-----------------------------------------------------------------------------
(* The closed form, entry by entry. *)

\* An accepted list claims an account once.
LEMMA ClaimedOnce ==
  ASSUME NEW s, NEW m, NEW r \in Seq(Report), AcceptsReport(s, m, r),
         NEW i \in DOMAIN r, NEW j \in DOMAIN r, NEW k, k \in r[i].accounts, k \in r[j].accounts
  PROVE  i = j
<1>1. DOMAIN r = 1..Len(r) /\ Len(r) \in Nat
  OBVIOUS
<1>2. ~(i < j) /\ ~(j < i)
  BY <1>1 DEF AcceptsReport, AccountConflict
<1> QED
  BY <1>1, <1>2

\* Records with the same fields are the same.
LEMMA SameRecord ==
  ASSUME NEW t \in State, NEW u \in State,
         t.machineStatus = u.machineStatus, t.heartbeat = u.heartbeat,
         t.profileStatus = u.profileStatus, t.home = u.home, t.accounts = u.accounts,
         t.bindings = u.bindings, t.leases = u.leases
  PROVE  t = u
BY DEF State

\* A report leaves a profile with a status.
LEMMA ReportedStatusTyped ==
  ASSUME NEW s \in State, NEW e \in Report
  PROVE  ReportedStatus(s, e) \in ProfileStatus \cup {"Absent"}
<1>1. e.status \in ReportStatus
  BY DEF Report
<1> QED
  BY <1>1 DEF ReportedStatus, OperatorOwned, ProfileStatus, ReportStatus

\* Field by field, what t is to be when the list r has been worked into s.
WorkedIn(s, m, r, t) ==
  /\ t \in State
  /\ t.machineStatus = s.machineStatus /\ t.heartbeat = s.heartbeat /\ t.leases = s.leases
  /\ \A i \in DOMAIN r :
       /\ t.profileStatus[r[i].profile] = ReportedStatus(s, r[i])
       /\ t.home[r[i].profile] = m
       /\ t.accounts[r[i].profile] = r[i].accounts
  /\ \A p \in Profile \ Reported(r) :
       /\ t.profileStatus[p] = s.profileStatus[p]
       /\ t.home[p] = s.home[p]
       /\ t.accounts[p] = s.accounts[p]
  /\ \A k \in Account, i \in DOMAIN r : k \in r[i].accounts => t.bindings[k] = r[i].profile
  /\ \A k \in Account : ~Claimed(r, k) =>
       t.bindings[k] = IF s.bindings[k] \in Reported(r) THEN NoProfile ELSE s.bindings[k]

\* The closed form is that.
LEMMA UpsertFields ==
  ASSUME NEW s \in State, NEW m \in Machine, NEW r \in Seq(Report), NamesOnce(r),
         AcceptsReport(s, m, r)
  PROVE  WorkedIn(s, m, r, UpsertProfiles(s, m, r))
<1> DEFINE t == UpsertProfiles(s, m, r)
           reported == {r[i].profile : i \in DOMAIN r}
           of(p) == r[CHOOSE i \in DOMAIN r : r[i].profile = p]
           claims(k) == {i \in DOMAIN r : k \in r[i].accounts}
           claimant(k) == CHOOSE i \in claims(k) : TRUE
<1>1. /\ DOMAIN t = DOMAIN s
      /\ t.machineStatus = s.machineStatus /\ t.heartbeat = s.heartbeat /\ t.leases = s.leases
      /\ t.profileStatus = [p \in Profile |->
           IF p \in reported THEN ReportedStatus(s, of(p)) ELSE s.profileStatus[p]]
      /\ t.home = [p \in Profile |-> IF p \in reported THEN m ELSE s.home[p]]
      /\ t.accounts = [p \in Profile |->
           IF p \in reported THEN of(p).accounts ELSE s.accounts[p]]
      /\ t.bindings = [k \in Account |->
           IF claims(k) # {} THEN r[claimant(k)].profile
           ELSE IF s.bindings[k] \in reported THEN NoProfile ELSE s.bindings[k]]
  BY DEF State, UpsertProfiles
<1>2. \A i \in DOMAIN r : r[i].profile \in Profile
  <2>1. \A i \in DOMAIN r : r[i] \in Report
    OBVIOUS
  <2>2. \A e \in Report : e.profile \in Profile
    BY DEF Report
  <2> QED
    BY <2>1, <2>2
<1>3. ASSUME NEW i \in DOMAIN r
      PROVE  r[i].profile \in reported /\ of(r[i].profile) = r[i]
  <2> DEFINE j == CHOOSE j \in DOMAIN r : r[j].profile = r[i].profile
  <2>1. j \in DOMAIN r /\ r[j].profile = r[i].profile
    OBVIOUS
  <2>2. j = i
    BY <2>1 DEF NamesOnce
  <2> QED
    BY <2>2
<1>4. \A k : claims(k) # {} <=> Claimed(r, k)
  BY DEF Claimed
<1>5. reported = Reported(r)
  BY DEF Reported
<1>6. ASSUME NEW k, NEW i \in DOMAIN r, k \in r[i].accounts
      PROVE  claims(k) # {} /\ claimant(k) = i
  <2>1. i \in claims(k) /\ claimant(k) \in claims(k)
    BY <1>6
  <2> QED
    BY <1>6, <2>1, ClaimedOnce
<1>entry. \A p \in reported : of(p) \in Report
  BY <1>3
<1>owner. \A k : claims(k) # {} => r[claimant(k)].profile \in Profile
  BY <1>2
<1> HIDE DEF reported, of, claims, claimant
<1>7. t \in State
  <2>1. t.profileStatus \in [Profile -> ProfileStatus \cup {"Absent"}]
    <3>1. \A p \in reported : ReportedStatus(s, of(p)) \in ProfileStatus \cup {"Absent"}
      BY <1>entry, ReportedStatusTyped
    <3> QED
      BY <1>1, <3>1 DEF State
  <2>2. t.home \in [Profile -> Machine \cup {NoMachine}]
    BY <1>1 DEF State
  <2>3. t.accounts \in [Profile -> SUBSET Account]
    <3>1. \A p \in reported : of(p).accounts \in SUBSET Account
      BY <1>entry DEF Report
    <3> QED
      BY <1>1, <3>1 DEF State
  <2>4. t.bindings \in [Account -> Profile \cup {NoProfile}]
    BY <1>1, <1>owner DEF State
  <2> QED
    BY <1>1, <2>1, <2>2, <2>3, <2>4 DEF State, UpsertProfiles
<1> HIDE DEF t
<1>8. \A i \in DOMAIN r :
        /\ t.profileStatus[r[i].profile] = ReportedStatus(s, r[i])
        /\ t.home[r[i].profile] = m
        /\ t.accounts[r[i].profile] = r[i].accounts
  BY <1>1, <1>2, <1>3
<1>9. \A p \in Profile \ Reported(r) :
        /\ t.profileStatus[p] = s.profileStatus[p]
        /\ t.home[p] = s.home[p]
        /\ t.accounts[p] = s.accounts[p]
  BY <1>1, <1>5
<1>10. \A k \in Account : ~Claimed(r, k) =>
         t.bindings[k] = IF s.bindings[k] \in Reported(r) THEN NoProfile ELSE s.bindings[k]
  BY <1>1, <1>4, <1>5
<1>11. \A k \in Account, i \in DOMAIN r : k \in r[i].accounts => t.bindings[k] = r[i].profile
  BY <1>1, <1>6
<1> QED
  BY <1>1, <1>7, <1>8, <1>9, <1>10, <1>11 DEF t, WorkedIn

-----------------------------------------------------------------------------
(* One round of the loop. *)

\* A list and the list with one entry more.
LEMMA Longer ==
  ASSUME NEW q \in Seq(Report), NEW e \in Report, NamesOnce(Append(q, e))
  PROVE  LET r == Append(q, e)
             n == Len(q)
         IN  /\ r \in Seq(Report) /\ NamesOnce(q)
             /\ n \in Nat /\ DOMAIN q = 1..n /\ DOMAIN r = 1..(n + 1)
             /\ \A i \in 1..n : i \in DOMAIN r /\ r[i] = q[i] /\ q[i] \in Report
             /\ n + 1 \in DOMAIN r /\ r[n + 1] = e
             /\ \A i \in DOMAIN r : i \in 1..n \/ i = n + 1
             /\ e.profile \notin Reported(q)
             /\ Reported(r) = Reported(q) \cup {e.profile}
             /\ \A k : Claimed(r, k) <=> Claimed(q, k) \/ k \in e.accounts
<1> DEFINE r == Append(q, e)
           n == Len(q)
<1>1. /\ r \in Seq(Report)
      /\ n \in Nat /\ DOMAIN q = 1..n /\ DOMAIN r = 1..(n + 1)
      /\ \A i \in 1..n : r[i] = q[i] /\ q[i] \in Report
      /\ r[n + 1] = e
  OBVIOUS
<1> HIDE DEF r, n
<1>2. /\ \A i \in 1..n : i \in DOMAIN r
      /\ n + 1 \in DOMAIN r /\ n + 1 \notin 1..n
      /\ \A i \in DOMAIN r : i \in 1..n \/ i = n + 1
  BY <1>1
<1>3. NamesOnce(r)
  BY DEF r
<1>4. NamesOnce(q) /\ e.profile \notin Reported(q)
  BY <1>1, <1>2, <1>3 DEF NamesOnce, Reported
<1>5. Reported(r) = Reported(q) \cup {e.profile}
  BY <1>1, <1>2 DEF Reported
<1>6. \A k : Claimed(r, k) <=> Claimed(q, k) \/ k \in e.accounts
  BY <1>1, <1>2 DEF Claimed
<1> QED
  BY <1>1, <1>2, <1>4, <1>5, <1>6 DEF r, n

\* The longer list is accepted if the shorter one is and the loop finds nothing
\* wrong with the last entry, in the record it has then.
LEMMA OneMoreAccepted ==
  ASSUME NEW s \in State, NEW m \in Machine, NEW q \in Seq(Report), NEW e \in Report,
         NamesOnce(Append(q, e))
  PROVE  AcceptsReport(s, m, Append(q, e)) <=>
           /\ AcceptsReport(s, m, q)
           /\ e.machine \in {NoMachine, m}
           /\ \A k \in e.accounts :
                UpsertProfiles(s, m, q).bindings[k] \in {NoProfile, e.profile}
<1> DEFINE r == Append(q, e)
           n == Len(q)
           t == UpsertProfiles(s, m, q)
<1>1. /\ r \in Seq(Report) /\ NamesOnce(q)
      /\ n \in Nat /\ DOMAIN q = 1..n /\ DOMAIN r = 1..(n + 1)
      /\ \A i \in 1..n : i \in DOMAIN r /\ r[i] = q[i] /\ q[i] \in Report
      /\ n + 1 \in DOMAIN r /\ r[n + 1] = e
      /\ \A i \in DOMAIN r : i \in 1..n \/ i = n + 1
      /\ e.profile \notin Reported(q)
  BY Longer
<1>2. AcceptsReport(s, m, q) => WorkedIn(s, m, q, t)
  BY <1>1, UpsertFields
<1>3. e.accounts \subseteq Account /\ e.profile \in Profile
  BY DEF Report
<1>4. \A i \in 1..n : q[i].profile \in Profile /\ q[i].profile \in Reported(q)
  BY <1>1 DEF Report, Reported
<1> HIDE DEF r, n, t
<1>5. \A i \in 1..n : AccountConflict(s, r, i) <=> AccountConflict(s, q, i)
  <2>1. \A i \in 1..n : \A j \in 1..(i - 1) : j \in 1..n
    BY <1>1
  <2> QED
    BY <1>1, <2>1 DEF AccountConflict
<1>6. AcceptsReport(s, m, r) <=>
        /\ AcceptsReport(s, m, q)
        /\ e.machine \in {NoMachine, m}
        /\ ~AccountConflict(s, r, n + 1)
  BY <1>1, <1>5 DEF AcceptsReport
<1>7. AccountConflict(s, r, n + 1) <=>
        \E k \in e.accounts :
          \/ Claimed(q, k)
          \/ s.bindings[k] \notin {NoProfile, e.profile} /\ s.bindings[k] \notin Reported(q)
  <2>1. 1..(n + 1 - 1) = 1..n
    BY <1>1
  <2> QED
    BY <1>1, <2>1 DEF AccountConflict, Claimed, Reported
<1>8. ASSUME AcceptsReport(s, m, q), NEW k \in e.accounts
      PROVE  t.bindings[k] \notin {NoProfile, e.profile} <=>
               \/ Claimed(q, k)
               \/ s.bindings[k] \notin {NoProfile, e.profile} /\ s.bindings[k] \notin Reported(q)
  <2>1. CASE Claimed(q, k)
    BY <1>1, <1>2, <1>3, <1>4, <1>8, <2>1, SentinelAssumption DEF Claimed, WorkedIn
  <2>2. CASE ~Claimed(q, k)
    BY <1>1, <1>2, <1>3, <1>8, <2>2, SentinelAssumption DEF WorkedIn
  <2> QED
    BY <2>1, <2>2
<1> QED
  BY <1>6, <1>7, <1>8 DEF r, t

\* What the round makes of the record is the closed form of the longer list.
LEMMA OneMoreRecord ==
  ASSUME NEW s \in State, NEW m \in Machine, NEW q \in Seq(Report), NEW e \in Report,
         NamesOnce(Append(q, e)), AcceptsReport(s, m, Append(q, e))
  PROVE  UpsertOne(UpsertProfiles(s, m, q), m, e) = {UpsertProfiles(s, m, Append(q, e))}
<1> DEFINE r == Append(q, e)
           n == Len(q)
           t == UpsertProfiles(s, m, q)
           w == UpsertProfiles(s, m, r)
           u == [t EXCEPT
                   !.profileStatus[e.profile] = ReportedStatus(t, e),
                   !.home[e.profile]     = m,
                   !.accounts[e.profile] = e.accounts,
                   !.bindings = [k \in Account |->
                                   IF k \in e.accounts THEN e.profile
                                   ELSE IF @[k] = e.profile THEN NoProfile ELSE @[k]]]
<1>1. /\ r \in Seq(Report) /\ NamesOnce(q)
      /\ n \in Nat /\ DOMAIN q = 1..n /\ DOMAIN r = 1..(n + 1)
      /\ \A i \in 1..n : i \in DOMAIN r /\ r[i] = q[i] /\ q[i] \in Report
      /\ n + 1 \in DOMAIN r /\ r[n + 1] = e
      /\ \A i \in DOMAIN r : i \in 1..n \/ i = n + 1
      /\ e.profile \notin Reported(q)
      /\ Reported(r) = Reported(q) \cup {e.profile}
      /\ \A k : Claimed(r, k) <=> Claimed(q, k) \/ k \in e.accounts
  BY Longer
<1>2. e.accounts \subseteq Account /\ e.profile \in Profile /\ NamesOnce(r)
  BY DEF Report
<1>3. /\ AcceptsReport(s, m, q) /\ e.machine \in {NoMachine, m}
      /\ \A k \in e.accounts : t.bindings[k] \in {NoProfile, e.profile}
  BY OneMoreAccepted
<1>4. WorkedIn(s, m, q, t)
  BY <1>1, <1>3, UpsertFields
<1>5. WorkedIn(s, m, r, w)
  BY <1>1, <1>2, UpsertFields
<1>6. t \in State /\ w \in State
  BY <1>4, <1>5 DEF WorkedIn
<1>7. UpsertOne(t, m, e) = {u}
  BY <1>3 DEF UpsertOne
<1> HIDE DEF r, n, t, w
<1>8. /\ u.machineStatus = t.machineStatus /\ u.heartbeat = t.heartbeat /\ u.leases = t.leases
      /\ u.profileStatus = [t.profileStatus EXCEPT ![e.profile] = ReportedStatus(t, e)]
      /\ u.home = [t.home EXCEPT ![e.profile] = m]
      /\ u.accounts = [t.accounts EXCEPT ![e.profile] = e.accounts]
      /\ u.bindings = [k \in Account |->
                          IF k \in e.accounts THEN e.profile
                          ELSE IF t.bindings[k] = e.profile THEN NoProfile ELSE t.bindings[k]]
  BY <1>6 DEF State
<1>9. u \in State
  BY <1>2, <1>6, <1>8, ReportedStatusTyped DEF State
<1> HIDE DEF u
<1>10. ReportedStatus(t, e) = ReportedStatus(s, e)
  BY <1>1, <1>2, <1>4 DEF WorkedIn, ReportedStatus, HasActiveLease
<1>11. ASSUME NEW p \in Profile
       PROVE  /\ u.profileStatus[p] = w.profileStatus[p]
              /\ u.home[p] = w.home[p]
              /\ u.accounts[p] = w.accounts[p]
  <2>1. CASE p = e.profile
    <3>1. /\ w.profileStatus[e.profile] = ReportedStatus(s, e)
          /\ w.home[e.profile] = m
          /\ w.accounts[e.profile] = e.accounts
      BY <1>1, <1>5 DEF WorkedIn
    <3>2. /\ u.profileStatus[e.profile] = ReportedStatus(t, e)
          /\ u.home[e.profile] = m
          /\ u.accounts[e.profile] = e.accounts
      BY <1>2, <1>6, <1>8 DEF State
    <3> QED
      BY <1>10, <2>1, <3>1, <3>2
  <2>2. ASSUME NEW i \in 1..n, p = q[i].profile
        PROVE  /\ p # e.profile
               /\ w.profileStatus[p] = t.profileStatus[p]
               /\ w.home[p] = t.home[p]
               /\ w.accounts[p] = t.accounts[p]
    BY <1>1, <1>4, <1>5, <2>2 DEF WorkedIn, Reported
  <2>3. CASE p \notin Reported(r)
    BY <1>1, <1>4, <1>5, <1>6, <1>8, <2>3 DEF WorkedIn, State
  <2>4. p = e.profile \/ p \notin Reported(r) \/ \E i \in 1..n : p = q[i].profile
    BY <1>1 DEF Reported
  <2>5. CASE \E i \in 1..n : p = q[i].profile
    BY <1>6, <1>8, <2>2, <2>5 DEF State
  <2> QED
    BY <2>1, <2>3, <2>4, <2>5
<1>12. ASSUME NEW k \in Account
       PROVE  u.bindings[k] = w.bindings[k]
  <2>1. CASE k \in e.accounts
    BY <1>1, <1>5, <1>8, <2>1 DEF WorkedIn
  <2>2. CASE k \notin e.accounts /\ Claimed(q, k)
    <3>1. PICK i \in 1..n : k \in q[i].accounts
      BY <1>1, <2>2 DEF Claimed
    <3>2. t.bindings[k] = q[i].profile /\ w.bindings[k] = q[i].profile
      BY <1>1, <1>4, <1>5, <3>1 DEF WorkedIn
    <3>3. q[i].profile # e.profile
      BY <1>1 DEF Reported
    <3> QED
      BY <1>8, <2>2, <3>2, <3>3
  <2>3. CASE k \notin e.accounts /\ ~Claimed(q, k)
    <3>1. t.bindings[k] = IF s.bindings[k] \in Reported(q) THEN NoProfile ELSE s.bindings[k]
      BY <1>4, <2>3 DEF WorkedIn
    <3>2. w.bindings[k] = IF s.bindings[k] \in Reported(q) \cup {e.profile} THEN NoProfile
                          ELSE s.bindings[k]
      BY <1>1, <1>5, <2>3 DEF WorkedIn
    <3>3. u.bindings[k] = IF t.bindings[k] = e.profile THEN NoProfile ELSE t.bindings[k]
      BY <1>8, <2>3
    <3> QED
      BY <1>2, <3>1, <3>2, <3>3, SentinelAssumption
  <2> QED
    BY <2>1, <2>2, <2>3
<1>13. u = w
  <2>1. u.profileStatus = w.profileStatus /\ u.home = w.home /\ u.accounts = w.accounts
    BY <1>6, <1>9, <1>11 DEF State
  <2>2. u.bindings = w.bindings
    BY <1>6, <1>9, <1>12 DEF State
  <2> QED
    BY <1>4, <1>5, <1>6, <1>8, <1>9, <2>1, <2>2, SameRecord DEF WorkedIn
<1> QED
  BY <1>7, <1>13 DEF r, t, w

\* One round of the loop, from the closed form of a list to that of the list with
\* one entry more.
LEMMA OneMore ==
  ASSUME NEW s \in State, NEW m \in Machine, NEW q \in Seq(Report), NEW e \in Report,
         NamesOnce(Append(q, e))
  PROVE  ClosedForm(s, m, Append(q, e)) = UNION {UpsertOne(t, m, e) : t \in ClosedForm(s, m, q)}
<1>1. CASE ~AcceptsReport(s, m, q)
  BY <1>1, OneMoreAccepted DEF ClosedForm
<1>2. CASE AcceptsReport(s, m, q) /\ ~AcceptsReport(s, m, Append(q, e))
  <2>1. UpsertOne(UpsertProfiles(s, m, q), m, e) = {}
    BY <1>2, OneMoreAccepted DEF UpsertOne
  <2> QED
    BY <1>2, <2>1 DEF ClosedForm
<1>3. CASE AcceptsReport(s, m, q) /\ AcceptsReport(s, m, Append(q, e))
  BY <1>3, OneMoreRecord DEF ClosedForm
<1> QED
  BY <1>1, <1>2, <1>3

-----------------------------------------------------------------------------
(* The whole loop. *)

\* An empty list changes nothing.
LEMMA NoEntry ==
  ASSUME NEW s \in State, NEW m \in Machine
  PROVE  ClosedForm(s, m, << >>) = {s}
<1> DEFINE r == << >>
           t == UpsertProfiles(s, m, r)
<1>1. r \in Seq(Report) /\ DOMAIN r = {}
  OBVIOUS
<1>2. NamesOnce(r) /\ AcceptsReport(s, m, r) /\ Reported(r) = {} /\ \A k : ~Claimed(r, k)
  BY <1>1 DEF NamesOnce, AcceptsReport, Reported, Claimed
<1> HIDE DEF r
<1>3. WorkedIn(s, m, r, t)
  BY <1>1, <1>2, UpsertFields
<1> HIDE DEF t
<1>4. /\ t.profileStatus = s.profileStatus /\ t.home = s.home /\ t.accounts = s.accounts
      /\ t.bindings = s.bindings
  BY <1>2, <1>3 DEF WorkedIn, State
<1>5. t = s
  BY <1>3, <1>4, SameRecord DEF WorkedIn
<1> QED
  BY <1>2, <1>5 DEF ClosedForm, r, t

\* A predicate on 0..n that holds at 0 and is passed on holds everywhere: else there
\* would be a smallest number where it does not.
LEMMA UpTo ==
  ASSUME NEW n \in Nat, NEW good \in SUBSET (0..n),
         0 \in good, \A i \in 1..n : i - 1 \in good => i \in good
  PROVE  0..n \subseteq good
<1> SUFFICES ASSUME (0..n) \ good # {} PROVE FALSE
  OBVIOUS
<1> DEFINE Bad == (0..n) \ good
<1>1. Bad \subseteq Nat /\ Bad # {}
  OBVIOUS
<1>2. PICK x \in Bad : \A y \in Bad : ~(<<y, x>> \in OpToRel(<, Nat))
  BY <1>1, NatLessThanWellFounded, WFMin
<1>3. x \in 1..n
  OBVIOUS
<1>4. x - 1 \in Bad
  BY <1>3
<1>5. <<x - 1, x>> \in OpToRel(<, Nat)
  <2>1. x - 1 \in Nat /\ x \in Nat /\ x - 1 < x
    BY <1>3
  <2> QED
    BY <2>1, Zenon DEF OpToRel
<1> QED
  BY <1>2, <1>4, <1>5

\* The first i entries of a list.
LEMMA Prefixes ==
  ASSUME NEW r \in Seq(Report), NamesOnce(r), NEW i \in 1..Len(r)
  PROVE  /\ SubSeq(r, 1, i - 1) \in Seq(Report) /\ r[i] \in Report
         /\ SubSeq(r, 1, i) = Append(SubSeq(r, 1, i - 1), r[i])
         /\ NamesOnce(SubSeq(r, 1, i))
<1> DEFINE p == SubSeq(r, 1, i)
<1>1. /\ SubSeq(r, 1, i - 1) \in Seq(Report) /\ r[i] \in Report
      /\ p \in Seq(Report) /\ Len(p) = i /\ \A j \in 1..i : p[j] = r[j]
      /\ Len(SubSeq(r, 1, i - 1)) = i - 1
      /\ \A j \in 1..(i - 1) : SubSeq(r, 1, i - 1)[j] = r[j]
  OBVIOUS
<1>2. p = Append(SubSeq(r, 1, i - 1), r[i])
  BY <1>1
<1>3. DOMAIN p = 1..i /\ 1..i \subseteq DOMAIN r
  BY <1>1
<1> HIDE DEF p
<1>4. NamesOnce(p)
  BY <1>1, <1>3 DEF NamesOnce
<1> QED
  BY <1>1, <1>2, <1>4 DEF p

\* The loop over any list that names a profile once, from any record, ends in the
\* closed form.
THEOREM LoopIsClosedForm ==
  ASSUME NEW s \in State, NEW m \in Machine, NEW r \in Seq(Report), NamesOnce(r)
  PROVE  UpsertLoop(s, m, r) = ClosedForm(s, m, r)
<1> DEFINE n == Len(r)
           Rounds(g) == [i \in 0..n |->
                           IF i = 0 THEN {s} ELSE UNION {UpsertOne(t, m, r[i]) : t \in g[i - 1]}]
           form == [i \in 0..n |-> ClosedForm(s, m, SubSeq(r, 1, i))]
           after == CHOOSE g : g = Rounds(g)
<1>1. /\ n \in Nat /\ 0 \in 0..n /\ n \in 0..n
      /\ SubSeq(r, 1, 0) = << >> /\ SubSeq(r, 1, n) = r
  OBVIOUS
<1>2. form[0] = {s}
  BY <1>1, NoEntry
<1>3. ASSUME NEW i \in 1..n
      PROVE  form[i] = UNION {UpsertOne(t, m, r[i]) : t \in form[i - 1]}
  <2>1. i \in 0..n /\ i - 1 \in 0..n
    BY <1>1
  <2>2. ClosedForm(s, m, SubSeq(r, 1, i)) =
          UNION {UpsertOne(t, m, r[i]) : t \in ClosedForm(s, m, SubSeq(r, 1, i - 1))}
    <3> DEFINE q == SubSeq(r, 1, i - 1)
               e == r[i]
    <3>1. /\ q \in Seq(Report) /\ e \in Report
          /\ SubSeq(r, 1, i) = Append(q, e) /\ NamesOnce(Append(q, e))
      BY Prefixes
    <3> HIDE DEF q, e
    <3>2. ClosedForm(s, m, Append(q, e)) = UNION {UpsertOne(t, m, e) : t \in ClosedForm(s, m, q)}
      BY <3>1, OneMore
    <3> QED
      BY <3>1, <3>2 DEF q, e
  <2> QED
    BY <2>1, <2>2
<1>4. form = Rounds(form)
  <2>1. \A i \in 0..n : i = 0 \/ i \in 1..n
    BY <1>1
  <2>2. \A i \in 0..n :
          form[i] = IF i = 0 THEN {s} ELSE UNION {UpsertOne(t, m, r[i]) : t \in form[i - 1]}
    BY <1>2, <1>3, <2>1
  <2> QED
    BY <2>2
<1>5. after = Rounds(after)
  BY <1>4
<1> HIDE DEF form
<1>6. ASSUME NEW g, g = Rounds(g)
      PROVE  \A i \in 0..n : g[i] = form[i]
  <2> DEFINE good == {i \in 0..n : g[i] = form[i]}
  <2>1. 0 \in 0..n /\ \A i \in 1..n : i \in 0..n /\ i # 0
    BY <1>1
  <2>2. 0 \in good
    BY <1>2, <1>6, <2>1
  <2>3. ASSUME NEW i \in 1..n, i - 1 \in good
        PROVE  i \in good
    <3>1. g[i] = UNION {UpsertOne(t, m, r[i]) : t \in g[i - 1]}
      BY <1>6, <2>1
    <3> QED
      BY <1>3, <2>1, <2>3, <3>1
  <2> HIDE DEF good
  <2>4. 0..n \subseteq good
    BY <1>1, <2>2, <2>3, UpTo DEF good
  <2> QED
    BY <2>4 DEF good
<1>7. after[n] = form[n]
  <2> HIDE DEF after, n, Rounds
  <2> QED
    BY <1>1, <1>5, <1>6
<1>8. UpsertLoop(s, m, r) = after[n]
  BY DEF UpsertLoop
<1>9. form[n] = ClosedForm(s, m, r)
  <2>1. form[n] = ClosedForm(s, m, SubSeq(r, 1, n))
    BY <1>1 DEF form
  <2> QED
    BY <1>1, <2>1
<1> QED
  BY <1>7, <1>8, <1>9

\* In every reachable state a report processed profile by profile is accepted by
\* the same test, and leaves the same record, as in Controller.
THEOREM LoopAgrees == Spec => []LoopMatchesClosedForm
<1>1. ASSUME NEW r \in AllReports
      PROVE  r \in Seq(Report) /\ NamesOnce(r)
  <2> DEFINE entries == {Entry(p, NoMachine, "Available", as) : p \in Profile, as \in SUBSET Account}
  <2>1. entries \subseteq Report
    BY DEF Entry, Report, ReportStatus
  <2>2. NamesOnce(r) /\ \E n \in 0..2 : r \in [1..n -> entries]
    BY DEF AllReports, NamesOnce
  <2> HIDE DEF entries
  <2>3. PICK n \in 0..2 : r \in [1..n -> Report]
    BY <2>1, <2>2
  <2> QED
    BY <2>2, <2>3
<1>2. \A r \in Reports : r \in Seq(Report) /\ NamesOnce(r)
  BY ReportAssumption DEF NamesOnce
<1>3. IInv => LoopMatchesClosedForm
  BY <1>1, <1>2, LoopIsClosedForm DEF IInv, TypeOK, LoopMatchesClosedForm, ClosedForm
<1> QED
  BY <1>3, Invariance, PTL
=============================================================================
