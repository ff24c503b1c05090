---------------------------- MODULE MCController ----------------------------
(***************************************************************************)
(* Instances of Controller for TLC, and the loop of                        *)
(* upsert_profile_and_bindings written out as the reference that           *)
(* AcceptsReport and UpsertProfiles are checked against.                   *)
(***************************************************************************)
EXTENDS Controller, TLC

CONSTANTS m1, m2, p1, p2, a1

Entry(p, m, status, accounts) ==
  [profile |-> p, machine |-> m, status |-> status, accounts |-> accounts]

\* Lists that bind, move and drop the account, move a profile between machines,
\* name another machine, and report a broken profile.
MCReports ==
  {<< >>,
   <<Entry(p1, m1, "Available", {a1})>>,
   <<Entry(p1, NoMachine, "Unspecified", {}), Entry(p2, NoMachine, "Available", {a1})>>,
   <<Entry(p2, m2, "Broken", {}), Entry(p1, m2, "Available", {})>>}

SoloReports == {<< >>, <<Entry(p1, m1, "Available", {a1})>>}

-----------------------------------------------------------------------------
\* One call of upsert_profile_and_bindings: the state it leaves behind, as a set
\* that is empty when it returns an error.
UpsertOne(s, m, report) ==
  IF \/ report.machine \notin {NoMachine, m}
     \/ \E k \in report.accounts : s.bindings[k] \notin {NoProfile, report.profile}
  THEN {}
  ELSE {[s EXCEPT
          !.profileStatus[report.profile] = ReportedStatus(s, report),
          !.home[report.profile]     = m,
          !.accounts[report.profile] = report.accounts,
          !.bindings = [k \in Account |->
                          IF k \in report.accounts THEN report.profile
                          ELSE IF @[k] = report.profile THEN NoProfile ELSE @[k]]]}

\* The loop of register_machine and heartbeat over request.profiles: what it has
\* made of s after the first i entries, and after all of them.
UpsertLoop(s, m, r) ==
  LET after[i \in 0..Len(r)] ==
        IF i = 0 THEN {s} ELSE UNION {UpsertOne(t, m, r[i]) : t \in after[i - 1]}
  IN  after[Len(r)]

\* Every list of at most two profiles in either order, with any accounts.
AllReports ==
  LET entries == {Entry(p, NoMachine, "Available", as) : p \in Profile, as \in SUBSET Account}
      lists   == UNION {[1..n -> entries] : n \in 0..2}
  IN  {r \in lists : \A i, j \in DOMAIN r : r[i].profile = r[j].profile => i = j}

\* Processing a report profile by profile, each one seeing what the ones before
\* it bound and unbound, accepts the same lists and ends in the same state as
\* the closed form the model uses.
LoopMatchesClosedForm ==
  \A m \in Machine, r \in AllReports \cup Reports :
    UpsertLoop(state, m, r) =
      IF AcceptsReport(state, m, r) THEN {UpsertProfiles(state, m, r)} ELSE {}

Symmetry == Permutations(LeaseId)
=============================================================================
