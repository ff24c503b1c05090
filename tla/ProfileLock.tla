---------------------------- MODULE ProfileLock -----------------------------
(***************************************************************************)
(* What the lease table promises its clients, without clocks, machines,    *)
(* statuses, storage or restarts: a profile has at most one holder, a      *)
(* holder is identified by an id that is never used again, and a holder    *)
(* that has lost the profile never gets it back under the same id.         *)
(***************************************************************************)
CONSTANTS Profile, LeaseId

VARIABLES
  held,   \* pairs <<profile, id>>
  spent   \* ids that have been granted

vars == <<held, spent>>

Init == held = {} /\ spent = {}

\* Any holders may lose their profile, by release, expiry or revocation.
Free(gone) ==
  /\ held' = held \ gone
  /\ UNCHANGED spent

\* A profile without a holder is granted under a fresh id; holders found to
\* have lost theirs may go in the same step.
Grant(gone, p, id) ==
  /\ id \notin spent
  /\ \A h \in held \ gone : h[1] # p
  /\ held' = (held \ gone) \cup {<<p, id>>}
  /\ spent' = spent \cup {id}

Next ==
  \E gone \in SUBSET held :
    \/ Free(gone)
    \/ \E p \in Profile, id \in LeaseId : Grant(gone, p, id)

Spec == Init /\ [][Next]_vars

\* No two holders of one profile.
OneHolder == \A g, h \in held : g[1] = h[1] => g = h
=============================================================================
