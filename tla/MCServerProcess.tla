--------------------------- MODULE MCServerProcess ---------------------------
(* Small instances of ServerProcess, one workload for each group of parts. *)
EXTENDS ServerProcess, TLC

CONSTANTS r1, r2, c1, c2, e1, e2, e3, d1, d2, d3, p1, p2, u1, u2,
          ch1, ch2, v1, v2, v3, a1, a2, a3, k1, k2, h1, h2, h3

Quiet == [requests |-> {}, checks |-> {}, events |-> {}, edits |-> 0, deliveries |-> {},
          posted |-> {}, bursts |-> FALSE, uploads |-> {}, late |-> {}, challenges |-> {},
          verifiers |-> {}, admins |-> {a1}, desks |-> {}, leavers |-> {}, hits |-> {},
          revokes |-> FALSE, edited |-> FALSE, restarts |-> 0]

\* One request approved twice.
Approvals == [Quiet EXCEPT !.requests = {r1}, !.checks = {c1, c2}, !.restarts = 1]

\* Three jobs for a pool that holds two.
Crowded == [Quiet EXCEPT !.requests = {r1}, !.checks = {c1}, !.events = {e1, e2}]

\* A batch of two.
Batch == [Quiet EXCEPT !.requests = {r1, r2}, !.checks = {c1}, !.restarts = 1]

\* Two notifications while the admin edits the agent.
Notices == [Quiet EXCEPT !.events = {e1, e2}, !.edits = 2, !.restarts = 1]

\* A delivery and its retry, or two deliveries for one grab.
Retried == [Quiet EXCEPT !.deliveries = {d1, d2}, !.posted = {p1}, !.restarts = 1]
Twice   == [Quiet EXCEPT !.deliveries = {d1, d3}, !.restarts = 1]

\* Scans asked for faster than they run.
Bursts == [Quiet EXCEPT !.deliveries = {d1}, !.bursts = TRUE]

\* Two backups uploaded at once, a chunk of the first twice; one, and a restart.
TwoUploads == [Quiet EXCEPT !.uploads = {u1, u2}, !.late = {u1}]
Upload     == [Quiet EXCEPT !.uploads = {u1}, !.late = {u1}, !.restarts = 1]

\* Two sign-ins with more challenges than the ledger keeps; codes tried at once.
SignIns == [Quiet EXCEPT !.challenges = {ch1, ch2}, !.verifiers = {v1, v2}, !.restarts = 1]
Guesses == [Quiet EXCEPT !.verifiers = {v1, v2, v3}]

\* Two admins and a user: each may leave while two decisions about them are taken; one
\* admin, and a delegate who decides about another user.
Decisions == [Quiet EXCEPT !.admins = {a1, a2}, !.desks = {k1, k2}, !.leavers = {a1, a2, a3}]
Delegated == [Quiet EXCEPT !.desks = {k1, k2}, !.leavers = {a1, a2}]

\* A browser whose session is revoked while its user's permissions change, the process
\* restarting; three requests around a change.
Revoked == [Quiet EXCEPT !.hits = {h1, h2}, !.revokes = TRUE, !.edited = TRUE, !.restarts = 1]
Changed == [Quiet EXCEPT !.hits = {h1, h2, h3}, !.edited = TRUE]

\* One request approved twice, without a restart, for the liveness runs.
Reapproved == [Approvals EXCEPT !.restarts = 0]

\* One approval, one notification, the process restarting.
Checked  == [Quiet EXCEPT !.requests = {r1}, !.checks = {c1}, !.restarts = 1]
Notified == [Quiet EXCEPT !.events = {e1}, !.edits = 1, !.restarts = 1]

\* Three notifications in the pool.
Flood == [Quiet EXCEPT !.events = {e1, e2, e3}]

Crowd == {Approvals, Crowded, Batch, Notices, Retried, Twice, Bursts, TwoUploads, Upload,
          SignIns, Guesses, Decisions, Delegated, Revoked, Changed}
Few   == {Reapproved, Checked, Notified, Flood, Bursts, Upload}

\* Two notifications, challenges, verifiers, admins' decisions or requests differ in
\* nothing but their name; those of different groups never meet, so one swap does.
Swap == e1 :> e2 @@ e2 :> e1 @@ ch1 :> ch2 @@ ch2 :> ch1 @@ v1 :> v2 @@ v2 :> v1
        @@ k1 :> k2 @@ k2 :> k1 @@ h1 :> h2 @@ h2 :> h1
OneOrOther == {[x \in DOMAIN Swap |-> IF swapped THEN Swap[x] ELSE x] : swapped \in BOOLEAN}

OneJobPerCheck == {c1, c2} \cup Retries

PayloadOf == [d \in {d1, d2, d3} |-> IF d = d3 THEN p2 ELSE p1]
=============================================================================
