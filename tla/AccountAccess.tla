---------------------------- MODULE AccountAccess ----------------------------
(***************************************************************************)
(* Who may still get in: the roles of the accounts and their two-step      *)
(* removal (disable, then purge).  Admins and their delegates act through  *)
(* the routes under /api/admin/users, whose transactions take advisory     *)
(* lock 42 and are one step each; users delete themselves through          *)
(* /api/profile, whose transaction reads before it takes the lock.  A      *)
(* route reads its target once before its transaction.                     *)
(*                                                                         *)
(* ISSUE_ADMIN counts as USER here, and any active account may be a        *)
(* delegate.  Permissions other than the role, and the rows a purge        *)
(* scrubs, are left out.                                                   *)
(***************************************************************************)
EXTENDS Integers, FiniteSets

CONSTANTS
    Users,
    Desks        \* one request to an admin route each

VARIABLES
    account,
    desk,
    leaver,      \* each user's DELETE /api/profile
    overtaken    \* history: a self-delete had read USER, and found an ADMIN

accountVars == <<account, desk, leaver, overtaken>>

Roles == {"ADMIN", "USER"}
Operations == {"promote", "demote", "disable", "enable", "purge"}

AccountTypeOK ==
    /\ account \in [Users -> [role : Roles, status : {"active", "disabled", "purged"}]]
    /\ desk \in [Desks -> [pc : {"idle", "commit", "done"}, op : Operations,
                           target : Users, role : Roles, byAdmin : BOOLEAN]]
    /\ leaver \in [Users -> {"away", "confirming", "asAdmin", "asUser"}]
    /\ overtaken \in BOOLEAN

\* The accounts of A are admins, the requests of K may come, the users of L may leave.
AccountInit(A, K, L) ==
    /\ account = [u \in Users |-> [role   |-> IF u \in A THEN "ADMIN" ELSE "USER",
                                   status |-> "active"]]
    /\ desk = [k \in Desks |-> [pc |-> IF k \in K THEN "idle" ELSE "done", op |-> "enable",
                                target |-> CHOOSE u \in Users : TRUE, role |-> "USER",
                                byAdmin |-> FALSE]]
    /\ leaver = [u \in Users |-> IF u \in L THEN "confirming" ELSE "away"]
    /\ overtaken = FALSE

ActiveAdmins == {u \in Users : account[u].role = "ADMIN" /\ account[u].status = "active"}

\* Mutated form: the subquery counts disabled admins, too.
AnotherAdminRow == Cardinality({u \in Users : account[u].role = "ADMIN"}) > 1

\* (SELECT COUNT(*) ... role = 'ADMIN' AND "deactivatedAt" IS NULL) > 1.
AnotherAdmin == Cardinality(ActiveAdmins) > 1

-----------------------------------------------------------------------------
(* The admin routes *)

\* The route's own checks, against its first read of the target: who asks, and
\* whether there is anything to do.
Admissible(op, target, byAdmin) ==
    LET t == account[target] IN
    /\ byAdmin \/ (t.role # "ADMIN" /\ op # "promote")
    /\ CASE op = "disable"           -> t.status = "active"
         [] op \in {"enable", "purge"} -> t.status = "disabled"
         [] OTHER                    -> TRUE

Request(k) ==
    /\ desk[k].pc = "idle"
    /\ \E op \in Operations, caller, target \in Users :
         LET byAdmin == caller \in ActiveAdmins IN
         /\ account[caller].status = "active" /\ caller # target
         /\ Admissible(op, target, byAdmin)
         /\ desk' = [desk EXCEPT ![k] = [pc |-> "commit", op |-> op, target |-> target,
                                         role |-> account[target].role, byAdmin |-> byAdmin]]
    /\ UNCHANGED <<account, leaver, overtaken>>

\* Mutated form: the transaction trusts the role the route has read.
RoleAsRead(k) == desk[k].role

\* The role, read again under the lock.
FreshRole(k) == account[desk[k].target].role

\* WHERE "deactivatedAt" IS NOT NULL AND "purgedAt" IS NULL.
StillDisabled(t) == account[t].status = "disabled"

\* deactivatedAt is set; a scrubbed row stays scrubbed.
Disabled(t) == [account EXCEPT ![t].status = IF @ = "purged" THEN @ ELSE "disabled"]

\* What the transaction leaves; an exception or no row leaves everything.
Effect(k) ==
    LET t == desk[k].target
        isAdmin == FreshRole(k) = "ADMIN"
    IN IF isAdmin /\ ~desk[k].byAdmin THEN account
       ELSE
       CASE desk[k].op = "promote" -> [account EXCEPT ![t].role = "ADMIN"]
         [] /\ desk[k].op = "demote"
            /\ isAdmin => account[t].status # "active" \/ AnotherAdmin ->
              [account EXCEPT ![t].role = "USER"]
         [] /\ desk[k].op = "disable"
            /\ isAdmin => account[t].status = "active" /\ AnotherAdmin -> Disabled(t)
         [] desk[k].op = "enable" /\ StillDisabled(t) ->
              [account EXCEPT ![t].status = "active"]
         [] desk[k].op = "purge" /\ StillDisabled(t) ->
              [account EXCEPT ![t].status = "purged"]
         [] OTHER -> account

Commit(k) ==
    /\ desk[k].pc = "commit"
    /\ account' = Effect(k)
    /\ desk' = [desk EXCEPT ![k].pc = "done"]
    /\ UNCHANGED <<leaver, overtaken>>

-----------------------------------------------------------------------------
(* DELETE /api/profile *)

Leaves(u, at) == leaver' = [leaver EXCEPT ![u] = at]

\* The password has been verified; the transaction reads the row, without the lock.
Reread(u) ==
    /\ leaver[u] = "confirming"
    /\ Leaves(u, IF account[u].status # "active" THEN "away"
                 ELSE IF account[u].role = "ADMIN" THEN "asAdmin" ELSE "asUser")
    /\ UNCHANGED <<account, desk, overtaken>>

\* deactivateUserInTx of an ADMIN, with the lock.
LeaveAsAdmin(u) ==
    /\ leaver[u] = "asAdmin"
    /\ account' = IF account[u].status = "active" /\ AnotherAdmin
                  THEN Disabled(u) ELSE account
    /\ Leaves(u, "away")
    /\ UNCHANGED <<desk, overtaken>>

\* deactivateUserInTx of anyone else: an update by id, whatever the row is by now.
LeaveAsUser(u) ==
    /\ leaver[u] = "asUser"
    /\ account' = Disabled(u)
    /\ overtaken' = (overtaken \/ u \in ActiveAdmins)
    /\ Leaves(u, "away")
    /\ UNCHANGED desk

-----------------------------------------------------------------------------

\* A restart rolls the transactions back; nobody hears an answer.
LoseHandlers ==
    /\ desk' = [k \in Desks |-> IF desk[k].pc = "commit" THEN [desk[k] EXCEPT !.pc = "done"]
                                ELSE desk[k]]
    /\ leaver' = [u \in Users |-> IF leaver[u] = "confirming" THEN "confirming" ELSE "away"]
    /\ UNCHANGED <<account, overtaken>>

AccountStep ==
    \/ \E k \in Desks : Request(k) \/ Commit(k)
    \/ \E u \in Users : Reread(u) \/ LeaveAsAdmin(u) \/ LeaveAsUser(u)

\* One admin at first; anybody may leave.
AccountSpec == (\E u \in Users : AccountInit({u}, Desks, Users))
               /\ [][AccountStep]_accountVars

-----------------------------------------------------------------------------

\* "Never disable the LAST active admin and lock the instance out of administration"
\* (lib/account-lifecycle.ts): whatever admins demote and disable each other while
\* they leave, one is left, unless a self-delete was overtaken by a promotion.
AdminRemains == overtaken \/ ActiveAdmins # {}

\* DELETE /api/profile reads the role again, lest "the freshly-promoted last admin could
\* delete themselves and leave the instance with none" (app/api/profile/route.ts).
AdminAlwaysLeft == ActiveAdmins # {}

\* A delegate's request changes no administrator's account, also one promoted since
\* the request began; and nobody brings a scrubbed account back.
RowsProtected ==
    [][/\ \A k \in Desks, u \in Users :
            /\ desk[k].pc = "commit" /\ desk'[k].pc = "done" /\ ~desk[k].byAdmin
            /\ account[u].role = "ADMIN"
            => account'[u] = account[u]
       /\ \A u \in Users : account[u].status = "purged" => account'[u].status = "purged"
      ]_accountVars
=============================================================================
