---------------------------- MODULE SessionRefresh ----------------------------
(***************************************************************************)
(* One browser's session while its user's access changes.  The browser's   *)
(* requests carry a cookie that vouches for itself for some seconds after  *)
(* a database check; past that, or once the process has marked its session *)
(* or its user, a request checks the database, in two reads, and signs a   *)
(* new cookie.  Requests with one cookie share a check.  When the user's   *)
(* permissions have changed, a check whose answer can carry a cookie       *)
(* renames the session.  Meanwhile the session is revoked (by its id, or   *)
(* with all of the user's), and the permissions are edited.                *)
(*                                                                         *)
(* Permissions are the number of edits so far.  Key rotation, deadlines,   *)
(* transports, Plex membership and the restore's floor are left out, and   *)
(* the browser does not sign in again.  Each set of marks holds 1024 and   *)
(* evicts its oldest; fewer are assumed to be set while one still matters, *)
(* the seconds for which a cookie vouches for itself.                      *)
(***************************************************************************)
EXTENDS Integers

CONSTANTS
    Hits,        \* one request of the browser each
    NoHit

ASSUME SessionAssumption == NoHit \notin Hits

VARIABLES
    session,     \* the AuthSession row's id (0 once deleted), the ids given out, the
                 \* user's permissions
    cookie,      \* the browser's
    hit,
    marks,       \* the process's: sessions, and whether the user is marked
    revoker,     \* one DELETE of a session, or of all
    editor,      \* one PATCH of the permissions
    heard         \* history: what the callers of both have been told

sessionVars == <<session, cookie, hit, marks, revoker, editor, heard>>

Cookie == [by : Hits \cup {NoHit},   \* whose check signed it
           sid : Nat, grants : Nat, fresh : BOOLEAN,
           before : BOOLEAN]         \* history: it was signed before the last restart
Heard   == [revoked : BOOLEAN, grants : Nat]

SessionTypeOK ==
    /\ session \in [sid : Nat, grants : Nat, sids : Nat]
    /\ cookie \in Cookie
    /\ hit \in [Hits ->
         [pc      : {"idle", "reads", "rename", "renamed", "joined", "accepted", "refused"},
          asked   : Cookie,                 \* the cookie it carries
          rotates : BOOLEAN,                \* whether its answer can carry one
          unread  : SUBSET {"row", "user"},
          found   : BOOLEAN,
          grants  : Nat,                    \* read, and then acted with
          sid     : Nat,                    \* its session afterwards
          signed  : BOOLEAN,                \* its answer carries a new cookie
          check   : Hits \cup {NoHit},      \* whose check it takes part in
          heard   : Heard]]                 \* history: what had been said when it came
    /\ marks \in [sids : SUBSET Nat, user : BOOLEAN]
    /\ revoker \in [pc : {"idle", "delete", "mark", "done"}, all : BOOLEAN, sid : Nat,
                    crossed : BOOLEAN]   \* history: the row was renamed before its delete
    /\ editor \in {"idle", "mark", "done"}
    /\ heard \in Heard

NothingHeard == [revoked |-> FALSE, grants |-> 0]
NoMarks == [sids |-> {}, user |-> FALSE]
FirstCookie == [by |-> NoHit, sid |-> 1, grants |-> 0, fresh |-> TRUE, before |-> FALSE]
NewHit == [pc |-> "idle", asked |-> FirstCookie, rotates |-> FALSE, unread |-> {},
           found |-> FALSE, grants |-> 0, sid |-> 0, signed |-> FALSE, check |-> NoHit,
           heard |-> NothingHeard]
GoneHit == [NewHit EXCEPT !.pc = "refused"]

\* The requests of H come; a revocation and an edit may.
SessionInit(H, revokes, edits) ==
    /\ session = [sid |-> 1, grants |-> 0, sids |-> 1]
    /\ cookie = [FirstCookie EXCEPT !.fresh = H # {}]
    /\ hit = [h \in Hits |-> IF h \in H THEN NewHit ELSE GoneHit]
    /\ marks = NoMarks /\ heard = NothingHeard
    /\ revoker = [pc |-> IF revokes THEN "idle" ELSE "done", all |-> FALSE, sid |-> 0,
                  crossed |-> FALSE]
    /\ editor = IF edits THEN "idle" ELSE "done"

-----------------------------------------------------------------------------
(* verifyAndRefreshSession *)

\* Mutated form: a mark is consumed by the first request that consults it.
ConsumedMarks(token) == [sids |-> marks.sids \ {token.sid}, user |-> FALSE]

\* "Entries are never consumed on read".
Consulted(token) == marks

MustCheck(token) == token.sid \in marks.sids \/ marks.user

\* The check in flight under the same key.
InFlight(rotates) ==
    {g \in Hits : /\ hit[g].pc \in {"reads", "rename", "renamed"}
                  /\ hit[g].asked.by = cookie.by /\ hit[g].rotates = rotates}

Arriving(h, rotates) ==
    /\ hit[h].pc = "idle"
    /\ LET vouched == cookie.fresh /\ ~MustCheck(cookie)
           others  == InFlight(rotates)
       IN hit' = [hit EXCEPT ![h] = [@ EXCEPT
             !.asked = cookie, !.rotates = rotates, !.grants = cookie.grants, !.heard = heard,
             !.unread = {"row", "user"},
             !.pc = IF vouched THEN "accepted" ELSE IF others = {} THEN "reads" ELSE "joined",
             !.check = IF vouched \/ others = {} THEN h ELSE CHOOSE g \in others : TRUE]]
    /\ marks' = Consulted(cookie)
    /\ UNCHANGED <<session, cookie, revoker, editor, heard>>

ReadSession(h) ==
    /\ hit[h].pc = "reads" /\ "row" \in hit[h].unread
    /\ hit' = [hit EXCEPT ![h].unread = @ \ {"row"},
                          ![h].found  = session.sid = hit[h].asked.sid]
    /\ UNCHANGED <<session, cookie, marks, revoker, editor, heard>>

ReadUser(h) ==
    /\ hit[h].pc = "reads" /\ "user" \in hit[h].unread
    /\ hit' = [hit EXCEPT ![h].unread = @ \ {"user"}, ![h].grants = session.grants]
    /\ UNCHANGED <<session, cookie, marks, revoker, editor, heard>>

\* The check ends, for every request that shares it.  Its answers carry a cookie only
\* where they can.
Settle(h, pc, sid) ==
    hit' = [g \in Hits |->
        IF g = h \/ (hit[g].pc = "joined" /\ hit[g].check = h)
        THEN [hit[g] EXCEPT !.pc = pc, !.sid = sid, !.grants = hit[h].grants,
                            !.signed = hit[h].rotates /\ pc = "accepted"]
        ELSE hit[g]]

Judge(h) ==
    /\ hit[h].pc = "reads" /\ hit[h].unread = {}
    /\ CASE ~hit[h].found -> Settle(h, "refused", 0)
         [] hit[h].found /\ hit[h].rotates /\ hit[h].grants # hit[h].asked.grants ->
              hit' = [hit EXCEPT ![h].pc = "rename"]
         [] OTHER -> Settle(h, "accepted", hit[h].asked.sid)
    /\ UNCHANGED <<session, cookie, marks, revoker, editor, heard>>

\* The transaction that gives the row a new id, unless the row has gone.
Rename(h) ==
    /\ hit[h].pc = "rename"
    /\ IF session.sid = hit[h].asked.sid
       THEN /\ session' = [session EXCEPT !.sid = session.sids + 1, !.sids = @ + 1]
            /\ hit' = [hit EXCEPT ![h].pc = "renamed", ![h].sid = session.sids + 1]
       ELSE Settle(h, "refused", 0) /\ UNCHANGED session
    /\ UNCHANGED <<cookie, marks, revoker, editor, heard>>

MarkRenamed(h) ==
    /\ hit[h].pc = "renamed"
    /\ marks' = [marks EXCEPT !.sids = @ \cup {hit[h].asked.sid}]
    /\ Settle(h, "accepted", hit[h].sid)
    /\ UNCHANGED <<session, cookie, revoker, editor, heard>>

\* Set-Cookie: answers arrive in any order, or never.
SetCookie(h) ==
    /\ hit[h].pc = "accepted" /\ hit[h].signed
    /\ cookie' = [by |-> hit[h].check, sid |-> hit[h].sid, grants |-> hit[h].grants,
                   fresh |-> TRUE, before |-> FALSE]
    /\ hit' = [hit EXCEPT ![h].signed = FALSE]
    /\ UNCHANGED <<session, marks, revoker, editor, heard>>

\* The seconds for which the cookie vouches for itself are over.
Age ==
    /\ cookie.fresh
    /\ cookie' = [cookie EXCEPT !.fresh = FALSE]
    /\ UNCHANGED <<session, hit, marks, revoker, editor, heard>>

-----------------------------------------------------------------------------
(* Revocation (one session, or all) and an edit of the permissions *)

\* The route finds the session it was given, and asks for a second proof.
AskRevoke(all) ==
    /\ revoker.pc = "idle" /\ session.sid # 0
    /\ revoker' = [revoker EXCEPT !.pc = "delete", !.all = all, !.sid = session.sid]
    /\ UNCHANGED <<session, cookie, hit, marks, editor, heard>>

\* All of the user's sessions, or the one with that id; not finding it is success.
DeleteSession ==
    LET sid == IF revoker.all THEN session.sid ELSE revoker.sid IN
    /\ revoker.pc = "delete"
    /\ session' = IF session.sid = sid THEN [session EXCEPT !.sid = 0] ELSE session
    /\ revoker' = [revoker EXCEPT !.pc = "mark", !.sid = sid, !.crossed = session.sid # sid]
    /\ UNCHANGED <<cookie, hit, marks, editor, heard>>

\* The mark, which stays: no 1024 others are set in the seconds after it.
MarkRevoked ==
    /\ revoker.pc = "mark"
    /\ marks' = [sids |-> marks.sids \cup {revoker.sid}, user |-> marks.user \/ revoker.all]
    /\ heard' = [heard EXCEPT !.revoked = /\ ~revoker.crossed
                                        /\ \A h \in Hits : hit[h].pc # "renamed"]
    /\ revoker' = [revoker EXCEPT !.pc = "done"]
    /\ UNCHANGED <<session, cookie, hit, editor>>

EditAccess ==
    /\ editor = "idle"
    /\ session' = [session EXCEPT !.grants = @ + 1]
    /\ editor' = "mark"
    /\ UNCHANGED <<cookie, hit, marks, revoker, heard>>

\* invalidateUserSession.
MarkEdited ==
    /\ editor = "mark"
    /\ marks' = [marks EXCEPT !.user = TRUE]
    /\ heard' = [heard EXCEPT !.grants = session.grants]
    /\ editor' = "done"
    /\ UNCHANGED <<session, cookie, hit, revoker>>

-----------------------------------------------------------------------------

\* A restart forgets the marks: for some seconds the old cookie vouches for itself.
LoseSessions ==
    /\ marks' = NoMarks
    /\ cookie' = [cookie EXCEPT !.before = TRUE]
    /\ hit' = [h \in Hits |-> IF hit[h].pc \in {"idle", "accepted"}
                              THEN [hit[h] EXCEPT !.signed = FALSE] ELSE GoneHit]
    /\ revoker' = IF revoker.pc = "idle" THEN revoker ELSE [revoker EXCEPT !.pc = "done"]
    /\ editor' = IF editor = "idle" THEN "idle" ELSE "done"
    /\ UNCHANGED <<session, heard>>

SessionStep ==
    \/ \E h \in Hits : \/ \E rotates \in BOOLEAN : Arriving(h, rotates)
                       \/ ReadSession(h) \/ ReadUser(h) \/ Judge(h) \/ Rename(h)
                       \/ MarkRenamed(h) \/ SetCookie(h)
    \/ Age
    \/ \E all \in BOOLEAN : AskRevoke(all)
    \/ DeleteSession \/ MarkRevoked \/ EditAccess \/ MarkEdited

-----------------------------------------------------------------------------

\* "Takes effect on the very next request" (lib/session-revocation.ts): a request that
\* arrives after a revocation was answered is refused, and one that arrives after an
\* edit was answered acts with the permissions of that edit, whatever cookies the
\* answers of earlier checks still bring.  Three exceptions: it shares a check that began
\* before; its cookie vouches for itself, signed before a restart; the session was
\* renamed between the revoker's two statements, or its old id was still unmarked.
RevocationsBite ==
    \A h \in Hits :
        /\ hit[h].pc = "accepted" /\ hit[h].check = h
        /\ ~(hit[h].asked.before /\ hit[h].asked.fresh)
        => ~hit[h].heard.revoked /\ hit[h].grants >= hit[h].heard.grants
=============================================================================
