--------------------------- MODULE ServerSessions ---------------------------
(***************************************************************************)
(* A revocation, or an edit of a user's permissions, takes effect on the   *)
(* next request: proved for ServerSpec, any number of requests and of      *)
(* restarts.  With that the last part of the process has its types, and so *)
(* has the whole of it.                                                    *)
(***************************************************************************)
EXTENDS ServerImport, WellFoundedInduction

\* What the process does to the session's part.
SessionMove == SessionStep \/ LoseSessions \/ UNCHANGED sessionVars

LEMMA SessionSees == [ServerNext]_serverVars => SessionMove
<1>1. ASSUME ServerNext  PROVE SessionMove
  BY <1>1 DEF ServerNext, SessionMove, InFollowUp, InAgents, InScans, InImports, Webhooks,
              Access, accessVars, Restart
<1>2. ASSUME UNCHANGED serverVars  PROVE SessionMove
  BY <1>2 DEF serverVars, accessVars, SessionMove
<1> QED
  BY <1>1, <1>2

-----------------------------------------------------------------------------
(* The inductive invariant *)

\* A cookie with this session id stands for the row, or is marked, or is about to be: by
\* the check that renamed the session, or by the revoker.
Covered(sid) ==
    \/ sid = session.sid \/ sid \in marks.sids \/ marks.user
    \/ \E g \in Hits : hit[g].pc = "renamed" /\ hit[g].asked.sid = sid
    \/ revoker.pc = "mark" /\ revoker.sid = sid

\* Permissions as old as that are known to be old, or nobody has been told of newer ones.
UpToDate(grants) == grants >= heard.grants \/ marks.user

\* What a check has found is still good, or known not to be.
HitSound(h) ==
    LET t == hit[h] IN
    /\ t.asked.sid # 0 /\ t.heard.grants <= session.grants
    /\ t.heard.revoked => heard.revoked
    /\ t.pc = "idle" => ~t.signed
    /\ t.pc = "joined" => t.check # h
    /\ t.pc \in {"reads", "rename", "renamed"} => t.check = h
    /\ t.pc = "reads" /\ "row" \notin t.unread /\ t.found
         => Covered(t.asked.sid) /\ ~t.heard.revoked
    /\ (t.pc = "reads" /\ "user" \notin t.unread) \/ t.pc \in {"rename", "renamed"}
         => UpToDate(t.grants) /\ t.grants >= t.heard.grants
    /\ t.pc \in {"rename", "renamed"} => ~t.heard.revoked
    /\ t.pc = "renamed" \/ (t.pc = "accepted" /\ t.signed) => t.sid # 0 /\ Covered(t.sid)
    /\ t.pc = "accepted" /\ t.signed => UpToDate(t.grants)
    /\ t.pc = "accepted" /\ t.check = h /\ ~(t.asked.before /\ t.asked.fresh)
         => ~t.heard.revoked /\ t.grants >= t.heard.grants

SessionSound ==
    /\ SessionTypeOK
    /\ cookie.sid # 0
    /\ ~cookie.before => Covered(cookie.sid) /\ UpToDate(cookie.grants)
    /\ heard.grants <= session.grants
    /\ heard.revoked => /\ session.sid = 0 /\ revoker.pc = "done"
                        /\ \A h \in Hits : hit[h].pc # "renamed"
    /\ revoker.pc = "mark" /\ ~revoker.crossed => session.sid = 0
    /\ \A h \in Hits : HitSound(h)

-----------------------------------------------------------------------------
(* Types *)

HitRecord ==
    [pc : {"idle", "reads", "rename", "renamed", "joined", "accepted", "refused"},
     asked : Cookie, rotates : BOOLEAN, unread : SUBSET {"row", "user"}, found : BOOLEAN,
     grants : Nat, sid : Nat, signed : BOOLEAN, check : Hits \cup {NoHit}, heard : Heard]

\* g takes part in h's check.
Party(h, g) == g = h \/ (hit[g].pc = "joined" /\ hit[g].check = h)

\* What the end of a check writes into its hits, and that it leaves the others alone.
LEMMA Settled ==
  ASSUME SessionTypeOK, NEW h \in Hits, NEW pc \in {"refused", "accepted"}, NEW sid \in Nat,
         Settle(h, pc, sid)
  PROVE  /\ hit' \in [Hits -> HitRecord]
         /\ \A g \in Hits : ~Party(h, g) => hit'[g] = hit[g]
         /\ \A g \in Hits : Party(h, g) =>
              /\ hit'[g].pc = pc /\ hit'[g].sid = sid /\ hit'[g].grants = hit[h].grants
              /\ hit'[g].signed = (hit[h].rotates /\ pc = "accepted")
              /\ hit'[g].asked = hit[g].asked /\ hit'[g].heard = hit[g].heard
              /\ hit'[g].check = hit[g].check
<1> DEFINE signed == hit[h].rotates /\ pc = "accepted"
           new(g) == [hit[g] EXCEPT !.pc = pc, !.sid = sid, !.grants = hit[h].grants,
                                    !.signed = signed]
<1>1. hit' = [g \in Hits |-> IF Party(h, g) THEN new(g) ELSE hit[g]]
  BY Zenon DEF Settle, Party
<1>2. \A g \in Hits : hit[g] \in HitRecord
  BY DEF SessionTypeOK, HitRecord
<1>3. signed \in BOOLEAN /\ hit[h].grants \in Nat
  BY <1>2 DEF HitRecord
<1> HIDE DEF signed
<1>4. ASSUME NEW g \in Hits
      PROVE  /\ new(g) \in HitRecord
             /\ new(g).pc = pc /\ new(g).sid = sid /\ new(g).grants = hit[h].grants
             /\ new(g).signed = signed
             /\ new(g).asked = hit[g].asked /\ new(g).heard = hit[g].heard
             /\ new(g).check = hit[g].check
  BY <1>2, <1>3 DEF HitRecord
<1> HIDE DEF new
<1>5. \A g \in Hits : hit'[g] = IF Party(h, g) THEN new(g) ELSE hit[g]
  BY <1>1
<1>6. hit' \in [Hits -> HitRecord]
  BY <1>1, <1>2, <1>4
<1> QED
  BY <1>4, <1>5, <1>6 DEF signed

\* What a request carries as it comes.
LEMMA Arrived ==
  ASSUME SessionTypeOK, NEW h \in Hits, NEW rotates \in BOOLEAN, Arriving(h, rotates)
  PROVE  /\ hit' \in [Hits -> HitRecord] /\ hit[h].pc = "idle"
         /\ \A g \in Hits \ {h} : hit'[g] = hit[g]
         /\ hit'[h].asked = cookie /\ hit'[h].grants = cookie.grants
         /\ hit'[h].heard = heard /\ hit'[h].unread = {"row", "user"}
         /\ hit'[h].signed = hit[h].signed
         /\ \/ hit'[h].pc = "accepted" /\ cookie.fresh /\ ~MustCheck(cookie)
            \/ hit'[h].pc = "reads" /\ hit'[h].check = h
            \/ hit'[h].pc = "joined" /\ hit'[h].check # h
<1> DEFINE vouched == cookie.fresh /\ ~MustCheck(cookie)
           others  == InFlight(rotates)
           pc      == IF vouched THEN "accepted" ELSE IF others = {} THEN "reads" ELSE "joined"
           check   == IF vouched \/ others = {} THEN h ELSE CHOOSE g \in others : TRUE
           new     == [hit[h] EXCEPT !.asked = cookie, !.rotates = rotates,
                         !.grants = cookie.grants, !.heard = heard,
                         !.unread = {"row", "user"}, !.pc = pc, !.check = check]
<1>1. hit' = [hit EXCEPT ![h] = new] /\ hit[h].pc = "idle"
  BY DEF Arriving
<1>2. /\ hit \in [Hits -> HitRecord] /\ hit[h] \in HitRecord /\ cookie \in Cookie
      /\ cookie.grants \in Nat /\ heard \in Heard
  BY DEF SessionTypeOK, HitRecord, Cookie
<1>3. others # {} => (CHOOSE g \in others : TRUE) \in Hits \ {h}
  <2>1. others \subseteq Hits \ {h}
    BY <1>1 DEF InFlight
  <2> QED
    BY <2>1
<1>4. check \in Hits /\ (pc = "reads" => check = h) /\ (pc = "joined" => check # h)
  BY <1>3
<1>5. pc \in {"accepted", "reads", "joined"} /\ (pc = "accepted" => vouched)
  OBVIOUS
<1> HIDE DEF pc, check
<1>6. /\ new \in HitRecord /\ new.asked = cookie /\ new.grants = cookie.grants
      /\ new.heard = heard /\ new.unread = {"row", "user"} /\ new.signed = hit[h].signed
      /\ new.pc = pc /\ new.check = check
  BY <1>2, <1>4, <1>5 DEF HitRecord
<1> HIDE DEF new
<1>7. /\ hit' \in [Hits -> HitRecord] /\ hit'[h] = new
      /\ \A g \in Hits \ {h} : hit'[g] = hit[g]
  BY <1>1, <1>2, <1>6
<1> QED
  BY <1>1, <1>4, <1>5, <1>6, <1>7

LEMMA SessionTypes == ASSUME SessionTypeOK, SessionMove PROVE SessionTypeOK'
<1>1. /\ hit \in [Hits -> HitRecord] /\ cookie \in Cookie /\ heard \in Heard
      /\ session \in [sid : Nat, grants : Nat, sids : Nat]
  BY DEF SessionTypeOK, HitRecord
<1>2. ASSUME hit' \in [Hits -> HitRecord],
             UNCHANGED <<session, cookie, marks, revoker, editor, heard>>
      PROVE  SessionTypeOK'
  BY <1>2 DEF SessionTypeOK, HitRecord
<1>3. ASSUME NEW h \in Hits, NEW rotates \in BOOLEAN, Arriving(h, rotates)
      PROVE  SessionTypeOK'
  <2>1. hit' \in [Hits -> HitRecord]
    BY <1>3, Arrived
  <2> QED
    BY <1>2, <1>3, <2>1 DEF Arriving, Consulted
<1>4. ASSUME NEW h \in Hits, ReadSession(h) \/ ReadUser(h)  PROVE SessionTypeOK'
  <2>1. CASE ReadSession(h)
    <3>1. hit' \in [Hits -> HitRecord]
      <4> DEFINE new == [hit[h] EXCEPT !.unread = hit[h].unread \ {"row"},
                               !.found = (session.sid = hit[h].asked.sid)]
      <4>1. hit' = [hit EXCEPT ![h] = new]
        BY <1>1, <2>1 DEF ReadSession
      <4>2. new \in HitRecord
        BY <1>1 DEF HitRecord
      <4> HIDE DEF new
      <4> QED
        BY <1>1, <4>1, <4>2
    <3> QED
      BY <1>2, <2>1, <3>1 DEF ReadSession
  <2>2. CASE ReadUser(h)
    <3>1. hit' \in [Hits -> HitRecord]
      <4> DEFINE new == [hit[h] EXCEPT !.unread = hit[h].unread \ {"user"},
                               !.grants = session.grants]
      <4>1. hit' = [hit EXCEPT ![h] = new]
        BY <1>1, <2>2 DEF ReadUser
      <4>2. new \in HitRecord
        BY <1>1 DEF HitRecord
      <4> HIDE DEF new
      <4> QED
        BY <1>1, <4>1, <4>2
    <3> QED
      BY <1>2, <2>2, <3>1 DEF ReadUser
  <2> QED
    BY <1>4, <2>1, <2>2
<1>5. ASSUME NEW h \in Hits, Judge(h)  PROVE SessionTypeOK'
  <2>1. hit[h].asked.sid \in Nat
    BY <1>1 DEF HitRecord, Cookie
  <2>2. \/ \E pc \in {"refused", "accepted"}, sid \in Nat : Settle(h, pc, sid)
        \/ hit' = [hit EXCEPT ![h].pc = "rename"]
    BY <1>5, <2>1 DEF Judge
  <2>3. CASE hit' = [hit EXCEPT ![h].pc = "rename"]
    <3>1. hit' \in [Hits -> HitRecord]
      BY <1>1, <2>3 DEF HitRecord
    <3> QED
      BY <1>2, <1>5, <3>1 DEF Judge
  <2> QED
    BY <1>2, <1>5, <2>2, <2>3, Settled DEF Judge
<1>6. ASSUME NEW h \in Hits, Rename(h)  PROVE SessionTypeOK'
  <2>1. CASE session.sid = hit[h].asked.sid
    <3>1. hit' = [hit EXCEPT ![h].pc = "renamed", ![h].sid = session.sids + 1]
      BY <1>6, <2>1 DEF Rename
    <3>2. hit' \in [Hits -> HitRecord]
      <4> DEFINE sid == session.sids + 1
                 new == [hit[h] EXCEPT !.pc = "renamed", !.sid = sid]
      <4>1. hit' = [hit EXCEPT ![h] = new]
        BY <1>1, <3>1
      <4>2. new \in HitRecord
        <5>1. sid \in Nat /\ hit[h] \in HitRecord
          BY <1>1
        <5> HIDE DEF sid
        <5> QED
          BY <5>1 DEF HitRecord
      <4> HIDE DEF new
      <4> QED
        BY <1>1, <4>1, <4>2
    <3>3. session' \in [sid : Nat, grants : Nat, sids : Nat]
      <4> DEFINE n == session.sids + 1
      <4>1. session' = [session EXCEPT !.sid = n, !.sids = n]
        BY <1>6, <2>1 DEF Rename
      <4>2. n \in Nat
        BY <1>1
      <4> HIDE DEF n
      <4> QED
        BY <1>1, <4>1, <4>2
    <3> QED
      BY <1>6, <3>2, <3>3 DEF Rename, SessionTypeOK, HitRecord
  <2>2. CASE session.sid # hit[h].asked.sid
    BY <1>2, <1>6, <2>2, Settled DEF Rename
  <2> QED
    BY <2>1, <2>2
<1>7. ASSUME NEW h \in Hits, MarkRenamed(h)  PROVE SessionTypeOK'
  <2>1. hit[h].asked.sid \in Nat /\ hit[h].sid \in Nat
    BY <1>1 DEF HitRecord, Cookie
  <2>2. hit' \in [Hits -> HitRecord]
    BY <1>7, <2>1, Settled DEF MarkRenamed
  <2>3. marks' \in [sids : SUBSET Nat, user : BOOLEAN]
    BY <1>7, <2>1 DEF MarkRenamed, SessionTypeOK
  <2> QED
    BY <1>7, <2>2, <2>3 DEF MarkRenamed, SessionTypeOK, HitRecord
<1>8. ASSUME NEW h \in Hits, SetCookie(h)  PROVE SessionTypeOK'
  <2>1. cookie' \in Cookie /\ hit' \in [Hits -> HitRecord]
    <3>1. hit[h] \in HitRecord
      BY <1>1
    <3>2. cookie' \in Cookie
      BY <1>8, <3>1 DEF SetCookie, HitRecord, Cookie
    <3>3. [hit[h] EXCEPT !.signed = FALSE] \in HitRecord
      BY <3>1 DEF HitRecord
    <3>4. hit' = [hit EXCEPT ![h] = [hit[h] EXCEPT !.signed = FALSE]]
      BY <1>1, <1>8 DEF SetCookie
    <3> QED
      BY <1>1, <3>2, <3>3, <3>4
  <2> QED
    BY <1>8, <2>1 DEF SetCookie, SessionTypeOK, HitRecord
<1>9. ASSUME Age  PROVE SessionTypeOK'
  BY <1>9 DEF Age, SessionTypeOK, Cookie
<1>10. ASSUME NEW all \in BOOLEAN, AskRevoke(all)  PROVE SessionTypeOK'
  BY <1>1, <1>10 DEF AskRevoke, SessionTypeOK
<1>11. ASSUME DeleteSession  PROVE SessionTypeOK'
  <2> DEFINE sid == IF revoker.all THEN session.sid ELSE revoker.sid
  <2>1. sid \in Nat
    BY DEF SessionTypeOK
  <2>2. /\ session' = IF session.sid = sid THEN [session EXCEPT !.sid = 0] ELSE session
        /\ revoker' = [revoker EXCEPT !.pc = "mark", !.sid = sid, !.crossed = session.sid # sid]
        /\ UNCHANGED <<cookie, hit, marks, editor, heard>>
    BY <1>11 DEF DeleteSession
  <2> HIDE DEF sid
  <2> QED
    BY <2>1, <2>2 DEF SessionTypeOK
<1>12. ASSUME MarkRevoked  PROVE SessionTypeOK'
  <2>1. heard' \in Heard
    BY <1>1, <1>12 DEF MarkRevoked, Heard
  <2>2. marks' \in [sids : SUBSET Nat, user : BOOLEAN]
    BY <1>12 DEF MarkRevoked, SessionTypeOK
  <2>3. revoker' = [revoker EXCEPT !.pc = "done"] /\ UNCHANGED <<session, cookie, hit, editor>>
    BY <1>12 DEF MarkRevoked
  <2> QED
    BY <2>1, <2>2, <2>3 DEF SessionTypeOK
<1>13. ASSUME EditAccess  PROVE SessionTypeOK'
  BY <1>13 DEF EditAccess, SessionTypeOK
<1>14. ASSUME MarkEdited  PROVE SessionTypeOK'
  <2>1. heard' \in Heard
    BY <1>1, <1>14 DEF MarkEdited, Heard
  <2> QED
    BY <1>14, <2>1 DEF MarkEdited, SessionTypeOK
<1>15. ASSUME LoseSessions  PROVE SessionTypeOK'
  <2>1. hit' \in [Hits -> HitRecord]
    <3>1. GoneHit \in HitRecord
      BY DEF GoneHit, NewHit, FirstCookie, NothingHeard, HitRecord, Cookie, Heard
    <3>2. ASSUME NEW h \in Hits  PROVE [hit[h] EXCEPT !.signed = FALSE] \in HitRecord
      <4>1. hit[h] \in HitRecord
        BY <1>1
      <4> QED
        BY <4>1 DEF HitRecord
    <3> QED
      BY <1>1, <1>15, <3>1, <3>2 DEF LoseSessions
  <2>2. cookie' \in Cookie
    BY <1>1, <1>15 DEF LoseSessions, Cookie
  <2> QED
    BY <1>15, <2>1, <2>2 DEF LoseSessions, NoMarks, SessionTypeOK, HitRecord
<1>16. ASSUME UNCHANGED sessionVars  PROVE SessionTypeOK'
  BY <1>16 DEF sessionVars, SessionTypeOK
<1> QED
  BY <1>3, <1>4, <1>5, <1>6, <1>7, <1>8, <1>9, <1>10, <1>11, <1>12, <1>13, <1>14, <1>15,
     <1>16 DEF SessionMove, SessionStep

-----------------------------------------------------------------------------
(* Steps *)

\* What is covered, or up to date, stays so; nothing that was said is taken back.
TokensKept ==
    /\ \A sid \in Nat : Covered(sid) => Covered(sid)'
    /\ \A n \in Nat : UpToDate(n) => UpToDate(n)'
    /\ session'.grants >= session.grants
    /\ heard.revoked => heard'.revoked

\* A step that touches neither the row, nor the marks, nor what covers for them.
LEMMA QuietTokens ==
  ASSUME SessionSound, UNCHANGED <<session, marks, heard>>,
         revoker.pc = "mark" => UNCHANGED revoker,
         \A g \in Hits : hit[g].pc = "renamed" => hit'[g] = hit[g]
  PROVE  TokensKept
BY DEF TokensKept, Covered, UpToDate, SessionSound, SessionTypeOK

\* A hit that the step leaves alone.
LEMMA HitKept ==
  ASSUME SessionSound, SessionTypeOK', TokensKept, NEW g \in Hits, hit'[g] = hit[g]
  PROVE  HitSound(g)'
<1>1. /\ hit[g].asked.sid \in Nat /\ hit[g].sid \in Nat /\ hit[g].grants \in Nat
      /\ hit[g].heard.grants \in Nat /\ session.grants \in Nat /\ session'.grants \in Nat
  BY DEF SessionSound, SessionTypeOK, Cookie, Heard
<1>2. HitSound(g)
  BY DEF SessionSound
<1> QED
  BY <1>1, <1>2 DEF HitSound, TokensKept

\* A step of the hits only: the rest of the invariant follows.
LEMMA HitsOnly ==
  ASSUME SessionSound, SessionTypeOK', UNCHANGED <<session, marks, heard, cookie, revoker>>,
         \A g \in Hits : hit[g].pc = "renamed" <=> hit'[g].pc = "renamed",
         \A g \in Hits : hit[g].pc = "renamed" => hit'[g] = hit[g],
         \A g \in Hits : HitSound(g)'
  PROVE  SessionSound'
<1>1. TokensKept
  BY QuietTokens
<1> QED
  BY <1>1 DEF TokensKept, SessionSound, SessionTypeOK, Cookie

\* A request comes: it is vouched for by a cookie that nobody has marked, or it waits for
\* a check.
LEMMA ArrivingSound ==
  ASSUME SessionSound, SessionTypeOK', NEW h \in Hits, NEW rotates \in BOOLEAN,
         Arriving(h, rotates)
  PROVE  SessionSound'
<1>1. /\ hit[h].pc = "idle" /\ \A g \in Hits \ {h} : hit'[g] = hit[g]
      /\ hit'[h].asked = cookie /\ hit'[h].grants = cookie.grants
      /\ hit'[h].heard = heard /\ hit'[h].unread = {"row", "user"}
      /\ hit'[h].signed = hit[h].signed
      /\ \/ hit'[h].pc = "accepted" /\ cookie.fresh /\ ~MustCheck(cookie)
         \/ hit'[h].pc = "reads" /\ hit'[h].check = h
         \/ hit'[h].pc = "joined" /\ hit'[h].check # h
  BY Arrived DEF SessionSound
<1>2. UNCHANGED <<session, cookie, marks, revoker, heard>>
  BY DEF Arriving, Consulted
<1>3. TokensKept
  BY <1>1, <1>2, QuietTokens
<1>4. ~hit[h].signed
  BY <1>1 DEF SessionSound, HitSound
<1>5. /\ cookie.sid # 0 /\ heard.grants <= session.grants /\ cookie.sid \in Nat
      /\ cookie.grants \in Nat /\ heard.grants \in Nat
  BY DEF SessionSound, SessionTypeOK, Cookie, Heard
<1>6. ASSUME cookie.fresh, ~MustCheck(cookie), ~cookie.before
      PROVE  ~heard.revoked /\ cookie.grants >= heard.grants
  BY <1>5, <1>6 DEF SessionSound, Covered, UpToDate, MustCheck
<1>7. HitSound(h)'
  BY <1>1, <1>2, <1>4, <1>5, <1>6 DEF HitSound
<1>8. \A g \in Hits : HitSound(g)'
  BY <1>1, <1>3, <1>7, HitKept
<1> QED
  BY <1>1, <1>2, <1>8, HitsOnly

\* The two reads of a check.
LEMMA ReadsSound ==
  ASSUME SessionSound, SessionTypeOK', NEW h \in Hits, ReadSession(h) \/ ReadUser(h)
  PROVE  SessionSound'
<1>1. /\ hit[h].pc = "reads" /\ UNCHANGED <<session, cookie, marks, revoker, heard>>
      /\ hit \in [Hits -> HitRecord] /\ hit[h] \in HitRecord
  BY DEF ReadSession, ReadUser, SessionSound, SessionTypeOK, HitRecord
<1>2. \A g \in Hits \ {h} : hit'[g] = hit[g]
  BY <1>1 DEF ReadSession, ReadUser
<1>3. /\ hit'[h].pc = "reads" /\ hit'[h].check = hit[h].check
      /\ hit'[h].asked = hit[h].asked /\ hit'[h].heard = hit[h].heard
      /\ hit'[h].signed = hit[h].signed /\ hit'[h].sid = hit[h].sid
  BY <1>1 DEF ReadSession, ReadUser, HitRecord
<1>4. TokensKept
  BY <1>1, <1>2, QuietTokens
<1>5. HitSound(h)
  BY DEF SessionSound
<1>6. CASE ReadSession(h)
  <2>1. /\ hit'[h].found = (session.sid = hit[h].asked.sid)
        /\ hit'[h].unread = hit[h].unread \ {"row"} /\ hit'[h].grants = hit[h].grants
    BY <1>1, <1>6 DEF ReadSession, HitRecord
  <2>2. hit'[h].found => Covered(hit[h].asked.sid)' /\ ~hit[h].heard.revoked
    BY <1>1, <1>3, <1>5, <2>1 DEF Covered, HitSound, SessionSound
  <2>3. HitSound(h)'
    BY <1>1, <1>3, <1>4, <1>5, <2>1, <2>2
       DEF HitSound, TokensKept, SessionSound, SessionTypeOK, Cookie, Heard
  <2>4. \A g \in Hits : HitSound(g)'
    BY <1>2, <1>4, <2>3, HitKept
  <2> QED
    BY <1>1, <1>2, <1>3, <2>4, HitsOnly
<1>7. CASE ReadUser(h)
  <2>1. /\ hit'[h].grants = session.grants /\ hit'[h].found = hit[h].found
        /\ hit'[h].unread = hit[h].unread \ {"user"}
    BY <1>1, <1>7 DEF ReadUser, HitRecord
  <2>2. hit[h].asked.sid \in Nat
    BY <1>1 DEF HitRecord, Cookie
  <2>3. UpToDate(session.grants)'
    BY <1>1 DEF UpToDate, SessionSound
  <2>4. hit'[h].found /\ "row" \notin hit'[h].unread
        => Covered(hit[h].asked.sid)' /\ ~hit[h].heard.revoked
    BY <1>1, <1>3, <1>4, <1>5, <2>1, <2>2 DEF HitSound, TokensKept
  <2>5. HitSound(h)'
    BY <1>1, <1>3, <1>5, <2>1, <2>3, <2>4 DEF HitSound
  <2>6. \A g \in Hits : HitSound(g)'
    BY <1>2, <1>4, <2>5, HitKept
  <2> QED
    BY <1>1, <1>2, <1>3, <2>6, HitsOnly
<1> QED
  BY <1>6, <1>7

\* The end of a check, whoever shares it: refused, or accepted with a session that is
\* covered and with permissions that are new enough for the one who began it.
LEMMA SettleSound ==
  ASSUME SessionSound, SessionTypeOK', TokensKept, NEW h \in Hits,
         NEW pc \in {"refused", "accepted"}, NEW sid \in Nat, Settle(h, pc, sid),
         hit[h].pc \in {"reads", "rename", "renamed"},
         pc = "accepted" => /\ sid # 0 /\ Covered(sid)' /\ UpToDate(hit[h].grants)'
                            /\ ~hit[h].heard.revoked
                            /\ hit[h].grants >= hit[h].heard.grants
  PROVE  \A g \in Hits : HitSound(g)'
<1>1. /\ \A g \in Hits : ~Party(h, g) => hit'[g] = hit[g]
      /\ \A g \in Hits : Party(h, g) =>
              /\ hit'[g].pc = pc /\ hit'[g].sid = sid /\ hit'[g].grants = hit[h].grants
              /\ hit'[g].signed = (hit[h].rotates /\ pc = "accepted")
              /\ hit'[g].asked = hit[g].asked /\ hit'[g].heard = hit[g].heard
              /\ hit'[g].check = hit[g].check
  BY Settled DEF SessionSound
<1>2. ASSUME NEW g \in Hits, Party(h, g)  PROVE HitSound(g)'
  <2>1. /\ HitSound(g) /\ hit[g].heard.grants \in Nat
        /\ session.grants \in Nat /\ session'.grants \in Nat
    BY DEF SessionSound, SessionTypeOK, Heard
  <2>2. g = h \/ hit[g].check # g
    BY <1>2, <2>1 DEF Party, HitSound
  <2>3. hit'[g].heard.grants <= session'.grants
    BY <1>1, <1>2, <2>1 DEF HitSound, TokensKept
  <2> QED
    BY <1>1, <1>2, <2>1, <2>2, <2>3 DEF HitSound, TokensKept
<1> QED
  BY <1>1, <1>2, HitKept

LEMMA JudgeSound ==
  ASSUME SessionSound, SessionTypeOK', NEW h \in Hits, Judge(h)  PROVE SessionSound'
<1>1. /\ hit[h].pc = "reads" /\ hit[h].unread = {}
      /\ UNCHANGED <<session, cookie, marks, revoker, heard>>
      /\ hit \in [Hits -> HitRecord] /\ hit[h] \in HitRecord
  BY DEF Judge, SessionSound, SessionTypeOK, HitRecord
<1>2. /\ HitSound(h) /\ hit[h].asked.sid \in Nat /\ hit[h].grants \in Nat
  BY <1>1 DEF SessionSound, HitRecord, Cookie
<1>3. CASE hit' = [hit EXCEPT ![h].pc = "rename"] /\ hit[h].found
  <2>1. /\ \A g \in Hits \ {h} : hit'[g] = hit[g]
        /\ hit'[h].pc = "rename" /\ hit'[h].check = hit[h].check
        /\ hit'[h].asked = hit[h].asked /\ hit'[h].heard = hit[h].heard
        /\ hit'[h].grants = hit[h].grants
    BY <1>1, <1>3 DEF HitRecord
  <2>2. TokensKept
    BY <1>1, <2>1, QuietTokens
  <2>3. HitSound(h)'
    BY <1>1, <1>2, <1>3, <2>1, <2>2 DEF HitSound, TokensKept
  <2>4. \A g \in Hits : HitSound(g)'
    BY <2>1, <2>2, <2>3, HitKept
  <2> QED
    BY <1>1, <2>1, <2>4, HitsOnly
<1>4. ASSUME NEW pc \in {"refused", "accepted"}, NEW sid \in Nat, Settle(h, pc, sid),
             pc = "accepted" => hit[h].found /\ sid = hit[h].asked.sid
      PROVE  SessionSound'
  <2>1. /\ \A g \in Hits : ~Party(h, g) => hit'[g] = hit[g]
        /\ \A g \in Hits : Party(h, g) => hit'[g].pc = pc
    BY <1>4, Settled DEF SessionSound
  <2>2. \A g \in Hits : Party(h, g) => hit[g].pc \in {"reads", "joined"}
    BY <1>1 DEF Party
  <2>3. /\ \A g \in Hits : hit[g].pc = "renamed" <=> hit'[g].pc = "renamed"
        /\ \A g \in Hits : hit[g].pc = "renamed" => hit'[g] = hit[g]
    BY <2>1, <2>2
  <2>4. TokensKept
    BY <1>1, <2>3, QuietTokens
  <2>5. pc = "accepted" => /\ sid # 0 /\ Covered(sid) /\ UpToDate(hit[h].grants)
                           /\ ~hit[h].heard.revoked
                           /\ hit[h].grants >= hit[h].heard.grants
    BY <1>1, <1>2, <1>4 DEF HitSound
  <2>6. pc = "accepted" => Covered(sid)' /\ UpToDate(hit[h].grants)'
    <3>1. hit'[h].grants = hit[h].grants
      BY <1>4, Settled DEF SessionSound, Party
    <3> QED
      BY <1>1, <1>2, <2>4, <2>5, <3>1 DEF TokensKept, UpToDate
  <2>7. \A g \in Hits : HitSound(g)'
    BY <1>1, <1>4, <2>4, <2>5, <2>6, SettleSound
  <2> QED
    BY <1>1, <2>3, <2>7, HitsOnly
<1> QED
  BY <1>1, <1>2, <1>3, <1>4 DEF Judge

\* The transaction that renames the session: the old id is covered by the check that renamed
\* it, until that marks it.
LEMMA RenameSound ==
  ASSUME SessionSound, SessionTypeOK', NEW h \in Hits, Rename(h)  PROVE SessionSound'
<1>1. /\ hit[h].pc = "rename" /\ UNCHANGED <<cookie, marks, revoker, heard>>
      /\ hit \in [Hits -> HitRecord] /\ hit[h] \in HitRecord
      /\ session.sid \in Nat /\ session.sids \in Nat /\ session.grants \in Nat
  BY DEF Rename, SessionSound, SessionTypeOK, HitRecord
<1>2. /\ HitSound(h) /\ hit[h].asked.sid \in Nat /\ hit[h].grants \in Nat
      /\ hit[h].asked.sid # 0
  BY <1>1 DEF SessionSound, HitRecord, Cookie, HitSound
<1>3. CASE session.sid = hit[h].asked.sid
  <2>1. PICK sid \in Nat : sid = session.sids + 1 /\ sid # 0
    BY <1>1
  <2> DEFINE new == [hit[h] EXCEPT !.pc = "renamed", !.sid = sid]
  <2>2. hit' = [hit EXCEPT ![h] = new] /\ session' = [session EXCEPT !.sid = sid, !.sids = sid]
    BY <1>1, <1>3, <2>1 DEF Rename
  <2>3. /\ new.pc = "renamed" /\ new.sid = sid /\ new.check = hit[h].check
        /\ new.asked = hit[h].asked /\ new.heard = hit[h].heard
        /\ new.grants = hit[h].grants
    BY <1>1 DEF HitRecord
  <2> HIDE DEF new
  <2>4. /\ hit'[h] = new /\ \A g \in Hits \ {h} : hit'[g] = hit[g]
        /\ session'.sid = sid /\ session'.grants = session.grants
    BY <1>1, <2>2 DEF SessionSound, SessionTypeOK
  <2>5. ASSUME NEW n \in Nat, Covered(n)  PROVE Covered(n)'
    <3>1. CASE n = session.sid
      BY <1>3, <2>3, <2>4, <3>1 DEF Covered
    <3>2. CASE \E g \in Hits : hit[g].pc = "renamed" /\ hit[g].asked.sid = n
      BY <1>1, <2>4, <3>2 DEF Covered
    <3> QED
      BY <1>1, <2>5, <3>1, <3>2 DEF Covered
  <2>6. TokensKept
    BY <1>1, <2>4, <2>5 DEF TokensKept, UpToDate
  <2>7. HitSound(h)'
    <3>1. Covered(sid)'
      BY <2>4 DEF Covered
    <3>2. UpToDate(hit[h].grants)
      BY <1>1, <1>2 DEF HitSound
    <3> QED
      BY <1>1, <1>2, <2>1, <2>3, <2>4, <3>1, <3>2 DEF HitSound, UpToDate, Covered
  <2>8. \A g \in Hits : HitSound(g)'
    BY <2>4, <2>6, <2>7, HitKept
  <2>9. ~heard.revoked /\ ~(revoker.pc = "mark" /\ ~revoker.crossed)
    BY <1>2, <1>3 DEF SessionSound
  <2>10. ~cookie.before => Covered(cookie.sid)' /\ UpToDate(cookie.grants)'
    BY <1>1, <2>6 DEF TokensKept, SessionSound, SessionTypeOK, Cookie
  <2> QED
    BY <1>1, <2>4, <2>8, <2>9, <2>10 DEF SessionSound
<1>4. CASE session.sid # hit[h].asked.sid
  <2>1. Settle(h, "refused", 0) /\ UNCHANGED session
    BY <1>4 DEF Rename
  <2>2. /\ \A g \in Hits : ~Party(h, g) => hit'[g] = hit[g]
        /\ \A g \in Hits : Party(h, g) => hit'[g].pc = "refused"
    BY <2>1, Settled DEF SessionSound
  <2>3. \A g \in Hits : Party(h, g) => hit[g].pc \in {"rename", "joined"}
    BY <1>1 DEF Party
  <2>4. /\ \A g \in Hits : hit[g].pc = "renamed" <=> hit'[g].pc = "renamed"
        /\ \A g \in Hits : hit[g].pc = "renamed" => hit'[g] = hit[g]
    BY <2>2, <2>3
  <2>5. TokensKept
    BY <1>1, <2>1, <2>4, QuietTokens
  <2>6. \A g \in Hits : HitSound(g)'
    BY <1>1, <2>1, <2>5, SettleSound
  <2> QED
    BY <1>1, <2>1, <2>4, <2>6, HitsOnly
<1> QED
  BY <1>3, <1>4

\* The old id is marked as the check ends.
LEMMA MarkRenamedSound ==
  ASSUME SessionSound, SessionTypeOK', NEW h \in Hits, MarkRenamed(h)  PROVE SessionSound'
<1>1. /\ hit[h].pc = "renamed" /\ UNCHANGED <<session, cookie, revoker, heard>>
      /\ marks' = [marks EXCEPT !.sids = marks.sids \cup {hit[h].asked.sid}]
      /\ Settle(h, "accepted", hit[h].sid)
      /\ hit \in [Hits -> HitRecord] /\ hit[h] \in HitRecord
  BY DEF MarkRenamed, SessionSound, SessionTypeOK, HitRecord
<1>2. marks'.sids = marks.sids \cup {hit[h].asked.sid} /\ marks'.user = marks.user
  BY <1>1 DEF SessionSound, SessionTypeOK
<1>3. /\ HitSound(h) /\ hit[h].asked.sid \in Nat /\ hit[h].grants \in Nat
      /\ hit[h].sid \in Nat
  BY <1>1 DEF SessionSound, HitRecord, Cookie
<1>4. /\ \A g \in Hits : ~Party(h, g) => hit'[g] = hit[g]
      /\ \A g \in Hits : Party(h, g) => hit'[g].pc = "accepted" /\ hit'[g].grants = hit[h].grants
  BY <1>1, <1>3, Settled DEF SessionSound
<1>5. \A g \in Hits : Party(h, g) => g = h \/ hit[g].pc = "joined"
  BY <1>1 DEF Party
<1>6. ASSUME NEW n \in Nat, Covered(n)  PROVE Covered(n)'
  <2>1. ASSUME NEW g \in Hits, hit[g].pc = "renamed", hit[g].asked.sid = n  PROVE Covered(n)'
    <3>1. CASE g = h
      BY <1>2, <2>1, <3>1 DEF Covered
    <3>2. CASE g # h
      <4>1. hit'[g] = hit[g]
        BY <1>4, <1>5, <2>1, <3>2
      <4> QED
        BY <2>1, <4>1 DEF Covered
    <3> QED
      BY <3>1, <3>2
  <2> QED
    BY <1>1, <1>2, <1>6, <2>1 DEF Covered
<1>7. TokensKept
  BY <1>1, <1>2, <1>6 DEF TokensKept, UpToDate, SessionSound, SessionTypeOK
<1>8. /\ hit[h].sid # 0 /\ Covered(hit[h].sid) /\ UpToDate(hit[h].grants)
      /\ ~hit[h].heard.revoked /\ hit[h].grants >= hit[h].heard.grants
  BY <1>1, <1>3 DEF HitSound
<1>9. \A g \in Hits : HitSound(g)'
  <2>1. PICK sid \in Nat : sid = hit[h].sid
    BY <1>3
  <2>2. Covered(sid)'
    BY <1>7, <1>8, <2>1 DEF TokensKept
  <2>3. hit'[h].grants = hit[h].grants
    BY <1>4 DEF Party
  <2>4. UpToDate(hit[h].grants)'
    BY <1>3, <1>7, <1>8, <2>3 DEF TokensKept, UpToDate
  <2> QED
    BY <1>1, <1>7, <1>8, <2>1, <2>2, <2>4, SettleSound
<1>10. \A g \in Hits : hit'[g].pc = "renamed" => hit[g].pc = "renamed"
  BY <1>4
<1>11. ~cookie.before => Covered(cookie.sid)' /\ UpToDate(cookie.grants)'
  BY <1>1, <1>7 DEF TokensKept, SessionSound, SessionTypeOK, Cookie
<1> QED
  BY <1>1, <1>9, <1>10, <1>11 DEF SessionSound

LEMMA CookieSound ==
  ASSUME SessionSound, SessionTypeOK', Age \/ \E h \in Hits : SetCookie(h)
  PROVE  SessionSound'
<1>1. UNCHANGED <<session, marks, revoker, heard>>
  BY DEF Age, SetCookie
<1>2. CASE Age
  <2>1. /\ cookie'.sid = cookie.sid /\ cookie'.before = cookie.before
        /\ cookie'.grants = cookie.grants /\ hit' = hit
    BY <1>2 DEF Age, SessionSound, SessionTypeOK, Cookie
  <2>2. TokensKept
    BY <1>1, <2>1, QuietTokens
  <2>3. \A g \in Hits : HitSound(g)'
    BY <2>1, <2>2, HitKept
  <2>4. ~cookie'.before => Covered(cookie'.sid) /\ UpToDate(cookie'.grants)
    BY <2>1 DEF SessionSound
  <2>5. (~cookie.before => Covered(cookie.sid) /\ UpToDate(cookie.grants))'
    BY <1>1, <2>1, <2>4 DEF Covered, UpToDate
  <2> QED
    BY <1>1, <2>1, <2>3, <2>5 DEF SessionSound
<1>3. ASSUME NEW h \in Hits, SetCookie(h)  PROVE SessionSound'
  <2>1. /\ hit[h].pc = "accepted" /\ hit[h].signed
        /\ cookie'.sid = hit[h].sid /\ cookie'.grants = hit[h].grants
        /\ hit' = [hit EXCEPT ![h] = [hit[h] EXCEPT !.signed = FALSE]]
        /\ hit \in [Hits -> HitRecord] /\ hit[h] \in HitRecord
    BY <1>3 DEF SetCookie, SessionSound, SessionTypeOK, HitRecord
  <2>2. /\ \A g \in Hits \ {h} : hit'[g] = hit[g]
        /\ ~hit'[h].signed /\ hit'[h].pc = "accepted" /\ hit'[h].grants = hit[h].grants
        /\ hit'[h].heard = hit[h].heard /\ hit'[h].asked = hit[h].asked
        /\ hit'[h].check = hit[h].check
    BY <2>1 DEF HitRecord
  <2>3. TokensKept
    BY <1>1, <2>1, <2>2, QuietTokens
  <2>4. HitSound(h) /\ hit[h].sid # 0 /\ Covered(hit[h].sid) /\ UpToDate(hit[h].grants)
    BY <2>1 DEF SessionSound, HitSound
  <2>5. HitSound(h)'
    BY <1>1, <2>1, <2>2, <2>4 DEF HitSound
  <2>6. \A g \in Hits : HitSound(g)'
    BY <2>2, <2>3, <2>5, HitKept
  <2>7. \A g \in Hits : hit[g].pc = "renamed" <=> hit'[g].pc = "renamed"
    BY <2>1, <2>2
  <2>8. \A g \in Hits : hit[g].pc = "renamed" => hit'[g] = hit[g]
    BY <2>1, <2>2
  <2>9. Covered(cookie.sid)' /\ UpToDate(cookie.grants)'
    BY <1>1, <2>1, <2>4, <2>7, <2>8 DEF Covered, UpToDate
  <2> QED
    BY <1>1, <2>1, <2>4, <2>6, <2>7, <2>9 DEF SessionSound
<1> QED
  BY <1>2, <1>3

\* The revoker's two statements: between them the id is covered by the revoker.
LEMMA RevokerSound ==
  ASSUME SessionSound, SessionTypeOK', NEW all \in BOOLEAN,
         AskRevoke(all) \/ DeleteSession \/ MarkRevoked
  PROVE  SessionSound'
<1>1. /\ UNCHANGED <<cookie, hit>> /\ session.sid \in Nat /\ session.grants \in Nat
      /\ revoker.sid \in Nat /\ heard.grants \in Nat /\ cookie.sid \in Nat
      /\ cookie.grants \in Nat
  <2>1. AskRevoke(all) => UNCHANGED <<cookie, hit>>
    BY DEF AskRevoke
  <2>2. DeleteSession => UNCHANGED <<cookie, hit>>
    BY DEF DeleteSession
  <2>3. MarkRevoked => UNCHANGED <<cookie, hit>>
    BY DEF MarkRevoked
  <2>4. /\ session.sid \in Nat /\ session.grants \in Nat /\ revoker.sid \in Nat
        /\ heard.grants \in Nat /\ cookie.sid \in Nat /\ cookie.grants \in Nat
    BY DEF SessionSound, SessionTypeOK, Cookie, Heard
  <2> QED
    BY <2>1, <2>2, <2>3, <2>4
<1>2. ASSUME TokensKept, heard'.grants = heard.grants, session'.grants = session.grants,
             heard'.revoked => /\ session'.sid = 0 /\ revoker'.pc = "done"
                               /\ \A h \in Hits : hit[h].pc # "renamed",
             revoker'.pc = "mark" /\ ~revoker'.crossed => session'.sid = 0
      PROVE  SessionSound'
  <2>1. \A g \in Hits : HitSound(g)'
    BY <1>1, <1>2, HitKept
  <2>2. ~cookie.before => Covered(cookie.sid)' /\ UpToDate(cookie.grants)'
    BY <1>1, <1>2 DEF TokensKept, SessionSound
  <2> QED
    BY <1>1, <1>2, <2>1, <2>2 DEF SessionSound
<1>3. CASE AskRevoke(all)
  <2>1. /\ UNCHANGED <<session, marks, heard>> /\ revoker.pc = "idle"
        /\ revoker' = [revoker EXCEPT !.pc = "delete", !.all = all, !.sid = session.sid]
    BY <1>3 DEF AskRevoke
  <2>3. revoker \in [pc : {"idle", "delete", "mark", "done"}, all : BOOLEAN, sid : Nat,
                     crossed : BOOLEAN]
    BY DEF SessionSound, SessionTypeOK
  <2>4. revoker'.pc = "delete"
    BY <2>1, <2>3
  <2>2. TokensKept
    BY <1>1, <2>1, QuietTokens
  <2> QED
    BY <1>2, <2>1, <2>2, <2>4 DEF SessionSound
<1>4. CASE DeleteSession
  <2>1. PICK sid \in Nat : sid = IF revoker.all THEN session.sid ELSE revoker.sid
    BY <1>1
  <2>2. /\ revoker.pc = "delete" /\ UNCHANGED <<marks, heard>>
        /\ session' = IF session.sid = sid THEN [session EXCEPT !.sid = 0] ELSE session
        /\ revoker' = [revoker EXCEPT !.pc = "mark", !.sid = sid, !.crossed = session.sid # sid]
    BY <1>4, <2>1 DEF DeleteSession
  <2>3. /\ session'.grants = session.grants
        /\ session'.sid = IF session.sid = sid THEN 0 ELSE session.sid
    BY <2>2 DEF SessionSound, SessionTypeOK
  <2>4. /\ revoker'.pc = "mark" /\ revoker'.sid = sid
        /\ revoker'.crossed = (session.sid # sid)
    BY <2>2 DEF SessionSound, SessionTypeOK
  <2>5. ASSUME NEW n \in Nat, Covered(n)  PROVE Covered(n)'
    BY <1>1, <2>2, <2>3, <2>4, <2>5 DEF Covered
  <2>6. TokensKept
    BY <1>1, <2>2, <2>3, <2>5 DEF TokensKept, UpToDate
  <2>7. ~heard'.revoked
    BY <2>2 DEF SessionSound
  <2> QED
    BY <1>2, <2>2, <2>3, <2>4, <2>6, <2>7
<1>5. CASE MarkRevoked
  <2>1. /\ revoker.pc = "mark" /\ UNCHANGED session
        /\ marks'.sids = marks.sids \cup {revoker.sid} /\ (marks.user => marks'.user)
    BY <1>5 DEF MarkRevoked
  <2>2. /\ heard'.grants = heard.grants
        /\ heard'.revoked => ~revoker.crossed /\ \A h \in Hits : hit[h].pc # "renamed"
    BY <1>5 DEF MarkRevoked, SessionSound, SessionTypeOK, Heard
  <2>3. revoker'.pc = "done"
    BY <1>5 DEF MarkRevoked, SessionSound, SessionTypeOK
  <2>4. ~heard.revoked
    BY <2>1 DEF SessionSound
  <2>5. ASSUME NEW n \in Nat, Covered(n)  PROVE Covered(n)'
    BY <1>1, <2>1, <2>5 DEF Covered
  <2>6. TokensKept
    BY <1>1, <2>1, <2>2, <2>4, <2>5 DEF TokensKept, UpToDate
  <2>7. heard'.revoked => session'.sid = 0
    BY <2>1, <2>2 DEF SessionSound
  <2> QED
    BY <1>2, <2>1, <2>2, <2>3, <2>6, <2>7
<1> QED
  BY <1>3, <1>4, <1>5

\* An edit of the permissions, and the mark that follows it.
LEMMA EditorSound ==
  ASSUME SessionSound, SessionTypeOK', EditAccess \/ MarkEdited  PROVE SessionSound'
<1>1. /\ UNCHANGED <<cookie, hit, revoker>> /\ session'.sid = session.sid
      /\ session.grants \in Nat /\ session'.grants \in Nat /\ session'.grants >= session.grants
      /\ heard'.revoked = heard.revoked /\ heard.grants \in Nat
      /\ heard'.grants <= session'.grants
  <2>1. CASE EditAccess
    <3>1. session'.grants = session.grants + 1 /\ session'.sid = session.sid
      BY <2>1 DEF EditAccess, SessionSound, SessionTypeOK
    <3>2. heard.grants \in Nat /\ session.grants \in Nat /\ heard.grants <= session.grants
      BY DEF SessionSound, SessionTypeOK, Heard
    <3> QED
      BY <2>1, <3>1, <3>2 DEF EditAccess
  <2>2. CASE MarkEdited
    <3>1. heard'.grants = session.grants /\ heard'.revoked = heard.revoked
      BY <2>2 DEF MarkEdited, SessionSound, SessionTypeOK, Heard
    <3>2. heard.grants \in Nat /\ session.grants \in Nat
      BY DEF SessionSound, SessionTypeOK, Heard
    <3> QED
      BY <2>2, <3>1, <3>2 DEF MarkEdited
  <2> QED
    BY <2>1, <2>2
<1>2. marks'.sids = marks.sids /\ ((marks' = marks /\ heard' = heard) \/ marks'.user)
  BY DEF EditAccess, MarkEdited, SessionSound, SessionTypeOK
<1>3. TokensKept
  BY <1>1, <1>2 DEF TokensKept, Covered, UpToDate
<1>4. \A g \in Hits : HitSound(g)'
  BY <1>1, <1>3, HitKept
<1>5. ~cookie.before => Covered(cookie.sid)' /\ UpToDate(cookie.grants)'
  BY <1>1, <1>3 DEF TokensKept, SessionSound, SessionTypeOK, Cookie
<1> QED
  BY <1>1, <1>4, <1>5 DEF SessionSound

\* A restart forgets the marks, and every cookie they were for is of before.
LEMMA LostSound ==
  ASSUME SessionSound, SessionTypeOK', LoseSessions  PROVE SessionSound'
<1>1. /\ cookie'.before /\ cookie'.sid = cookie.sid /\ UNCHANGED <<session, heard>>
  BY DEF LoseSessions, SessionSound, SessionTypeOK, Cookie
<1>2. revoker'.pc \in {"idle", "done"} /\ (revoker.pc = "done" => revoker'.pc = "done")
  BY DEF LoseSessions, SessionSound, SessionTypeOK
<1>3. ASSUME NEW h \in Hits  PROVE HitSound(h)' /\ hit'[h].pc # "renamed"
  <2>1. /\ hit'[h] = IF hit[h].pc \in {"idle", "accepted"}
                     THEN [hit[h] EXCEPT !.signed = FALSE] ELSE GoneHit
        /\ hit[h] \in HitRecord /\ HitSound(h) /\ session.grants \in Nat
    BY DEF LoseSessions, SessionSound, SessionTypeOK, HitRecord
  <2>2. CASE hit[h].pc \in {"idle", "accepted"}
    <3>1. /\ ~hit'[h].signed /\ hit'[h].pc = hit[h].pc /\ hit'[h].grants = hit[h].grants
          /\ hit'[h].heard = hit[h].heard /\ hit'[h].asked = hit[h].asked
          /\ hit'[h].check = hit[h].check
      BY <2>1, <2>2 DEF HitRecord
    <3> QED
      BY <1>1, <2>1, <2>2, <3>1 DEF HitSound
  <2>3. CASE hit[h].pc \notin {"idle", "accepted"}
    <3>1. /\ hit'[h].pc = "refused" /\ hit'[h].asked.sid = 1 /\ hit'[h].heard.grants = 0
          /\ ~hit'[h].heard.revoked
      BY <2>1, <2>3 DEF GoneHit, NewHit, FirstCookie, NothingHeard
    <3> QED
      BY <1>1, <2>1, <3>1 DEF HitSound
  <2> QED
    BY <2>2, <2>3
<1> QED
  BY <1>1, <1>2, <1>3 DEF SessionSound

LEMMA SessionSoundStep == ASSUME SessionSound, SessionMove PROVE SessionSound'
<1>1. SessionTypeOK'
  BY SessionTypes DEF SessionSound
<1>2. ASSUME UNCHANGED sessionVars  PROVE SessionSound'
  BY <1>2 DEF sessionVars, SessionSound, SessionTypeOK, HitSound, Covered, UpToDate
<1>3. ASSUME NEW h \in Hits,
             \/ \E rotates \in BOOLEAN : Arriving(h, rotates)
             \/ ReadSession(h) \/ ReadUser(h) \/ Judge(h) \/ Rename(h)
             \/ MarkRenamed(h) \/ SetCookie(h)
      PROVE  SessionSound'
  BY <1>1, <1>3, ArrivingSound, ReadsSound, JudgeSound, RenameSound, MarkRenamedSound,
     CookieSound
<1>4. CASE \/ Age
           \/ \E all \in BOOLEAN : AskRevoke(all)
           \/ DeleteSession \/ MarkRevoked \/ EditAccess \/ MarkEdited
  BY <1>1, <1>4, CookieSound, RevokerSound, EditorSound
<1> QED
  BY <1>1, <1>2, <1>3, <1>4, LostSound DEF SessionMove, SessionStep

LEMMA SessionInvariant == ServerSpec => []SessionSound
<1>1. ASSUME ServerInit  PROVE SessionSound
  <2>1. PICK w \in Workloads : SessionInit(w.hits, w.revokes, w.edited)
    BY <1>1 DEF ServerInit
  <2>2. /\ session = [sid |-> 1, grants |-> 0, sids |-> 1] /\ marks = NoMarks
        /\ heard = NothingHeard /\ editor \in {"idle", "done"}
        /\ \E fresh \in BOOLEAN : cookie = [FirstCookie EXCEPT !.fresh = fresh]
        /\ \E pc \in {"idle", "done"} : revoker = [pc |-> pc, all |-> FALSE, sid |-> 0,
                                                crossed |-> FALSE]
    BY <2>1 DEF SessionInit
  <2>3. hit \in [Hits -> HitRecord] /\ \A h \in Hits : hit[h] \in {NewHit, GoneHit}
    BY <2>1 DEF SessionInit, GoneHit, NewHit, FirstCookie, NothingHeard, HitRecord, Cookie,
                Heard
  <2>4. /\ cookie \in Cookie /\ cookie.sid = 1 /\ cookie.grants = 0
    <3>1. PICK fresh \in BOOLEAN : cookie = [FirstCookie EXCEPT !.fresh = fresh]
      BY <2>2
    <3>2. cookie = [by |-> NoHit, sid |-> 1, grants |-> 0, fresh |-> fresh, before |-> FALSE]
      BY <3>1 DEF FirstCookie
    <3> QED
      BY <3>2 DEF Cookie
  <2>5. SessionTypeOK
    BY <2>2, <2>3, <2>4 DEF SessionTypeOK, HitRecord, NoMarks, NothingHeard, Heard
  <2>6. ASSUME NEW h \in Hits
        PROVE  /\ hit[h].pc \in {"idle", "refused"} /\ hit[h].asked.sid = 1
               /\ hit[h].heard.grants = 0 /\ ~hit[h].heard.revoked /\ ~hit[h].signed
    BY <2>3 DEF GoneHit, NewHit, FirstCookie, NothingHeard
  <2>7. \A h \in Hits : HitSound(h)
    BY <2>2, <2>6 DEF HitSound
  <2>8. /\ heard.grants = 0 /\ ~heard.revoked /\ session.grants = 0 /\ session.sid = 1
        /\ revoker.pc \in {"idle", "done"}
    BY <2>2 DEF NothingHeard
  <2> QED
    BY <2>4, <2>5, <2>7, <2>8 DEF SessionSound, Covered, UpToDate
<1>2. SessionSound /\ [ServerNext]_serverVars => SessionSound'
  BY SessionSees, SessionSoundStep
<1> QED
  BY <1>1, <1>2, PTL DEF ServerSpec

\* A request that begins its check after a revocation, or an edit, was answered is refused,
\* or acts with the edited permissions, whatever cookies earlier checks still bring, with
\* the three exceptions the property names (lib/session-revocation.ts, lib/auth.ts).
THEOREM RevocationsSafe == ServerSpec => []RevocationsBite
<1>1. SessionSound => RevocationsBite
  BY DEF SessionSound, HitSound, RevocationsBite
<1> QED
  BY <1>1, SessionInvariant, PTL

-----------------------------------------------------------------------------
(* The types of the whole process *)

\* A set of handles has a least one: CHOOSE finds a handle whenever one is unused.
LEMMA LeastHandle ==
  ASSUME NEW S, S \subseteq Nat, S # {}
  PROVE  \E h \in S : \A i \in S : h <= i
<1> DEFINE R == {ss \in Nat \X Nat : ss[1] < ss[2]}
<1>1. IsWellFoundedOn(R, Nat)
  BY NatLessThanWellFounded DEF OpToRel
<1>2. ASSUME NEW x \in Nat, NEW y \in Nat, x < y  PROVE <<x, y>> \in R
  BY <1>2
<1> HIDE DEF R
<1>3. PICK h \in S : \A i \in S : ~ (<<i, h>> \in R)
  BY <1>1, WFMin, Zenon
<1>4. ASSUME NEW i \in S  PROVE h <= i
  <2>1. h \in Nat /\ i \in Nat /\ ~ (<<i, h>> \in R)
    BY <1>3
  <2>2. ~ (i < h)
    BY <1>2, <2>1, Zenon
  <2> QED
    BY <2>1, <2>2
<1> QED
  BY <1>4

LEMMA HandleFound == Unused # {} => Handle \in Handles
<1> SUFFICES ASSUME Unused # {}  PROVE Handle \in Handles
  OBVIOUS
<1>1. Unused \subseteq Handles
  BY DEF Unused
<1>2. \E h \in Unused : \A i \in Unused : h <= i
  BY <1>1, ScanAssumption, LeastHandle
<1>3. Handle \in Unused
  BY <1>2 DEF Handle
<1> QED
  BY <1>1, <1>3

LEMMA EntryRenewed ==
  ASSUME entry \in ScanEntry, NEW h \in Handles, NEW n \in 0..MaxRetries
  PROVE  /\ [entry EXCEPT !.timer = h] \in ScanEntry
         /\ [entry EXCEPT !.timer = h, !.retries = n] \in ScanEntry
         /\ [entry EXCEPT !.late = TRUE] \in ScanEntry
         /\ [entry EXCEPT !.timer = h].timer = h
         /\ [entry EXCEPT !.timer = h, !.retries = n].timer = h
         /\ [entry EXCEPT !.late = TRUE].timer = entry.timer
BY DEF ScanEntry

LEMMA ScanTypes == ASSUME ScanTypeOK, [ScanNext]_scanVars PROVE ScanTypeOK'
<1>0. /\ entry \in ScanEntry \cup {NoEntry} /\ live \subseteq Handles /\ checking \subseteq Handles
      /\ entry # NoEntry => entry \in ScanEntry /\ entry.timer \in Handles
                            /\ entry.retries \in 0..MaxRetries
      /\ 0 \in 0..MaxRetries
  BY ScanAssumption DEF ScanTypeOK, ScanEntry
<1>a. ASSUME entry' \in ScanEntry \cup {NoEntry}, live' \subseteq Handles,
             checking' \subseteq Handles, inFlight' \in BOOLEAN, scans' \in Nat,
             caller' \in [Callers -> {"off", "booked", "ready", "entry", "scan", "served"}],
             bursts' \in BOOLEAN
      PROVE  ScanTypeOK'
  BY <1>a DEF ScanTypeOK, ScanEntry
<1>1. ASSUME JoinRunning \/ JoinPending \/ NewEntry
      PROVE  entry' \in ScanEntry \cup {NoEntry} /\ live' \subseteq Handles
  <2>1. CASE JoinRunning
    BY <1>0, <2>1 DEF JoinRunning
  <2>2. CASE JoinPending
    BY <1>0, <2>2, HandleFound, EntryRenewed DEF JoinPending
  <2>3. CASE NewEntry
    BY <1>0, <2>3, HandleFound DEF NewEntry, ScanEntry
  <2> QED
    BY <1>1, <2>1, <2>2, <2>3
<1>2. ASSUME NEW c \in Callers, AskScan(c)  PROVE ScanTypeOK'
  BY <1>a, <1>1, <1>2 DEF AskScan, ScanTypeOK
<1>3. CASE Burst
  BY <1>a, <1>1, <1>3 DEF Burst, ScanTypeOK
<1>4. CASE Late
  BY <1>a, <1>0, <1>4, EntryRenewed DEF Late, ScanTypeOK
<1>5. CASE EndScan
  <2>1. /\ scans' \in Nat
        /\ caller' \in [Callers -> {"off", "booked", "ready", "entry", "scan", "served"}]
    BY <1>5 DEF EndScan, ScanTypeOK
  <2> QED
    BY <1>a, <1>0, <1>5, <2>1 DEF EndScan, ScanTypeOK
<1>6. ASSUME NEW h \in Handles, TimerFires(h) \/ StandDown(h)  PROVE ScanTypeOK'
  BY <1>a, <1>0, <1>6 DEF TimerFires, StandDown, ScanTypeOK
<1>7. ASSUME NEW h \in Handles, PutOff(h)  PROVE ScanTypeOK'
  <2>1. /\ entry \in ScanEntry /\ Handle \in Handles
        /\ entry.retries + 1 \in 0..MaxRetries
        /\ entry' = [entry EXCEPT !.timer = Handle, !.retries = entry.retries + 1]
        /\ live' = (live \ {entry.timer}) \cup {Handle}
    BY <1>0, <1>7, HandleFound, ScanAssumption DEF PutOff, Owns, MayPutOff
  <2>2. entry' \in ScanEntry
    BY <2>1, EntryRenewed
  <2> QED
    BY <1>a, <1>0, <1>7, <2>1, <2>2 DEF PutOff, ScanTypeOK
<1>8. ASSUME NEW h \in Handles, StartScan(h)  PROVE ScanTypeOK'
  BY <1>a, <1>0, <1>8 DEF StartScan, ScanTypeOK
<1>9. CASE LoseScans
  BY <1>a, <1>9 DEF LoseScans, ScanTypeOK
<1>10. ASSUME NEW c \in Callers, Book(c) \/ Wake(c),
              UNCHANGED <<entry, live, checking, inFlight, scans, bursts>>
       PROVE  ScanTypeOK'
  BY <1>a, <1>0, <1>10 DEF Book, Wake, ScanTypeOK
<1>11. CASE UNCHANGED scanVars
  BY <1>11 DEF scanVars, ScanTypeOK
<1> QED
  BY <1>2, <1>3, <1>4, <1>5, <1>6, <1>7, <1>8, <1>9, <1>10, <1>11 DEF ScanNext, ScanStep

\* What SignInSound and the lockout's types leave open.
CodesTyped ==
    /\ spent \subseteq Codes
    /\ throws \in 0..MaxThrows
    /\ \A v \in Verifiers : verifier[v].pc = "spend" => verifier[v].code \in Codes

LEMMA CodesTypes ==
  ASSUME SignInSound, CodesTyped, [MfaMove]_mfaVars  PROVE CodesTyped'
<1>0. verifier \in [Verifiers ->
         [pc : {"idle", "ready", "refused", "done"} \cup Holding,
          at : Challenges \cup {NoChallenge}, code : Codes \cup {WrongCode}]]
  BY DEF SignInSound, SignInTyped
<1>a. ASSUME NEW v \in Verifiers, Ends(v), spent' = spent, throws' \in 0..MaxThrows
      PROVE  CodesTyped'
  BY <1>0, <1>a DEF Ends, Answered, NoVerifier, CodesTyped
<1>b. ASSUME NEW v \in Verifiers, NEW pc, Step(v, pc), pc = "spend" => verifier[v].code \in Codes,
             spent' \subseteq Codes, throws' = throws
      PROVE  CodesTyped'
  BY <1>0, <1>b DEF Step, CodesTyped
<1>1. ASSUME NEW v \in Verifiers, Post(v) \/ StepUp(v)  PROVE CodesTyped'
  BY <1>0, <1>1 DEF Post, StepUp, CodesTyped
<1>2. ASSUME NEW v \in Verifiers, Reserve(v) \/ ReadLock(v)  PROVE CodesTyped'
  BY <1>a, <1>b, <1>2 DEF Reserve, ReadLock, CodesTyped
<1>3. ASSUME NEW v \in Verifiers, ReadCode(v)  PROVE CodesTyped'
  BY <1>b, <1>3 DEF ReadCode, CodesTyped
<1>4. ASSUME NEW v \in Verifiers, SpendCode(v)  PROVE CodesTyped'
  <2>1. spent' \subseteq Codes
    BY <1>4 DEF SpendCode, CodesTyped
  <2> QED
    BY <1>b, <1>4, <2>1 DEF SpendCode
<1>5. ASSUME NEW v \in Verifiers, ClearFailed(v) \/ ClearLevel(v)  PROVE CodesTyped'
  BY <1>b, <1>5 DEF ClearFailed, ClearLevel, CodesTyped
<1>6. ASSUME NEW v \in Verifiers, Redeem(v) \/ Refuse(v)  PROVE CodesTyped'
  BY <1>a, <1>b, <1>6 DEF Redeem, Refuse, CodesTyped
<1>7. ASSUME NEW v \in Verifiers, CountFailure(v) \/ Impose(v)  PROVE CodesTyped'
  BY <1>a, <1>b, <1>7 DEF CountFailure, Impose, CodesTyped
<1>8. ASSUME NEW v \in Verifiers, VerifyThrows(v)  PROVE CodesTyped'
  <2>1. throws' \in 0..MaxThrows
    BY <1>8, MfaAssumption DEF VerifyThrows, CodesTyped
  <2> QED
    BY <1>a, <1>8, <2>1 DEF VerifyThrows
<1>9. ASSUME NEW c \in Challenges, Mint(c) \/ ExpireChallenge(c) \/ Forget(c)
      PROVE  CodesTyped'
  BY <1>9 DEF Mint, ExpireChallenge, Forget, CodesTyped
<1>10. CASE LockPasses \/ UNCHANGED mfaVars
  BY <1>10 DEF LockPasses, mfaVars, CodesTyped
<1>11. CASE LoseMfa
  BY <1>11 DEF LoseMfa, NoVerifier, Answered, CodesTyped
<1> QED
  BY <1>1, <1>2, <1>3, <1>4, <1>5, <1>6, <1>7, <1>8, <1>9, <1>10, <1>11
     DEF MfaMove, MfaStep, Verify

\* What the parts' own invariants do not cover.
RestTyped == IntakeSound /\ GrabSound /\ ScanTypeOK /\ LockoutTyped /\ LockoutEarned /\ CodesTyped
             /\ restarts \in Nat

LEMMA RestStep ==
  ASSUME SignInSound, RestTyped, [ServerNext]_serverVars  PROVE RestTyped'
<1>1. restarts' \in Nat
  <2>1. CASE UNCHANGED restarts
    BY <2>1 DEF RestTyped
  <2>2. CASE Restart
    BY <2>2 DEF RestTyped, Restart
  <2> QED
    BY <2>1, <2>2 DEF ServerNext, InFollowUp, InAgents, InScans, InImports, Webhooks, Access,
                      serverVars
<1>2. ScanTypeOK'
  BY ScanSees, ScanTypes DEF RestTyped
<1>3. CodesTyped' /\ LockoutTyped' /\ LockoutEarned'
  BY MfaSees, CodesTypes, LockoutStep DEF RestTyped
<1>4. IntakeSound' /\ GrabSound'
  BY IntakeSees, IntakeSoundStep, GrabSees, GrabSoundStep DEF RestTyped
<1> QED
  BY <1>1, <1>2, <1>3, <1>4 DEF RestTyped

LEMMA RestInvariant == ServerSpec => []RestTyped
<1>1. ASSUME ServerInit  PROVE RestTyped
  <2>1. PICK w \in Workloads : /\ ScanInit(w.bursts) /\ MfaInit(w.challenges, w.verifiers)
                               /\ restarts = w.restarts /\ w.bursts \in BOOLEAN
                               /\ w.restarts \in Nat
    BY <1>1, ProcessAssumption DEF ServerInit
  <2>2. ScanTypeOK
    BY <2>1 DEF ScanInit, ScanTypeOK
  <2>3. CodesTyped /\ LockoutTyped /\ LockoutEarned
    BY <2>1, MfaAssumption DEF MfaInit, CodesTyped, NoVerifier, Answered, LockoutTyped,
                               LockoutEarned
  <2>4. IntakeSound
    BY <1>1, IntakeAssumption DEF ServerInit, IntakeInit, IntakeSound, IntakeTypeOK,
                                  PayloadSound, HandlersOf, Inside
  <2>5. GrabSound
    BY <1>1 DEF ServerInit, GrabInit, GrabSound, GrabTypeOK, Tickets
  <2> QED
    BY <2>1, <2>2, <2>3, <2>4, <2>5 DEF RestTyped
<1>2. SignInSound /\ RestTyped /\ [ServerNext]_serverVars => RestTyped'
  BY RestStep
<1> QED
  BY <1>1, <1>2, SignInInvariant, PTL DEF ServerSpec

\* The process never leaves its types, with any number of jobs, deliveries, uploads,
\* challenges, admins, requests and restarts: a timer's handle is found whenever one is
\* unused, a scan is put off no more often than it may be, a queue and a pool stay in bounds.
THEOREM ServerTypesCorrect == ServerSpec => []ServerTypeOK
<1>1. /\ JobsSound /\ FollowSound /\ AgentSound /\ ImportHeld
      /\ AccountSound /\ SessionSound /\ SignInSound /\ RestTyped
      => ServerTypeOK
  <2> SUFFICES ASSUME JobsSound, FollowSound, AgentSound, ImportHeld,
                      AccountSound, SessionSound, SignInSound, RestTyped
               PROVE  ServerTypeOK
    OBVIOUS
  <2>1. MfaTypeOK
    BY DEF MfaTypeOK, SignInSound, SignInTyped, Entries, MfaEntry, Holding, RestTyped,
           CodesTyped, LockoutTyped
  <2> QED
    BY <2>1 DEF ServerTypeOK, JobsSound, PoolTidy, FollowSound, AgentSound, ImportHeld,
                ImportTidy, AccountSound, SessionSound, RestTyped, IntakeSound, GrabSound
<1> QED
  BY <1>1, JobsInvariant, FollowInvariant, AgentInvariant, ImportInvariant,
     AccountInvariant, SessionInvariant, SignInInvariant, RestInvariant, PTL
-----------------------------------------------------------------------------
(* No caller of a scan is forgotten (LibraryScan) *)

\* Who waits for a scan waits for one that runs, or for an entry that has a timer set or a
\* queue check under way: whatever timers were put back, replaced or stood down.
CallersHeld ==
    /\ entry # NoEntry => entry.timer \in live \cup checking
    /\ \A c \in Callers : /\ caller[c] = "entry" => entry # NoEntry
                          /\ caller[c] = "scan" => inFlight /\ scans > 0

LEMMA CallersStep ==
  ASSUME ScanTypeOK, ScanSound, CallersHeld, [ScanNext]_scanVars  PROVE CallersHeld'
<1>0. /\ entry # NoEntry => entry \in ScanEntry /\ entry.timer \in Handles
      /\ caller \in [Callers -> {"off", "booked", "ready", "entry", "scan", "served"}]
      /\ scans \in Nat /\ 0 \in 0..MaxRetries
  BY ScanAssumption DEF ScanTypeOK, ScanEntry
<1>a. ASSUME UNCHANGED <<inFlight, scans>>,
             entry' # NoEntry => entry'.timer \in live' \cup checking',
             entry # NoEntry => entry' # NoEntry,
             \A c \in Callers : \/ caller'[c] = caller[c] \/ caller'[c] \notin {"entry", "scan"}
                                \/ caller'[c] = "entry" /\ entry' # NoEntry
                                \/ caller'[c] = "scan" /\ inFlight
      PROVE  CallersHeld'
  BY <1>a DEF CallersHeld, ScanSound
<1>1. ASSUME JoinPending \/ NewEntry, UNCHANGED checking
      PROVE  entry' # NoEntry /\ entry'.timer \in live' \cup checking'
  <2>1. CASE NewEntry
    <3>1. entry' = [timer |-> Handle, retries |-> 0, late |-> FALSE] /\ Handle \in live'
      BY <2>1 DEF NewEntry
    <3>2. Handle \in Handles /\ entry'.timer = Handle
      BY <2>1, <3>1, HandleFound DEF NewEntry
    <3>3. entry' \in ScanEntry
      BY <3>1, <3>2, ScanAssumption DEF ScanEntry
    <3> QED
      BY <3>1, <3>2, <3>3, ScanAssumption
  <2>2. CASE JoinPending /\ entry.late
    BY <1>1, <2>2 DEF JoinPending, CallersHeld
  <2>3. CASE JoinPending /\ ~entry.late
    <3>1. /\ entry' = [entry EXCEPT !.timer = Handle] /\ Handle \in live'
          /\ Handle \in Handles /\ entry \in ScanEntry
      BY <1>0, <2>3, HandleFound DEF JoinPending
    <3>2. entry' \in ScanEntry /\ entry'.timer = Handle
      BY <1>0, <3>1, EntryRenewed
    <3> QED
      BY <3>1, <3>2, ScanAssumption
  <2> QED
    BY <1>1, <2>1, <2>2, <2>3
<1>2. ASSUME NEW c \in Callers, AskScan(c)  PROVE CallersHeld'
  <2>1. UNCHANGED <<checking, inFlight, scans>>
    BY <1>2 DEF AskScan
  <2>2. CASE JoinRunning /\ caller' = [caller EXCEPT ![c] = "scan"]
    BY <1>0, <1>a, <2>1, <2>2 DEF JoinRunning, Running, CallersHeld
  <2>3. CASE (JoinPending \/ NewEntry) /\ caller' = [caller EXCEPT ![c] = "entry"]
    BY <1>0, <1>1, <1>a, <2>1, <2>3
  <2> QED
    BY <1>2, <2>2, <2>3 DEF AskScan
<1>3. CASE Burst
  <2>1. entry' # NoEntry /\ entry'.timer \in live' \cup checking'
    BY <1>1, <1>3 DEF Burst
  <2> QED
    BY <1>3, <1>a, <2>1 DEF Burst
<1>4. CASE Late
  <2>1. /\ entry' = [entry EXCEPT !.late = TRUE]
        /\ entry \in ScanEntry /\ entry.timer \in Handles
    BY <1>0, <1>4 DEF Late
  <2>2. entry' \in ScanEntry /\ entry'.timer = entry.timer
    BY <1>0, <2>1, EntryRenewed
  <2> QED
    BY <1>4, <1>a, <2>2, ScanAssumption DEF Late, CallersHeld
<1>5. CASE EndScan
  BY <1>5 DEF EndScan, CallersHeld
<1>6. ASSUME NEW h \in Handles, TimerFires(h)  PROVE CallersHeld'
  BY <1>6, <1>a DEF TimerFires, CallersHeld
<1>7. ASSUME NEW h \in Handles, StandDown(h)  PROVE CallersHeld'
  BY <1>7, <1>a DEF StandDown, Owns, CallersHeld
<1>8. ASSUME NEW h \in Handles, PutOff(h)  PROVE CallersHeld'
  <2>1. /\ entry \in ScanEntry /\ Handle \in Handles /\ Handle \in live'
        /\ entry.retries + 1 \in 0..MaxRetries
        /\ entry' = [entry EXCEPT !.timer = Handle, !.retries = entry.retries + 1]
    BY <1>0, <1>8, HandleFound, ScanAssumption DEF PutOff, Owns, MayPutOff, ScanEntry
  <2>2. entry' \in ScanEntry /\ entry'.timer = Handle
    BY <1>0, <2>1, EntryRenewed
  <2> QED
    BY <1>8, <1>a, <2>1, <2>2, ScanAssumption DEF PutOff
<1>9. ASSUME NEW h \in Handles, StartScan(h)  PROVE CallersHeld'
  BY <1>0, <1>9 DEF StartScan, CallersHeld
<1>10. CASE LoseScans
  BY <1>10 DEF LoseScans, CallersHeld
<1>11. ASSUME NEW c \in Callers, Book(c) \/ Wake(c),
              UNCHANGED <<entry, live, checking, inFlight, scans, bursts>>
       PROVE  CallersHeld'
  <2>1. \A d \in Callers : caller'[d] = caller[d] \/ caller'[d] \notin {"entry", "scan"}
    BY <1>0, <1>11 DEF Book, Wake
  <2> QED
    BY <1>11, <1>a, <2>1 DEF CallersHeld
<1>12. CASE UNCHANGED scanVars
  BY <1>12 DEF scanVars, CallersHeld
<1> QED
  BY <1>2, <1>3, <1>4, <1>5, <1>6, <1>7, <1>8, <1>9, <1>10, <1>11, <1>12 DEF ScanNext, ScanStep

\* Nobody who waits for a scan is forgotten, although a timer may be replaced while the queue
\* check of an older one is under way, and each check may stand down (lib/library-scan.ts).
THEOREM CallersKept == ServerSpec => []CallersHeld
<1>1. ServerInit => ScanSound /\ CallersHeld
  BY DEF ServerInit, ScanInit, ScanSound, CallersHeld
<1>2. ScanSound /\ [ServerNext]_serverVars => ScanSound'
  BY ScanSees, ScanSoundStep
<1>3. RestTyped /\ ScanSound /\ CallersHeld /\ [ServerNext]_serverVars => CallersHeld'
  BY ScanSees, CallersStep DEF RestTyped
<1> QED
  BY <1>1, <1>2, <1>3, RestInvariant, PTL DEF ServerSpec
=============================================================================
