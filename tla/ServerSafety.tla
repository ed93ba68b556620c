---------------------------- MODULE ServerSafety ----------------------------
(***************************************************************************)
(* Safety of the server process, proved for every value of the constants:  *)
(* any number of requests, deliveries, agents' events, sign-ins, admins    *)
(* and restarts, and any set of workloads.                                 *)
(*                                                                         *)
(* A step of the process is, seen from one of its parts, a step of that    *)
(* part, its share of a restart, or a stutter (ScanSees, GrabSees, ...).   *)
(* Each invariant is then proved of its part alone.                        *)
(***************************************************************************)
EXTENDS ServerProcess, FiniteSetTheorems, TLAPS

-----------------------------------------------------------------------------
(* Library scans *)

\* The process runs LibraryScan: its steps are steps of ScanNext.
LEMMA ScanSees == ASSUME [ServerNext]_serverVars PROVE [ScanNext]_scanVars
<1>1. CASE InFollowUp(FollowUpStep) \/ InAgents(AgentStep) \/ InImports(ImportStep)
           \/ Access \/ UNCHANGED serverVars
  BY <1>1 DEF InFollowUp, InAgents, InImports, Access, serverVars, workVars
<1>2. CASE InScans(ScanStep)
  BY <1>2 DEF InScans, ScanNext
<1>3. CASE Restart
  BY <1>3 DEF Restart, ScanNext
<1>4. CASE Webhooks
  <2>1. CASE Ledger
    BY <2>1 DEF Ledger
  <2>2. ASSUME NEW d \in Deliveries, Serve(d) PROVE [ScanNext]_scanVars
    BY <2>2, ProcessAssumption DEF Serve, ScanNext
  <2> QED
    BY <1>4, <2>1, <2>2 DEF Webhooks
<1> QED
  BY <1>1, <1>2, <1>3, <1>4 DEF ServerNext

\* The scan under way is the one new callers join, and nothing is pending beside it.
ScanSound == \/ inFlight /\ scans = 1 /\ entry = NoEntry
             \/ ~inFlight /\ scans = 0

LEMMA ScanSoundStep == ASSUME ScanSound, [ScanNext]_scanVars PROVE ScanSound'
<1> USE DEF ScanSound
<1>1. ASSUME NEW c \in Callers, AskScan(c) PROVE ScanSound'
  BY <1>1 DEF AskScan, JoinRunning, JoinPending, NewEntry, Running
<1>2. CASE Burst
  BY <1>2 DEF Burst, JoinPending, NewEntry, Running
<1>3. CASE Late \/ EndScan \/ LoseScans
  BY <1>3 DEF Late, EndScan, LoseScans
<1>4. ASSUME NEW h \in Handles, TimerFires(h) \/ StandDown(h) PROVE ScanSound'
  BY <1>4 DEF TimerFires, StandDown
<1>5. ASSUME NEW h \in Handles, PutOff(h) \/ StartScan(h) PROVE ScanSound'
  BY <1>5 DEF PutOff, StartScan, Owns
<1>6. CASE UNCHANGED <<entry, live, checking, inFlight, scans, bursts>> \/ UNCHANGED scanVars
  BY <1>6 DEF scanVars
<1> QED
  BY <1>1, <1>2, <1>3, <1>4, <1>5, <1>6 DEF ScanNext, ScanStep

\* One scan of a media type runs at a time, whatever timers are armed during the queue
\* checks (lib/library-scan.ts): the entry is taken in the step that starts the scan.
THEOREM OneScanSafe == ServerSpec => []OneScan
<1>1. ServerInit => ScanSound
  BY DEF ServerInit, ScanInit, ScanSound
<1>2. ScanSound /\ [ServerNext]_serverVars => ScanSound'
  BY ScanSees, ScanSoundStep
<1>3. ScanSound => OneScan
  BY DEF ScanSound, OneScan
<1> QED
  BY <1>1, <1>2, <1>3, PTL DEF ServerSpec

-----------------------------------------------------------------------------
(* Deliveries *)

\* A delivery's steps on the ledger, the reaping, and the end of a day or of the process.
IntakeMove ==
    \/ Reap \/ LosePosts \/ \E p \in Payloads : ExpireRecord(p)
    \/ \E d \in Deliveries : \/ Record(d) \/ Renew(d) \/ Flip(d)
                             \/ Answer(d) \/ Throw(d) \/ Undo(d)

LEMMA IntakeSees == ASSUME [ServerNext]_serverVars PROVE [IntakeMove]_intakeVars
<1>1. CASE \/ InFollowUp(FollowUpStep) \/ InAgents(AgentStep) \/ InScans(ScanStep)
           \/ InImports(ImportStep) \/ Access \/ UNCHANGED serverVars
  BY <1>1 DEF InFollowUp, InAgents, InScans, InImports, Access, serverVars, workVars
<1>2. CASE Restart
  BY <1>2 DEF Restart, IntakeMove
<1>3. CASE Webhooks
  <2>1. CASE Ledger
    BY <2>1 DEF Ledger, IntakeMove
  <2>2. ASSUME NEW d \in Deliveries, Serve(d) PROVE [IntakeMove]_intakeVars
    BY <2>2 DEF Serve, IntakeMove
  <2> QED
    BY <1>3, <2>1, <2>2 DEF Webhooks
<1> QED
  BY <1>1, <1>2, <1>3 DEF ServerNext

\* A payload that is recorded has been handled, or is being handled by one delivery.
PayloadSound(p) ==
    /\ handled[p] \in {0, 1}
    /\ \A d, e \in HandlersOf(p) : d = e /\ handled[p] = 0
    /\ ledger[p] # "live" => handled[p] = 0 /\ HandlersOf(p) = {}

IntakeSound == IntakeTypeOK /\ \A p \in Payloads : PayloadSound(p)

LEMMA IntakeTypes == ASSUME IntakeTypeOK, [IntakeMove]_intakeVars PROVE IntakeTypeOK'
<1> USE IntakeAssumption DEF IntakeTypeOK, Inside, Goes
<1>1. CASE Reap \/ LosePosts
  BY <1>1 DEF Reap, LosePosts
<1>2. ASSUME NEW p \in Payloads, ExpireRecord(p) PROVE IntakeTypeOK'
  BY <1>2 DEF ExpireRecord
<1>3. ASSUME NEW d \in Deliveries, Record(d) \/ Renew(d) PROVE IntakeTypeOK'
  BY <1>3 DEF Record, Renew
<1>4. ASSUME NEW d \in Deliveries, Flip(d) \/ Answer(d) \/ Throw(d) \/ Undo(d)
      PROVE  IntakeTypeOK'
  BY <1>4 DEF Flip, Answer, Throw, Undo, Withdraw
<1>5. CASE UNCHANGED intakeVars
  BY <1>5 DEF intakeVars
<1> QED
  BY <1>1, <1>2, <1>3, <1>4, <1>5 DEF IntakeMove

LEMMA IntakeSoundStep == ASSUME IntakeSound, [IntakeMove]_intakeVars PROVE IntakeSound'
<1>1. IntakeTypeOK /\ IntakeTypeOK'
  BY IntakeTypes DEF IntakeSound
<1> SUFFICES ASSUME NEW q \in Payloads PROVE PayloadSound(q)'
  BY <1>1 DEF IntakeSound
<1>2. PayloadSound(q)
  BY DEF IntakeSound
<1> USE <1>1, <1>2, IntakeAssumption DEF PayloadSound, HandlersOf, IntakeTypeOK, Inside, Goes
<1>3. CASE Reap \/ LosePosts
  BY <1>3 DEF Reap, LosePosts
<1>4. ASSUME NEW p \in Payloads, ExpireRecord(p) PROVE PayloadSound(q)'
  BY <1>4 DEF ExpireRecord
<1>5. ASSUME NEW d \in Deliveries, Record(d) PROVE PayloadSound(q)'
  BY <1>5 DEF Record
<1>6. ASSUME NEW d \in Deliveries, Renew(d) PROVE PayloadSound(q)'
  BY <1>6 DEF Renew, Renewable
<1>7. ASSUME NEW d \in Deliveries, Flip(d) \/ Throw(d) PROVE PayloadSound(q)'
  BY <1>7 DEF Flip, Throw
<1>8. ASSUME NEW d \in Deliveries, Answer(d) \/ Undo(d) PROVE PayloadSound(q)'
  BY <1>8 DEF Answer, Undo, Withdraw
<1>9. CASE UNCHANGED intakeVars
  BY <1>9 DEF intakeVars
<1> QED
  BY <1>3, <1>4, <1>5, <1>6, <1>7, <1>8, <1>9 DEF IntakeMove

\* Any number of deliveries of one payload: it is handled once between two records of it,
\* and by one of them at a time (lib/webhook-replay.ts).
THEOREM HandledOnceSafe == ServerSpec => []HandledOnce
<1>1. ServerInit => IntakeSound
  BY IntakeAssumption DEF ServerInit, IntakeInit, IntakeSound, IntakeTypeOK, PayloadSound,
                          HandlersOf, Inside
<1>2. IntakeSound /\ [ServerNext]_serverVars => IntakeSound'
  BY IntakeSees, IntakeSoundStep
<1>3. IntakeSound => HandledOnce
  BY DEF IntakeSound, PayloadSound, HandledOnce
<1> QED
  BY <1>1, <1>2, <1>3, PTL DEF ServerSpec

-----------------------------------------------------------------------------
(* The grab of an issue *)

GrabMove == ResolveIssue \/ LoseCarriers \/ \E d \in Deliveries : GrabStep(d)

LEMMA GrabSees == ASSUME [ServerNext]_serverVars PROVE [GrabMove]_grabVars
<1>1. CASE \/ InFollowUp(FollowUpStep) \/ InAgents(AgentStep) \/ InScans(ScanStep)
           \/ InImports(ImportStep) \/ Access \/ UNCHANGED serverVars
  BY <1>1 DEF InFollowUp, InAgents, InScans, InImports, Access, serverVars, workVars
<1>2. CASE Restart
  BY <1>2 DEF Restart, GrabMove
<1>3. CASE Webhooks
  <2>1. CASE Ledger
    BY <2>1 DEF Ledger, GrabMove
  <2>2. ASSUME NEW d \in Deliveries, Serve(d) PROVE [GrabMove]_grabVars
    BY <2>2 DEF Serve, GrabMove, AtGrab
  <2> QED
    BY <1>3, <2>1, <2>2 DEF Webhooks
<1> QED
  BY <1>1, <1>2, <1>3 DEF ServerNext

\* The right to push to the admin is a ticket: a handler's, or the retry marker.
Tickets == {d \in Deliveries : carrier[d] \in {"push", "mark"}}

GrabSound ==
    /\ GrabTypeOK
    /\ \A d, e \in Tickets : d = e
    /\ Tickets # {} => grab.notified /\ ~grab.retry /\ grab.pushed = 0
    /\ grab.retry => grab.notified /\ grab.pushed = 0
    /\ grab.emitted <= 1 /\ grab.pushed <= 1
    /\ grab.emitted = 1 \/ grab.pushed = 1 => grab.notified

LEMMA GrabSoundStep == ASSUME GrabSound, [GrabMove]_grabVars PROVE GrabSound'
<1> USE DEF GrabSound, GrabTypeOK, Tickets, Carry
<1>1. CASE ResolveIssue \/ LoseCarriers
  BY <1>1 DEF ResolveIssue, LoseCarriers
<1>2. ASSUME NEW d \in Deliveries, ReadGrab(d) PROVE GrabSound'
  BY <1>2 DEF ReadGrab
<1>3. ASSUME NEW d \in Deliveries, ClaimGrab(d) PROVE GrabSound'
  <2>1. CASE grab.notified
    BY <1>3, <2>1 DEF ClaimGrab, GrabClaimable
  <2>2. CASE ~grab.notified
    <3>1. Tickets = {} /\ grab.emitted = 0 /\ grab.pushed = 0 /\ ~grab.retry
      BY <2>2
    <3>2. grab' = [grab EXCEPT !.notified = TRUE, !.emitted = @ + 1]
      BY <1>3, <2>2, Zenon DEF ClaimGrab, GrabClaimable
    <3>3. carrier' = [carrier EXCEPT ![d] = "push"] /\ issue' \in {"closing", issue}
      BY <1>3, <2>2 DEF ClaimGrab, GrabClaimable
    <3>4. Tickets' = {d}
      BY <3>1, <3>3
    <3>5. /\ grab' \in [notified : BOOLEAN, retry : BOOLEAN, emitted : Nat, pushed : Nat]
          /\ grab'.notified = TRUE /\ grab'.retry = grab.retry
          /\ grab'.emitted = grab.emitted + 1 /\ grab'.pushed = grab.pushed
      <4> DEFINE claimed == [grab EXCEPT !.notified = TRUE]
      <4>1. /\ claimed \in [notified : BOOLEAN, retry : BOOLEAN, emitted : Nat, pushed : Nat]
            /\ claimed.notified = TRUE /\ claimed.retry = grab.retry
            /\ claimed.emitted = grab.emitted /\ claimed.pushed = grab.pushed
        OBVIOUS
      <4>2. grab' = [claimed EXCEPT !.emitted = grab.emitted + 1]
        BY <3>2
      <4>3. grab.emitted + 1 \in Nat
        OBVIOUS
      <4> HIDE DEF claimed
      <4> QED
        BY <4>1, <4>2, <4>3
    <3>6. GrabTypeOK'
      BY <3>3, <3>5
    <3> QED
      BY <3>1, <3>4, <3>5, <3>6
  <2> QED
    BY <2>1, <2>2
<1>4. ASSUME NEW d \in Deliveries, TakeRetry(d) PROVE GrabSound'
  BY <1>4 DEF TakeRetry
<1>5. ASSUME NEW d \in Deliveries, PushGrab(d) PROVE GrabSound'
  BY <1>5 DEF PushGrab
<1>6. ASSUME NEW d \in Deliveries, MarkRetry(d) PROVE GrabSound'
  BY <1>6 DEF MarkRetry
<1>7. CASE UNCHANGED grabVars
  BY <1>7 DEF grabVars
<1> QED
  BY <1>1, <1>2, <1>3, <1>4, <1>5, <1>6, <1>7 DEF GrabMove, GrabStep

\* One event and one push for a grab, for any number of deliveries that find it
\* pending or marked (the claim and the retry marker of the Download handlers).
THEOREM GrabToldOnceSafe == ServerSpec => []GrabToldOnce
<1>1. ServerInit => GrabSound
  BY DEF ServerInit, GrabInit, GrabSound, GrabTypeOK, Tickets
<1>2. GrabSound /\ [ServerNext]_serverVars => GrabSound'
  BY GrabSees, GrabSoundStep
<1>3. GrabSound => GrabToldOnce
  BY DEF GrabSound, GrabToldOnce
<1> QED
  BY <1>1, <1>2, <1>3, PTL DEF ServerSpec

-----------------------------------------------------------------------------
(* The second step of a sign-in *)

MfaMove == MfaStep \/ LoseMfa

LEMMA MfaSees == ASSUME [ServerNext]_serverVars PROVE [MfaMove]_mfaVars
<1>1. CASE \/ InFollowUp(FollowUpStep) \/ InAgents(AgentStep) \/ InScans(ScanStep)
           \/ InImports(ImportStep) \/ Webhooks \/ UNCHANGED serverVars
  BY <1>1 DEF InFollowUp, InAgents, InScans, InImports, Webhooks, accessVars, serverVars
<1>2. CASE Access
  BY <1>2 DEF Access, MfaMove
<1>3. CASE Restart
  BY <1>3 DEF Restart, MfaMove
<1> QED
  BY <1>1, <1>2, <1>3 DEF ServerNext

LockoutTyped ==
    /\ lockout \in [failed : Nat, level : Nat, until : {"none", "ahead", "past", "longPast"}]
    /\ wrong \in Nat

\* A lockout costs the failures that earned it: what is charged is at most what was wrong.
LEMMA LockoutStep ==
  ASSUME LockoutTyped, LockoutEarned, [MfaMove]_mfaVars
  PROVE  LockoutTyped' /\ LockoutEarned'
<1> USE MfaAssumption DEF LockoutTyped, LockoutEarned
<1>1. CASE UNCHANGED <<lockout, wrong>>
  BY <1>1
<1>2. ASSUME NEW v \in Verifiers, ClearFailed(v)
      PROVE  LockoutTyped' /\ LockoutEarned'
  <2>1. /\ lockout' = [lockout EXCEPT !.failed = 0] /\ wrong' = wrong
    BY <1>2 DEF ClearFailed
  <2> QED
    BY <2>1
<1>3. ASSUME NEW v \in Verifiers, ClearLevel(v)
      PROVE  LockoutTyped' /\ LockoutEarned'
  <2>1. CASE lockout' = lockout
    BY <1>3, <2>1 DEF ClearLevel
  <2>2. CASE lockout' = [lockout EXCEPT !.level = 0, !.until = "none"]
    <3>1. /\ lockout' \in [failed : Nat, level : Nat,
                           until : {"none", "ahead", "past", "longPast"}]
          /\ lockout'.failed = lockout.failed /\ lockout'.level = 0
      BY <2>2
    <3>2. lockout.level * LockThreshold \in Nat /\ 0 * LockThreshold = 0
      OBVIOUS
    <3> QED
      BY <1>3, <3>1, <3>2 DEF ClearLevel
  <2> QED
    BY <1>3, <2>1, <2>2 DEF ClearLevel
<1>4. ASSUME NEW v \in Verifiers, CountFailure(v)
      PROVE  LockoutTyped' /\ LockoutEarned'
  <2>1. /\ lockout' = [lockout EXCEPT !.failed = lockout.failed + 1] /\ wrong' = wrong + 1
    BY <1>4 DEF CountFailure
  <2>2. lockout.level * LockThreshold \in Nat
    OBVIOUS
  <2> QED
    BY <2>1, <2>2
<1>5. ASSUME NEW v \in Verifiers, Impose(v)
      PROVE  LockoutTyped' /\ LockoutEarned'
  <2>1. CASE ~Imposable
    BY <1>5, <2>1 DEF Impose
  <2>2. CASE Imposable
    <3>1. /\ lockout' = [failed |-> 0, level |-> lockout.level + 1, until |-> "ahead"]
          /\ wrong' = wrong /\ lockout.failed >= LockThreshold
      BY <1>5, <2>2 DEF Impose, Imposable
    <3>2. (lockout.level + 1) * LockThreshold = lockout.level * LockThreshold + LockThreshold
      OBVIOUS
    <3>3. lockout.level * LockThreshold \in Nat
      OBVIOUS
    <3> QED
      BY <3>1, <3>2, <3>3
  <2> QED
    BY <2>1, <2>2
<1>6. CASE LockPasses
  <2>1. PICK t \in {"past", "longPast"} : lockout' = [lockout EXCEPT !.until = t]
    BY <1>6 DEF LockPasses
  <2> QED
    BY <1>6, <2>1 DEF LockPasses
<1>7. ASSUME NEW v \in Verifiers,
             \/ Post(v) \/ StepUp(v) \/ Reserve(v) \/ ReadLock(v) \/ ReadCode(v)
             \/ SpendCode(v) \/ Redeem(v) \/ Refuse(v) \/ VerifyThrows(v)
      PROVE  UNCHANGED <<lockout, wrong>>
  BY <1>7 DEF Post, StepUp, Reserve, ReadLock, ReadCode, SpendCode, Redeem, Refuse,
              VerifyThrows
<1>8. ASSUME NEW c \in Challenges, Mint(c) \/ ExpireChallenge(c) \/ Forget(c)
      PROVE  UNCHANGED <<lockout, wrong>>
  BY <1>8 DEF Mint, ExpireChallenge, Forget
<1>9. CASE LoseMfa \/ UNCHANGED mfaVars
  BY <1>9 DEF LoseMfa, mfaVars
<1> QED
  BY <1>1, <1>2, <1>3, <1>4, <1>5, <1>6, <1>7, <1>8, <1>9 DEF MfaMove, MfaStep, Verify

\* No lockout and no escalation without the wrong codes it takes, for any number of
\* handlers counting and imposing at once (lib/mfa/lockout.ts).
THEOREM LockoutEarnedSafe == ServerSpec => []LockoutEarned
<1>1. ServerInit => LockoutTyped /\ LockoutEarned
  BY MfaAssumption DEF ServerInit, MfaInit, LockoutTyped, LockoutEarned
<1>2. LockoutTyped /\ LockoutEarned /\ [ServerNext]_serverVars
        => LockoutTyped' /\ LockoutEarned'
  BY MfaSees, LockoutStep
<1> QED
  BY <1>1, <1>2, PTL DEF ServerSpec

MfaEntry == [born : Nat, expired : BOOLEAN, failures : Nat, consumed : BOOLEAN,
             inFlight : BOOLEAN, sessions : Nat, burned : Nat, thrown : Nat]

\* What the challenge c of old and of new have in common but for the fields of F.
Alike(old, new, c, F) ==
    /\ "inFlight" \notin F => new[c].inFlight = old[c].inFlight
    /\ "consumed" \notin F => new[c].consumed = old[c].consumed
    /\ "sessions" \notin F => new[c].sessions = old[c].sessions
    /\ "burned" \notin F   => new[c].burned = old[c].burned
    /\ "thrown" \notin F   => new[c].thrown = old[c].thrown
    /\ "expired" \notin F  => new[c].expired = old[c].expired
    /\ "born" \notin F     => new[c].born = old[c].born

Entries == [Challenges -> MfaEntry]

\* releaseToken touches one challenge, and only if the ledger still knows it.
LEMMA ReleasedAlike ==
  ASSUME challenge \in Entries, NEW c \in Challenges \cup {NoChallenge}, NEW failed \in BOOLEAN
  PROVE  /\ Released(c, failed) \in Entries
         /\ \A d \in Challenges : Alike(challenge, Released(c, failed), d,
                                        IF d = c THEN {"inFlight"} ELSE {})
         /\ c \in minted /\ c # NoChallenge => Released(c, failed)[c].inFlight = FALSE
         /\ c \notin minted => Released(c, failed) = challenge
<1>1. CASE c = NoChallenge \/ c \notin minted
  <2>1. Released(c, failed) = challenge
    BY <1>1 DEF Released, InLedger
  <2>2. c \in minted => c = NoChallenge
    BY <1>1
  <2>3. \A d \in Challenges, F \in {{"inFlight"}, {}} : Alike(challenge, challenge, d, F)
    BY DEF Alike
  <2> QED
    BY <2>1, <2>2, <2>3
<1>2. CASE c \in Challenges /\ c # NoChallenge /\ c \in minted
  <2> DEFINE n == IF failed THEN challenge[c].failures + 1 ELSE challenge[c].failures
             free == [challenge[c] EXCEPT !.inFlight = FALSE]
             after == [free EXCEPT !.failures = n]
  <2>1. n \in Nat /\ challenge[c] \in MfaEntry
    BY <1>2 DEF Entries, MfaEntry
  <2>2. /\ free \in MfaEntry /\ free.inFlight = FALSE
        /\ free.failures = challenge[c].failures
        /\ free.consumed = challenge[c].consumed /\ free.sessions = challenge[c].sessions
        /\ free.burned = challenge[c].burned /\ free.thrown = challenge[c].thrown
        /\ free.expired = challenge[c].expired /\ free.born = challenge[c].born
    BY <2>1 DEF MfaEntry
  <2>3. Released(c, failed) = [challenge EXCEPT ![c] = after]
    BY <1>2, <2>2 DEF Released, InLedger, Entries
  <2> HIDE DEF n, free
  <2>4. /\ after \in MfaEntry /\ after.inFlight = FALSE
        /\ after.consumed = free.consumed /\ after.sessions = free.sessions
        /\ after.burned = free.burned /\ after.thrown = free.thrown
        /\ after.expired = free.expired /\ after.born = free.born
    BY <2>1, <2>2 DEF MfaEntry
  <2> HIDE DEF after
  <2>5. Released(c, failed) \in Entries /\ Released(c, failed)[c] = after
    BY <1>2, <2>3, <2>4 DEF Entries
  <2>6. \A d \in Challenges : d # c => Released(c, failed)[d] = challenge[d]
    BY <2>3 DEF Entries
  <2> QED
    BY <1>2, <2>2, <2>4, <2>5, <2>6 DEF Alike
<1> QED
  BY <1>1, <1>2

\* reserveToken touches one challenge.
LEMMA EntryReserved ==
  ASSUME NEW old \in Entries, NEW c \in Challenges,
         NEW new, new = [old EXCEPT ![c].inFlight = TRUE]
  PROVE  /\ new \in Entries /\ new[c].inFlight = TRUE
         /\ \A d \in Challenges : Alike(old, new, d, IF d = c THEN {"inFlight"} ELSE {})
  BY DEF Entries, MfaEntry, Alike

Holding == {"lock", "read", "spend", "won", "cleared", "redeem", "failed", "impose"}
Paid    == {"won", "cleared", "redeem"}

\* The handlers that have reserved c.
Holders(c) == {v \in Verifiers : verifier[v].at = c /\ verifier[v].pc \in Holding}

SignInTyped ==
    /\ minted \subseteq Challenges
    /\ challenge \in Entries
    /\ verifier \in [Verifiers ->
         [pc : {"idle", "ready", "refused", "done"} \cup Holding,
          at : Challenges \cup {NoChallenge}, code : Codes \cup {WrongCode}]]
    /\ \A v \in Verifiers : verifier[v].pc = "ready" => verifier[v].at # NoChallenge
    /\ \A v \in Verifiers : verifier[v].pc = "refused" =>
                              verifier[v].at # NoChallenge /\ challenge[verifier[v].at].expired

\* One handler at most has reserved a challenge.  Only time takes the challenge out of the
\* ledger under it.  Codes are spent by that handler, who then redeems the challenge,
\* throws, or finds it expired.
ChallengeSound(c) ==
    LET e == challenge[c] IN
    /\ e.born = 0 => c \notin minted /\ Holders(c) = {} /\ e.sessions = 0 /\ e.burned = 0
    /\ \A v, w \in Holders(c) : v = w
    /\ \A v \in Holders(c) : /\ c \in minted \/ e.expired
                             /\ c \in minted => e.inFlight
                             /\ e.sessions = 0
                             /\ verifier[v].pc \notin Paid => e.burned <= e.thrown
    /\ /\ c \in minted /\ ~e.consumed
       /\ \A v \in Holders(c) : verifier[v].pc \notin Paid
       => e.sessions = 0 /\ e.burned <= e.thrown
    /\ e.sessions <= 1 /\ e.burned <= 1 + e.thrown

SignInSound == SignInTyped /\ \A c \in Challenges : ChallengeSound(c)

\* A step that changes no challenge and moves one handler between states that hold it.
LEMMA SignInQuiet ==
  ASSUME SignInSound, NEW v \in Verifiers,
         \/ Post(v) \/ StepUp(v) \/ ReadCode(v) \/ ClearFailed(v) \/ ClearLevel(v)
         \/ Refuse(v)
  PROVE  SignInSound'
<1> USE MfaAssumption DEF SignInSound, SignInTyped, Step, Ends, Answered, NoVerifier, Holding, Paid, ChallengeSound, Holders
<1>1. CASE Post(v)
  BY <1>1 DEF Post, Usable, InLedger
<1>2. CASE StepUp(v)
  BY <1>2 DEF StepUp
<1>3. CASE ReadCode(v)
  BY <1>3 DEF ReadCode
<1>4. CASE ClearFailed(v) \/ ClearLevel(v)
  BY <1>4 DEF ClearFailed, ClearLevel
<1>5. CASE Refuse(v)
  BY <1>5 DEF Refuse
<1> QED
  BY <1>1, <1>2, <1>3, <1>4, <1>5

\* A handler that gives its challenge back before it has spent a code.
LEMMA SignInReleases ==
  ASSUME SignInSound, NEW v \in Verifiers, NEW failed \in BOOLEAN,
         verifier[v].pc \in Holding \ Paid,
         challenge' = Released(verifier[v].at, failed), Ends(v), minted' = minted
  PROVE  SignInSound'
<1> DEFINE c == verifier[v].at
<1>1. c \in Challenges \cup {NoChallenge} /\ challenge \in Entries
  BY DEF SignInSound, SignInTyped
<1>2. /\ challenge' \in Entries
      /\ \A d \in Challenges : Alike(challenge, challenge', d, IF d = c THEN {"inFlight"} ELSE {})
      /\ c \notin minted => challenge' = challenge
  BY <1>1, ReleasedAlike
<1>3. SignInTyped'
  BY <1>2 DEF SignInSound, SignInTyped, Ends, Answered, NoVerifier, Alike
<1>4. ASSUME NEW d \in Challenges PROVE ChallengeSound(d)'
  <2>1. Alike(challenge, challenge', d, IF d = c THEN {"inFlight"} ELSE {})
    BY <1>2
  <2>2. Holders(d)' = Holders(d) \ {v}
    BY DEF SignInSound, SignInTyped, Holders, Ends, Answered, NoVerifier, Holding
  <2>3. \A w \in Holders(d)' : verifier'[w].pc = verifier[w].pc
    BY <2>2 DEF SignInSound, SignInTyped, Ends, Holders
  <2>4. d = c => v \in Holders(d)
    BY DEF Holders
  <2>5. ChallengeSound(d)
    BY DEF SignInSound
  <2>6. CASE d = c
    BY <2>1, <2>2, <2>3, <2>4, <2>5, <2>6 DEF ChallengeSound, Alike, Paid
  <2>7. CASE d # c
    <3>1. Holders(d)' = Holders(d)
      BY <2>2, <2>7 DEF Holders
    <3> QED
      BY <2>1, <2>3, <2>5, <2>7, <3>1 DEF ChallengeSound, Alike
  <2> QED
    BY <2>6, <2>7
<1> QED
  BY <1>3, <1>4 DEF SignInSound

LEMMA SignInReserves ==
  ASSUME SignInSound, NEW v \in Verifiers, Reserve(v)
  PROVE  SignInSound'
<1>0. PICK c \in Challenges : c = verifier[v].at
  BY DEF SignInSound, SignInTyped, Reserve
<1>1. c = verifier[v].at /\ challenge \in Entries /\ verifier[v].pc = "ready"
  BY <1>0 DEF SignInSound, SignInTyped, Reserve
<1>2. CASE ~Reservable(c)
  BY <1>1, <1>2 DEF Reserve, SignInSound, SignInTyped, Ends, Answered, NoVerifier, Holding,
                    Paid, ChallengeSound, Holders
<1>3. CASE Reservable(c)
  <2>1. /\ c \in minted /\ ~challenge[c].consumed /\ ~challenge[c].inFlight
        /\ challenge' = [challenge EXCEPT ![c].inFlight = TRUE] /\ Step(v, "lock")
        /\ minted' = minted
    BY <1>1, <1>3 DEF Reserve, Reservable, Usable, InLedger
  <2>2. /\ challenge' \in Entries /\ challenge'[c].inFlight = TRUE
        /\ \A d \in Challenges : Alike(challenge, challenge', d,
                                       IF d = c THEN {"inFlight"} ELSE {})
    BY <1>1, <2>1, EntryReserved
  <2>3. SignInTyped'
    BY <2>1, <2>2 DEF SignInSound, SignInTyped, Step, Holding, Alike
  <2>4. ASSUME NEW d \in Challenges PROVE ChallengeSound(d)'
    <3>1. Alike(challenge, challenge', d, IF d = c THEN {"inFlight"} ELSE {})
      BY <2>2
    <3>2. ChallengeSound(d)
      BY DEF SignInSound
    <3>3. CASE d = c
      <4>1. Holders(c) = {}
        BY <2>1, <3>2, <3>3 DEF ChallengeSound
      <4>2. Holders(c)' = {v} /\ verifier'[v].pc = "lock"
        BY <1>1, <2>1, <4>1 DEF SignInSound, SignInTyped, Holders, Step, Holding
      <4>3. /\ challenge'[d].born = challenge[d].born /\ challenge[d].born # 0
            /\ challenge'[d].sessions = 0 /\ challenge'[d].burned <= challenge'[d].thrown
            /\ challenge'[d].burned <= 1 + challenge'[d].thrown
            /\ challenge'[d].inFlight /\ d \in minted'
        BY <2>1, <2>2, <3>1, <3>2, <3>3, <4>1 DEF ChallengeSound, Alike
      <4> QED
        BY <3>3, <4>2, <4>3 DEF ChallengeSound
    <3>4. CASE d # c
      <4>1. Holders(d)' = Holders(d) /\ \A w \in Holders(d) : verifier'[w].pc = verifier[w].pc
        BY <1>1, <2>1, <3>4 DEF SignInSound, SignInTyped, Holders, Step
      <4> QED
        BY <2>1, <3>1, <3>2, <3>4, <4>1 DEF ChallengeSound, Alike
    <3> QED
      BY <3>3, <3>4
  <2> QED
    BY <2>3, <2>4 DEF SignInSound
<1> QED
  BY <1>2, <1>3

LEMMA SignInSpends ==
  ASSUME SignInSound, NEW v \in Verifiers, SpendCode(v)
  PROVE  SignInSound'
<1>1. verifier[v].at \in Challenges \cup {NoChallenge} /\ challenge \in Entries
  BY DEF SignInSound, SignInTyped
<1>2. CASE challenge' = challenge
  BY <1>2, MfaAssumption DEF SpendCode, SignInSound, SignInTyped, Step, Holding, Paid,
                    ChallengeSound, Holders
<1>3. CASE challenge' # challenge
  <2>0. PICK c \in Challenges : c = verifier[v].at
    BY <1>1, <1>3 DEF SpendCode
  <2>1. /\ c = verifier[v].at /\ verifier[v].pc = "spend"
        /\ challenge' = [challenge EXCEPT ![c].burned = challenge[c].burned + 1]
        /\ Step(v, "won") /\ minted' = minted
    BY <1>1, <1>3, <2>0 DEF SpendCode
  <2>2. challenge[c].burned + 1 \in Nat
    BY <1>1, <2>1 DEF Entries, MfaEntry
  <2>3. /\ challenge' \in Entries /\ challenge'[c].burned = challenge[c].burned + 1
        /\ \A d \in Challenges : Alike(challenge, challenge', d,
                                       IF d = c THEN {"burned"} ELSE {})
    BY <1>1, <2>1, <2>2 DEF Entries, MfaEntry, Alike
  <2>4. SignInTyped'
    BY <2>1, <2>3 DEF SignInSound, SignInTyped, Step, Holding, Alike
  <2>5. ASSUME NEW d \in Challenges PROVE ChallengeSound(d)'
    <3>1. Alike(challenge, challenge', d, IF d = c THEN {"burned"} ELSE {})
      BY <2>3
    <3>2. ChallengeSound(d)
      BY DEF SignInSound
    <3>3. Holders(d)' = Holders(d)
      BY <2>1 DEF SignInSound, SignInTyped, Holders, Step, Holding
    <3>4. CASE d = c
      <4>1. v \in Holders(c) /\ Holders(c) = {v} /\ verifier'[v].pc = "won"
        BY <2>1, <3>2, <3>4 DEF ChallengeSound, Holders, Holding, Step, SignInSound, SignInTyped
      <4>2. /\ challenge[c].burned <= challenge[c].thrown
            /\ challenge[c].thrown \in Nat /\ challenge[c].burned \in Nat
        BY <1>1, <2>1, <3>2, <3>4, <4>1 DEF ChallengeSound, Paid, Entries, MfaEntry
      <4>3. /\ challenge'[d].born = challenge[d].born /\ challenge[d].born # 0
            /\ challenge'[d].sessions = 0 /\ challenge'[d].burned <= 1 + challenge'[d].thrown
            /\ d \in minted' => challenge'[d].inFlight
            /\ d \in minted' \/ challenge'[d].expired
        <5>1. /\ challenge[d].born # 0 /\ challenge[d].sessions = 0
              /\ d \in minted => challenge[d].inFlight
              /\ d \in minted \/ challenge[d].expired
          BY <3>2, <3>4, <4>1 DEF ChallengeSound
        <5>2. /\ challenge'[d].born = challenge[d].born
              /\ challenge'[d].sessions = challenge[d].sessions
              /\ challenge'[d].thrown = challenge[d].thrown
              /\ challenge'[d].inFlight = challenge[d].inFlight
              /\ challenge'[d].expired = challenge[d].expired
          BY <3>1, <3>4 DEF Alike
        <5>3. challenge'[d].burned <= 1 + challenge'[d].thrown
          BY <2>3, <3>4, <4>2, <5>2
        <5> QED
          BY <2>1, <5>1, <5>2, <5>3, Zenon
      <4> QED
        BY <3>3, <3>4, <4>1, <4>3 DEF ChallengeSound, Paid
    <3>5. CASE d # c
      <4>1. \A w \in Holders(d) : verifier'[w].pc = verifier[w].pc
        BY <2>1, <3>5 DEF SignInSound, SignInTyped, Holders, Step
      <4> QED
        BY <2>1, <3>1, <3>2, <3>3, <3>5, <4>1 DEF ChallengeSound, Alike
    <3> QED
      BY <3>4, <3>5
  <2> QED
    BY <2>4, <2>5 DEF SignInSound
<1> QED
  BY <1>2, <1>3

LEMMA SignInRedeems ==
  ASSUME SignInSound, NEW v \in Verifiers, Redeem(v)
  PROVE  SignInSound'
<1>1. verifier[v].at \in Challenges \cup {NoChallenge} /\ challenge \in Entries
  BY DEF SignInSound, SignInTyped
<1>2. CASE verifier[v].at = NoChallenge
  BY <1>2, MfaAssumption DEF Redeem, SignInSound, SignInTyped, Ends, Answered, NoVerifier,
                             Holding, Paid, ChallengeSound, Holders
<1>3. CASE verifier[v].at # NoChallenge
  <2>1. PICK c \in Challenges : c = verifier[v].at
    BY <1>1, <1>3
  <2>2. v \in Holders(c) /\ ChallengeSound(c) /\ verifier[v].pc = "redeem" /\ minted' = minted
    BY <2>1 DEF SignInSound, Holders, Redeem, Holding
  <2>3. Holders(c) = {v}
    BY <2>2 DEF ChallengeSound
  <2>4. CASE c \in minted /\ challenge[c].inFlight
    <3>1. /\ challenge' = [challenge EXCEPT ![c].inFlight = FALSE, ![c].consumed = TRUE,
                                            ![c].sessions = challenge[c].sessions + 1]
          /\ Ends(v)
      BY <1>3, <2>1, <2>4 DEF Redeem, InLedger
    <3>2. challenge[c].sessions + 1 \in Nat /\ challenge[c].sessions = 0
      BY <1>1, <2>2 DEF Entries, MfaEntry, ChallengeSound
    <3>3. /\ challenge' \in Entries /\ challenge'[c].sessions = 1 /\ challenge'[c].consumed
          /\ \A d \in Challenges : Alike(challenge, challenge', d,
               IF d = c THEN {"inFlight", "consumed", "sessions"} ELSE {})
      BY <1>1, <3>1, <3>2 DEF Entries, MfaEntry, Alike
    <3>4. SignInTyped'
      <4>1. \A d \in Challenges : challenge'[d].expired = challenge[d].expired
        BY <3>3 DEF Alike
      <4> QED
        BY <2>2, <3>1, <3>3, <4>1 DEF SignInSound, SignInTyped, Ends, Answered, NoVerifier
    <3>5. ASSUME NEW d \in Challenges PROVE ChallengeSound(d)'
      <4>1. Alike(challenge, challenge', d, IF d = c THEN {"inFlight", "consumed", "sessions"}
                                            ELSE {})
        BY <3>3
      <4>2. ChallengeSound(d)
        BY DEF SignInSound
      <4>3. CASE d = c
        <5>1. Holders(d)' = {}
          BY <2>1, <2>3, <3>1, <4>3 DEF SignInSound, SignInTyped, Holders, Ends, Answered,
                                        NoVerifier, Holding
        <5>2. challenge[d].born # 0 /\ challenge'[d].born = challenge[d].born
          BY <2>3, <4>1, <4>2, <4>3 DEF ChallengeSound, Alike
        <5>3. challenge'[d].burned <= 1 + challenge'[d].thrown
          BY <4>1, <4>2, <4>3 DEF ChallengeSound, Alike
        <5> QED
          BY <3>3, <4>3, <5>1, <5>2, <5>3 DEF ChallengeSound
      <4>4. CASE d # c
        <5>1. Holders(d)' = Holders(d) /\ \A w \in Holders(d) : verifier'[w].pc = verifier[w].pc
          BY <2>1, <3>1, <4>4 DEF SignInSound, SignInTyped, Holders, Ends, Answered, NoVerifier,
                                  Holding
        <5> QED
          BY <2>2, <4>1, <4>2, <4>4, <5>1 DEF ChallengeSound, Alike
      <4> QED
        BY <4>3, <4>4
    <3> QED
      BY <3>4, <3>5 DEF SignInSound
  <2>5. CASE ~(c \in minted /\ challenge[c].inFlight)
    <3>1. challenge[c].expired /\ challenge' = challenge /\ Step(v, "refused")
      BY <1>3, <2>1, <2>2, <2>3, <2>5 DEF ChallengeSound, Redeem, InLedger
    <3>2. SignInTyped'
      BY <1>3, <2>1, <2>2, <3>1 DEF SignInSound, SignInTyped, Step
    <3>3. ASSUME NEW d \in Challenges PROVE ChallengeSound(d)'
      <4>1. /\ Holders(d)' = Holders(d) \ {v}
            /\ \A w \in Holders(d)' : verifier'[w].pc = verifier[w].pc
        BY <3>1 DEF SignInSound, SignInTyped, Step, Holders, Holding
      <4>2. ChallengeSound(d)
        BY DEF SignInSound
      <4>3. CASE d # c
        <5>1. v \notin Holders(d)
          BY <2>1, <4>3 DEF Holders
        <5> QED
          BY <2>2, <3>1, <4>1, <4>2, <5>1 DEF ChallengeSound
      <4>4. CASE d = c
        <5>1. Holders(d)' = {} /\ d \notin minted
          BY <2>2, <2>3, <2>5, <4>1, <4>4 DEF ChallengeSound
        <5> QED
          BY <2>2, <2>3, <3>1, <4>2, <4>4, <5>1 DEF ChallengeSound
      <4> QED
        BY <4>3, <4>4
    <3> QED
      BY <3>2, <3>3 DEF SignInSound
  <2> QED
    BY <2>4, <2>5
<1> QED
  BY <1>2, <1>3

LEMMA SignInThrows ==
  ASSUME SignInSound, NEW v \in Verifiers, VerifyThrows(v)
  PROVE  SignInSound'
<1>1. verifier[v].at \in Challenges \cup {NoChallenge} /\ challenge \in Entries
  BY DEF SignInSound, SignInTyped
<1>2. CASE verifier[v].at = NoChallenge
  BY <1>2, MfaAssumption DEF VerifyThrows, SignInSound, SignInTyped, Ends, Answered,
                             NoVerifier, Holding, Paid, ChallengeSound, Holders
<1>3. CASE verifier[v].at # NoChallenge
  <2>1. PICK c \in Challenges : c = verifier[v].at
    BY <1>1, <1>3
  <2> DEFINE freed == Released(c, FALSE)
  <2>2. /\ v \in Holders(c) /\ ChallengeSound(c) /\ Ends(v) /\ minted' = minted
        /\ challenge' = [freed EXCEPT ![c].thrown = freed[c].thrown + 1]
    BY <1>3, <2>1 DEF SignInSound, Holders, VerifyThrows, Holding
  <2>3. Holders(c) = {v}
    BY <2>2 DEF ChallengeSound
  <2>4. /\ freed \in Entries
        /\ \A d \in Challenges : Alike(challenge, freed, d, IF d = c THEN {"inFlight"} ELSE {})
    BY <1>1, ReleasedAlike
  <2> HIDE DEF freed
  <2>5. freed[c].thrown + 1 \in Nat /\ freed[c].thrown = challenge[c].thrown
    BY <2>4 DEF Entries, MfaEntry, Alike
  <2>6. /\ challenge' \in Entries /\ challenge'[c].thrown = challenge[c].thrown + 1
        /\ \A d \in Challenges : Alike(freed, challenge', d, IF d = c THEN {"thrown"} ELSE {})
    BY <2>2, <2>4, <2>5 DEF Entries, MfaEntry, Alike
  <2>7. \A d \in Challenges : Alike(challenge, challenge', d,
                                    IF d = c THEN {"inFlight", "thrown"} ELSE {})
    BY <2>4, <2>6 DEF Alike
  <2>8. SignInTyped'
    BY <2>2, <2>6, <2>7 DEF SignInSound, SignInTyped, Ends, Answered, NoVerifier, Alike
  <2>9. ASSUME NEW d \in Challenges PROVE ChallengeSound(d)'
    <3>1. Alike(challenge, challenge', d, IF d = c THEN {"inFlight", "thrown"} ELSE {})
      BY <2>7
    <3>2. ChallengeSound(d)
      BY DEF SignInSound
    <3>3. CASE d = c
      <4>1. Holders(d)' = {}
        BY <2>1, <2>2, <2>3, <3>3 DEF SignInSound, SignInTyped, Holders, Ends, Answered,
                                      NoVerifier, Holding
      <4>2. challenge[d].born # 0 /\ challenge'[d].born = challenge[d].born
        BY <2>3, <3>1, <3>2, <3>3 DEF ChallengeSound, Alike
      <4>3. challenge[d].thrown \in Nat /\ challenge[d].burned \in Nat
        BY <1>1 DEF Entries, MfaEntry
      <4>4. challenge'[d].burned = challenge[d].burned /\ challenge'[d].sessions = 0
        BY <2>2, <3>1, <3>2, <3>3 DEF ChallengeSound, Alike
      <4>5. /\ challenge'[d].burned <= challenge'[d].thrown
            /\ challenge'[d].burned <= 1 + challenge'[d].thrown
        BY <2>6, <3>2, <3>3, <4>3, <4>4 DEF ChallengeSound
      <4> QED
        BY <4>1, <4>2, <4>4, <4>5 DEF ChallengeSound
    <3>4. CASE d # c
      <4>1. Holders(d)' = Holders(d) /\ \A w \in Holders(d) : verifier'[w].pc = verifier[w].pc
        BY <2>1, <2>2, <3>4 DEF SignInSound, SignInTyped, Holders, Ends, Answered, NoVerifier,
                                Holding
      <4> QED
        BY <2>2, <3>1, <3>2, <3>4, <4>1 DEF ChallengeSound, Alike
    <3> QED
      BY <3>3, <3>4
  <2> QED
    BY <2>8, <2>9 DEF SignInSound
<1> QED
  BY <1>2, <1>3

\* Minting evicts only what nobody is verifying; forgetting, only what has expired.
LEMMA SignInLedger ==
  ASSUME SignInSound, NEW c \in Challenges, Mint(c) \/ ExpireChallenge(c) \/ Forget(c)
  PROVE  SignInSound'
<1>0. challenge \in Entries
  BY DEF SignInSound, SignInTyped
<1>1. CASE Mint(c)
  <2> DEFINE n == 1 + Cardinality({d \in Challenges : challenge[d].born > 0})
  <2>1. n \in Nat /\ n # 0
    <3>1. IsFiniteSet({d \in Challenges : challenge[d].born > 0})
      BY MfaAssumption, FS_Subset
    <3> QED
      BY <3>1, FS_CardinalityType
  <2>2. /\ challenge' = [challenge EXCEPT ![c].born = n] /\ challenge[c].born = 0
        /\ verifier' = verifier /\ minted' \subseteq minted \cup {c} /\ c \in minted'
    BY <1>1 DEF Mint
  <2>3. \A d \in minted \ minted' : challenge[d].expired \/ ~challenge[d].inFlight
    BY <1>1 DEF Mint, Evictable
  <2> HIDE DEF n
  <2>4. /\ challenge' \in Entries /\ challenge'[c].born # 0
        /\ \A d \in Challenges : Alike(challenge, challenge', d, IF d = c THEN {"born"} ELSE {})
    BY <1>0, <2>1, <2>2 DEF Entries, MfaEntry, Alike
  <2>5. SignInTyped'
    BY <2>2, <2>4 DEF SignInSound, SignInTyped, Alike
  <2>6. ASSUME NEW d \in Challenges PROVE ChallengeSound(d)'
    <3>1. Alike(challenge, challenge', d, IF d = c THEN {"born"} ELSE {})
      BY <2>4
    <3>2. ChallengeSound(d) /\ Holders(d)' = Holders(d)
      BY <2>2 DEF SignInSound, Holders
    <3>3. CASE d = c
      <4>1. /\ Holders(d) = {} /\ challenge[d].sessions = 0 /\ challenge[d].burned = 0
            /\ challenge[d].thrown \in Nat
        BY <1>0, <2>2, <3>2, <3>3 DEF ChallengeSound, Entries, MfaEntry
      <4>2. /\ challenge'[d].sessions = 0 /\ challenge'[d].burned = 0
            /\ challenge'[d].thrown \in Nat
        BY <3>1, <3>3, <4>1 DEF Alike
      <4> QED
        BY <2>4, <3>2, <3>3, <4>1, <4>2 DEF ChallengeSound
    <3>4. CASE d # c
      <4>1. d \in minted' => d \in minted
        BY <2>2, <3>4
      <4> QED
        BY <2>2, <2>3, <3>1, <3>2, <3>4, <4>1 DEF ChallengeSound, Alike
    <3> QED
      BY <3>3, <3>4
  <2> QED
    BY <2>5, <2>6 DEF SignInSound
<1>2. CASE ExpireChallenge(c)
  <2>1. /\ challenge' = [challenge EXCEPT ![c].expired = TRUE]
        /\ verifier' = verifier /\ minted' = minted
    BY <1>2 DEF ExpireChallenge
  <2>2. /\ challenge' \in Entries /\ challenge'[c].expired
        /\ \A d \in Challenges : Alike(challenge, challenge', d,
                                       IF d = c THEN {"expired"} ELSE {})
    BY <1>0, <2>1 DEF Entries, MfaEntry, Alike
  <2>3. SignInTyped'
    BY <2>1, <2>2 DEF SignInSound, SignInTyped, Alike
  <2>4. ASSUME NEW d \in Challenges PROVE ChallengeSound(d)'
    <3>1. Alike(challenge, challenge', d, {"expired"})
      BY <2>2 DEF Alike
    <3>2. challenge[d].expired => challenge'[d].expired
      BY <2>2 DEF Alike
    <3>3. ChallengeSound(d) /\ Holders(d)' = Holders(d)
      BY <2>1 DEF SignInSound, Holders
    <3> QED
      BY <2>1, <3>1, <3>2, <3>3 DEF ChallengeSound, Alike
  <2> QED
    BY <2>3, <2>4 DEF SignInSound
<1>3. CASE Forget(c)
  BY <1>3 DEF Forget, SignInSound, SignInTyped, ChallengeSound, Holders
<1> QED
  BY <1>1, <1>2, <1>3

\* A restart: no challenge is known, and nobody holds one.
LEMMA SignInLost == ASSUME SignInSound, LoseMfa PROVE SignInSound'
<1>1. challenge \in Entries
  BY DEF SignInSound, SignInTyped
<1>2. /\ challenge' \in Entries
      /\ \A d \in Challenges : Alike(challenge, challenge', d, {"inFlight"})
  BY <1>1 DEF LoseMfa, Entries, MfaEntry, Alike
<1>3. SignInTyped'
  BY <1>2, MfaAssumption DEF LoseMfa, SignInSound, SignInTyped, Answered, NoVerifier
<1>4. ASSUME NEW d \in Challenges PROVE ChallengeSound(d)'
  <2>1. Holders(d)' = {} /\ minted' = {}
    BY DEF LoseMfa, Holders, Answered, NoVerifier, Holding
  <2>2. ChallengeSound(d) /\ Alike(challenge, challenge', d, {"inFlight"})
    BY <1>2 DEF SignInSound
  <2> QED
    BY <2>1, <2>2 DEF ChallengeSound, Alike
<1> QED
  BY <1>3, <1>4 DEF SignInSound

LEMMA SignInStep == ASSUME SignInSound, [MfaMove]_mfaVars PROVE SignInSound'
<1>1. ASSUME NEW v \in Verifiers, Verify(v) PROVE SignInSound'
  <2>1. CASE \/ Post(v) \/ StepUp(v) \/ ReadCode(v) \/ ClearFailed(v) \/ ClearLevel(v)
             \/ Refuse(v)
    BY <2>1, SignInQuiet
  <2>2. CASE Reserve(v)
    BY <2>2, SignInReserves
  <2>3. CASE ReadLock(v)
    <3>1. CASE lockout.until = "ahead"
      BY <2>3, <3>1, SignInReleases DEF ReadLock, Holding, Paid
    <3>2. CASE lockout.until # "ahead"
      BY <2>3, <3>2 DEF ReadLock, SignInSound, SignInTyped, Step, Holding, Paid,
                        ChallengeSound, Holders
    <3> QED
      BY <3>1, <3>2
  <2>4. CASE SpendCode(v)
    BY <2>4, SignInSpends
  <2>5. CASE Redeem(v)
    BY <2>5, SignInRedeems
  <2>6. CASE CountFailure(v)
    <3>1. CASE lockout'.failed < LockThreshold
      BY <2>6, <3>1, SignInReleases DEF CountFailure, Holding, Paid
    <3>2. CASE ~(lockout'.failed < LockThreshold)
      BY <2>6, <3>2 DEF CountFailure, SignInSound, SignInTyped, Step, Holding, Paid,
                        ChallengeSound, Holders
    <3> QED
      BY <3>1, <3>2
  <2>7. CASE Impose(v)
    BY <2>7, SignInReleases DEF Impose, Holding, Paid
  <2>8. CASE VerifyThrows(v)
    BY <2>8, SignInThrows
  <2> QED
    BY <1>1, <2>1, <2>2, <2>3, <2>4, <2>5, <2>6, <2>7, <2>8 DEF Verify
<1>2. ASSUME NEW c \in Challenges, Mint(c) \/ ExpireChallenge(c) \/ Forget(c)
      PROVE  SignInSound'
  BY <1>2, SignInLedger
<1>3. CASE LockPasses \/ UNCHANGED mfaVars
  BY <1>3 DEF LockPasses, mfaVars, SignInSound, SignInTyped, ChallengeSound, Holders
<1>4. CASE LoseMfa
  BY <1>4, SignInLost
<1> QED
  BY <1>1, <1>2, <1>3, <1>4 DEF MfaMove, MfaStep

LEMMA SignInInvariant == ServerSpec => []SignInSound
<1>1. ASSUME ServerInit  PROVE SignInSound
  <2>1. PICK w \in Workloads : MfaInit(w.challenges, w.verifiers)
    BY <1>1 DEF ServerInit
  <2>2. /\ minted = {} /\ throws \in Nat
        /\ lockout.failed = 0 /\ lockout.level = 0 /\ lockout.until = "none" /\ wrong = 0
    BY <2>1 DEF MfaInit
  <2>3. /\ verifier \in [Verifiers -> {NoVerifier, Answered}]
    BY <2>1 DEF MfaInit
  <2>4. \A c \in Challenges : /\ challenge[c] \in MfaEntry
                              /\ challenge[c].sessions = 0 /\ challenge[c].burned = 0
                              /\ challenge[c].thrown = 0 /\ ~challenge[c].consumed
                              /\ ~challenge[c].inFlight
    BY <2>1 DEF MfaInit, NewChallenge, MfaEntry
  <2>5. challenge \in Entries
    BY <2>1 DEF MfaInit, NewChallenge, Entries, MfaEntry
  <2>6. \A v \in Verifiers : verifier[v].pc \in {"idle", "done"}
    BY <2>3 DEF NoVerifier, Answered
  <2>7. SignInTyped
    BY <2>2, <2>3, <2>5, <2>6 DEF SignInTyped, NoVerifier, Answered
  <2>8. \A c \in Challenges : Holders(c) = {}
    BY <2>6 DEF Holders, Holding
  <2> QED
    BY <2>2, <2>4, <2>7, <2>8 DEF SignInSound, ChallengeSound
<1>2. SignInSound /\ [ServerNext]_serverVars => SignInSound'
  BY MfaSees, SignInStep
<1> QED
  BY <1>1, <1>2, PTL DEF ServerSpec

\* A challenge is good for one session and one code, for any number of POSTs, of
\* challenges and of evictions (reserveToken, lib/mfa/mfa-token.ts).
THEOREM OneSignInSafe == ServerSpec => []OneSignInPerChallenge
<1>1. SignInSound => OneSignInPerChallenge
  BY DEF SignInSound, ChallengeSound, OneSignInPerChallenge
<1> QED
  BY <1>1, SignInInvariant, PTL

\* Who has paid with a code is refused only when the challenge has expired: eviction
\* spares what is being verified.
THEOREM SpentCodeSafe == ServerSpec => []SpentCodeSignsIn
<1>1. SignInSound => SpentCodeSignsIn
  BY DEF SignInSound, SignInTyped, SpentCodeSignsIn
<1> QED
  BY <1>1, SignInInvariant, PTL

-----------------------------------------------------------------------------
(* The last administrator (AccountAccess) *)

AccountMove == AccountStep \/ LoseHandlers \/ UNCHANGED accountVars

LEMMA AccountSees == [ServerNext]_serverVars => AccountMove
<1>1. ASSUME ServerNext  PROVE AccountMove
  BY <1>1 DEF ServerNext, AccountMove, InFollowUp, InAgents, InScans, InImports, Webhooks,
              Access, accessVars, Restart
<1>2. ASSUME UNCHANGED serverVars  PROVE AccountMove
  BY <1>2 DEF serverVars, accessVars, AccountMove
<1> QED
  BY <1>1, <1>2

\* A count above one means that somebody else is left.
LEMMA SomebodyElse ==
  ASSUME AnotherAdmin, NEW t
  PROVE  \E u \in ActiveAdmins : u # t
<1> SUFFICES ASSUME ActiveAdmins \subseteq {t}  PROVE FALSE
  OBVIOUS
<1>1. IsFiniteSet({t}) /\ Cardinality({t}) = 1
  BY FS_Singleton
<1>2. Cardinality(ActiveAdmins) <= 1 /\ Cardinality(ActiveAdmins) \in Nat
  BY <1>1, FS_Subset, FS_CardinalityType
<1> QED
  BY <1>2 DEF AnotherAdmin

\* An account that alone changes takes nobody else's place.
LEMMA OthersRemain ==
  ASSUME NEW t \in Users, \A u \in Users \ {t} : account'[u] = account[u],
         \/ \E u \in ActiveAdmins : u # t
         \/ t \notin ActiveAdmins
         \/ t \in ActiveAdmins'
         \/ overtaken',
         AdminRemains, overtaken => overtaken'
  PROVE  AdminRemains'
BY DEF AdminRemains, ActiveAdmins

AccountSound == AccountTypeOK /\ AdminRemains

\* A decision taken under the lock changes its target alone, and spares the last admin.
LEMMA DecisionSound ==
  ASSUME AccountSound, NEW k \in Desks, Commit(k)
  PROVE  /\ AccountSound'
         /\ \A u \in Users \ {desk[k].target} : account'[u] = account[u]
<1> DEFINE t == desk[k].target
<1>1. t \in Users /\ desk[k] \in [pc : {"idle", "commit", "done"}, op : Operations,
                           target : Users, role : Roles, byAdmin : BOOLEAN]
  BY DEF AccountSound, AccountTypeOK
<1>2. AccountTypeOK'
  BY <1>1 DEF AccountSound, AccountTypeOK, Commit, Effect, Disabled, Roles
<1>3. \A u \in Users \ {t} : account'[u] = account[u]
  BY <1>1 DEF AccountSound, AccountTypeOK, Commit, Effect, Disabled
<1>4. \/ t \notin ActiveAdmins
      \/ t \in ActiveAdmins'
      \/ \E u \in ActiveAdmins : u # t
  <2>1. CASE AnotherAdmin
    BY <2>1, SomebodyElse
  <2>2. CASE ~AnotherAdmin /\ t \in ActiveAdmins
    BY <1>1, <2>2 DEF AccountSound, AccountTypeOK, Commit, Effect, FreshRole, StillDisabled,
       ActiveAdmins, Operations
  <2> QED
    BY <2>1, <2>2
<1>5. AdminRemains'
  BY <1>1, <1>3, <1>4, OthersRemain DEF AccountSound, Commit
<1> QED
  BY <1>2, <1>3, <1>5 DEF AccountSound

LEMMA AccountSoundStep == AccountSound /\ AccountMove => AccountSound'
<1> SUFFICES ASSUME AccountSound, AccountMove  PROVE AccountSound'
  OBVIOUS
<1>1. ASSUME NEW k \in Desks, Request(k)  PROVE AccountSound'
  BY <1>1 DEF AccountSound, AccountTypeOK, Request, AdminRemains, ActiveAdmins
<1>2. ASSUME NEW k \in Desks, Commit(k)  PROVE AccountSound'
  BY <1>2, DecisionSound
<1>3. ASSUME NEW u \in Users, Reread(u)  PROVE AccountSound'
  BY <1>3 DEF AccountSound, AccountTypeOK, Reread, Leaves, AdminRemains, ActiveAdmins
<1>4. ASSUME NEW u \in Users, LeaveAsAdmin(u)  PROVE AccountSound'
  <2>1. AccountTypeOK'
    BY <1>4 DEF AccountSound, AccountTypeOK, LeaveAsAdmin, Leaves, Disabled
  <2>2. \A x \in Users \ {u} : account'[x] = account[x]
    BY <1>4 DEF AccountSound, AccountTypeOK, LeaveAsAdmin, Disabled
  <2>3. CASE AnotherAdmin
    BY <1>4, <2>1, <2>2, <2>3, SomebodyElse, OthersRemain DEF AccountSound, LeaveAsAdmin
  <2>4. CASE ~AnotherAdmin
    BY <1>4, <2>1, <2>4 DEF AccountSound, LeaveAsAdmin, AdminRemains, ActiveAdmins
  <2> QED
    BY <2>3, <2>4
<1>5. ASSUME NEW u \in Users, LeaveAsUser(u)  PROVE AccountSound'
  <2>1. AccountTypeOK'
    BY <1>5 DEF AccountSound, AccountTypeOK, LeaveAsUser, Leaves, Disabled
  <2>2. \A x \in Users \ {u} : account'[x] = account[x]
    BY <1>5 DEF AccountSound, AccountTypeOK, LeaveAsUser, Disabled
  <2> QED
    BY <1>5, <2>1, <2>2, OthersRemain DEF AccountSound, LeaveAsUser
<1>6. CASE LoseHandlers
  BY <1>6 DEF AccountSound, AccountTypeOK, LoseHandlers, AdminRemains, ActiveAdmins
<1>7. CASE UNCHANGED accountVars
  BY <1>7 DEF accountVars, AccountSound, AccountTypeOK, AdminRemains, ActiveAdmins
<1> QED
  BY <1>1, <1>2, <1>3, <1>4, <1>5, <1>6, <1>7 DEF AccountMove, AccountStep

LEMMA AccountInvariant == ServerSpec => []AccountSound
<1>1. ASSUME ServerInit  PROVE AccountSound
  <2>1. PICK w \in Workloads : AccountInit(w.admins, w.desks, w.leavers)
    BY <1>1 DEF ServerInit
  <2>2. w.admins \subseteq Users /\ w.admins # {}
    BY ProcessAssumption
  <2>3. (CHOOSE u \in Users : TRUE) \in Users
    BY <2>2
  <2>4. AccountTypeOK
    BY <2>1, <2>3 DEF AccountInit, AccountTypeOK, Roles, Operations
  <2>5. ActiveAdmins = w.admins
    BY <2>1, <2>2 DEF AccountInit, ActiveAdmins
  <2> QED
    BY <2>2, <2>4, <2>5 DEF AccountSound, AdminRemains
<1>2. AccountSound /\ [ServerNext]_serverVars => AccountSound'
  BY AccountSees, AccountSoundStep
<1> QED
  BY <1>1, <1>2, PTL DEF ServerSpec

\* However admins demote, disable and leave at once, one is left (lib/account-lifecycle.ts),
\* but for a self-delete that a promotion has overtaken.
THEOREM AdminRemainsSafe == ServerSpec => []AdminRemains
<1>1. AccountSound => AdminRemains
  BY DEF AccountSound
<1> QED
  BY <1>1, AccountInvariant, PTL

\* What a delegate's request finds promoted it leaves alone, and a purge is final
\* (lib/account-lifecycle.ts, api/admin/users).
THEOREM RowsProtectedSafe == ServerSpec => RowsProtected
<1> DEFINE Kept ==
      /\ \A k \in Desks, u \in Users :
            /\ desk[k].pc = "commit" /\ desk'[k].pc = "done" /\ ~desk[k].byAdmin
            /\ account[u].role = "ADMIN"
            => account'[u] = account[u]
      /\ \A u \in Users : account[u].status = "purged" => account'[u].status = "purged"
<1>1. ASSUME AccountSound, AccountMove  PROVE Kept
  <2>1. ASSUME NEW k \in Desks, Commit(k)  PROVE Kept
    <3>1. \A u \in Users \ {desk[k].target} : account'[u] = account[u]
      BY <1>1, <2>1, DecisionSound
    <3>2. \A j \in Desks : desk[j].pc = "commit" /\ desk'[j].pc = "done" => j = k
      BY <1>1, <2>1 DEF AccountSound, AccountTypeOK, Commit
    <3>3. ~desk[k].byAdmin /\ account[desk[k].target].role = "ADMIN" => account' = account
      BY <2>1 DEF Commit, Effect, FreshRole
    <3>4. desk[k].target \in Users
      BY <1>1 DEF AccountSound, AccountTypeOK
    <3>5. account[desk[k].target].status = "purged"
          => account'[desk[k].target].status = "purged"
      BY <1>1, <2>1, <3>4 DEF AccountSound, AccountTypeOK, Commit, Effect, StillDisabled,
                              Disabled
    <3> QED
      BY <3>1, <3>2, <3>3, <3>4, <3>5
  <2>2. ASSUME NEW u \in Users, LeaveAsAdmin(u) \/ LeaveAsUser(u)  PROVE Kept
    BY <1>1, <2>2 DEF AccountSound, AccountTypeOK, LeaveAsAdmin, LeaveAsUser, Disabled
  <2>3. CASE \/ \E k \in Desks : Request(k)
             \/ \E u \in Users : Reread(u)
             \/ LoseHandlers
             \/ UNCHANGED accountVars
    <3>1. account' = account
      BY <2>3 DEF Request, Reread, LoseHandlers, accountVars
    <3> QED
      BY <3>1
  <2> QED
    BY <1>1, <2>1, <2>2, <2>3 DEF AccountMove, AccountStep
<1>2. AccountSound /\ [ServerNext]_serverVars => [Kept]_accountVars
  BY <1>1, AccountSees
<1> QED
  BY <1>2, AccountInvariant, PTL DEF ServerSpec, RowsProtected

-----------------------------------------------------------------------------
(* The cache of agents (AgentDelivery) *)

AgentMove == AgentStep \/ LoseAgents \/ UNCHANGED agentVars

LEMMA AgentSees == [ServerNext]_serverVars => AgentMove
<1>1. ASSUME ServerNext  PROVE AgentMove
  BY <1>1 DEF ServerNext, AgentMove, InFollowUp, InAgents, InScans, InImports, Webhooks,
              Access, workVars, Restart
<1>2. ASSUME UNCHANGED serverVars  PROVE AgentMove
  BY <1>2 DEF serverVars, workVars, AgentMove
<1> QED
  BY <1>1, <1>2

\* What e has read is good for whoever waits for it; as long as its generation is the
\* cache's, it is good for the cache, too.
ReadSound(e) ==
    LET d == delivery[e] IN
    /\ d.floor <= known
    /\ d.pc \in {"emitted", "wait"} => d.joined = NoAgent
    /\ d.pc = "send" => d.agent \in Agent /\ d.agent.version >= d.floor
    /\ d.pc \in {"load", "read"} => d.gen <= gen
    /\ d.pc = "read" =>
         /\ d.agent \in Agent
         /\ d.agent.version >= d.floor
         /\ d.gen = gen => d.agent.version >= known /\ (~Editing => d.agent = agentRow)
         /\ \A f \in Events : delivery[f].joined = e => d.agent.version >= delivery[f].floor

AgentSound ==
    /\ AgentTypeOK
    /\ gen <= known /\ known <= agentRow.version /\ agentRow.version <= known + 1
    /\ cache # NoAgent => cache.version >= known /\ (~Editing => cache = agentRow)
    /\ inflight # NoAgent /\ delivery[inflight].pc \in {"load", "read"}
         => delivery[inflight].gen = gen
    /\ \A e \in Events : ReadSound(e)

\* How the end of a delivery, or of an attempt, leaves it.
Rests == [pc : {"wait", "recorded", "unrecorded", "withdrawn", "unread"},
          attempt : 0..MaxAttempts, agent : {NoAgent}, gen : {0}, joined : {NoAgent},
          floor : {0}]

LEMMA OverRests ==
  ASSUME AgentTypeOK, NEW e \in Events,
         NEW pc \in {"wait", "recorded", "unrecorded", "withdrawn", "unread"}
  PROVE  Over(e, pc) \in Rests /\ Over(e, pc).pc = pc
                             /\ Over(e, pc).attempt = delivery[e].attempt
<1>1. NotEmitted \in [pc : {"off"}, attempt : {0}, agent : {NoAgent}, gen : {0},
                     joined : {NoAgent}, floor : {0}]
  BY DEF NotEmitted
<1> QED
  BY <1>1 DEF Over, Rests, AgentTypeOK, DeliveryType

\* Who is handed the agent posts to it, or rests.
LEMMA HandedOver ==
  ASSUME AgentTypeOK, NEW e \in Events, NEW agent \in Agent
  PROVE  /\ With(e, agent) \in Rests
            \cup [pc : {"send"}, attempt : 0..MaxAttempts, agent : {agent}, gen : {0},
                  joined : {NoAgent}, floor : {delivery[e].floor}]
         /\ With(e, agent).pc \in {"send", "withdrawn"}
         /\ With(e, agent).attempt = delivery[e].attempt
<1>1. CASE agent.enabled
  BY <1>1 DEF With, AgentTypeOK, DeliveryType
<1>2. CASE ~agent.enabled
  BY <1>2, OverRests DEF With
<1> QED
  BY <1>1, <1>2

\* What a shared read hands to f: rest, or an agent that is good enough for f.
Handed(f) ==
    Rests \cup {d \in [pc : {"send"}, attempt : 0..MaxAttempts, agent : Agent, gen : {0},
                       joined : {NoAgent}, floor : {delivery[f].floor}] :
                  d.agent.version >= d.floor}

LEMMA AgentSoundStep == AgentSound /\ AgentMove => AgentSound'
<1> SUFFICES ASSUME AgentSound, AgentMove  PROVE AgentSound'
  OBVIOUS
<1> USE AgentAssumption
<1>1. CASE Edit
  <2>1. /\ agentRow' \in Agent /\ agentRow'.version = agentRow.version + 1
        /\ agentRow.version = known /\ UNCHANGED <<known, cache, gen, inflight, delivery>>
    BY <1>1 DEF Edit, Editing, AgentSound, AgentTypeOK, DeliveryType, Agent
  <2> QED
    BY <2>1 DEF AgentSound, AgentTypeOK, DeliveryType, Agent, ReadSound, Editing
<1>2. CASE Invalidate
  BY <1>2 DEF Invalidate, Unshared, AgentSound, AgentTypeOK, DeliveryType, Agent, ReadSound, Editing
<1>3. CASE ExpireCache
  BY <1>3 DEF ExpireCache, AgentSound, AgentTypeOK, DeliveryType, ReadSound, Editing
<1>4. ASSUME NEW e \in Events, Begin(e)  PROVE AgentSound'
  <2>1. CASE cache # NoAgent
    <3> DEFINE d == [delivery[e] EXCEPT !.pc = "send", !.agent = cache, !.floor = known]
    <3>1. /\ \/ delivery' = [delivery EXCEPT ![e] = d]
             \/ delivery' = [delivery EXCEPT ![e] = Over(e, "withdrawn")]
          /\ UNCHANGED <<agentRow, known, cache, gen, inflight>>
      BY <1>4, <2>1 DEF Begin, Becomes, AgentSound, AgentTypeOK, DeliveryType
    <3>2. /\ d \in [pc : {"send"}, attempt : 0..MaxAttempts,
                    agent : {cache}, gen : 0..MaxEdits, joined : {delivery[e].joined},
                    floor : {known}]
          /\ cache \in Agent /\ delivery[e].joined = NoAgent
      BY <1>4, <2>1 DEF Begin, AgentSound, AgentTypeOK, DeliveryType, ReadSound
    <3> HIDE DEF d
    <3>3. CASE delivery' = [delivery EXCEPT ![e] = d]
      BY <2>1, <3>1, <3>2, <3>3
         DEF AgentSound, AgentTypeOK, DeliveryType, Agent, ReadSound, Editing
    <3>4. CASE delivery' = [delivery EXCEPT ![e] = Over(e, "withdrawn")]
      BY <3>1, <3>4, OverRests
         DEF Rests, AgentSound, AgentTypeOK, DeliveryType, Agent, ReadSound, Editing
    <3> QED
      BY <3>1, <3>3, <3>4
  <2>2. CASE cache = NoAgent /\ inflight # NoAgent
    <3> DEFINE d == [delivery[e] EXCEPT !.pc = "join", !.joined = inflight, !.floor = known]
    <3>1. /\ delivery' = [delivery EXCEPT ![e] = d]
          /\ UNCHANGED <<agentRow, known, cache, gen, inflight>>
      BY <1>4, <2>2 DEF Begin, Becomes, AgentSound, AgentTypeOK, DeliveryType
    <3>2. /\ d \in [pc : {"join"}, attempt : 0..MaxAttempts, agent : Agent \cup {NoAgent},
                    gen : 0..MaxEdits, joined : {inflight}, floor : {known}]
          /\ inflight \in Events
      BY <2>2 DEF AgentSound, AgentTypeOK, DeliveryType
    <3> HIDE DEF d
    <3> QED
      BY <2>2, <3>1, <3>2 DEF AgentSound, AgentTypeOK, DeliveryType, Agent, ReadSound, Editing
  <2>3. CASE cache = NoAgent /\ inflight = NoAgent
    <3> DEFINE d == [delivery[e] EXCEPT !.pc = "load", !.gen = gen, !.floor = known]
    <3>1. /\ delivery' = [delivery EXCEPT ![e] = d] /\ inflight' = e
          /\ UNCHANGED <<agentRow, known, cache, gen>>
      BY <1>4, <2>3 DEF Begin, Becomes, AgentSound, AgentTypeOK, DeliveryType
    <3>2. d \in [pc : {"load"}, attempt : 0..MaxAttempts, agent : Agent \cup {NoAgent},
                 gen : {gen}, joined : {delivery[e].joined}, floor : {known}]
      BY DEF AgentSound, AgentTypeOK, DeliveryType
    <3> HIDE DEF d
    <3>3. AgentTypeOK'
      BY <3>1, <3>2 DEF AgentSound, AgentTypeOK, DeliveryType
    <3>4. delivery'[inflight'].gen = gen'
      BY <3>1, <3>2 DEF AgentSound, AgentTypeOK, DeliveryType
    <3>5. ASSUME NEW f \in Events  PROVE ReadSound(f)'
      <4>1. \A g \in Events : /\ delivery'[g].floor = delivery[g].floor \/ g = e
                              /\ delivery'[g].joined = delivery[g].joined
        BY <3>1, <3>2 DEF AgentSound, AgentTypeOK, DeliveryType
      <4>2. CASE f = e
        BY <3>1, <3>2, <4>2 DEF AgentSound, AgentTypeOK, DeliveryType, ReadSound
      <4>3. CASE f # e
        <5>1. delivery'[f] = delivery[f]
          BY <3>1, <4>3 DEF AgentSound, AgentTypeOK, DeliveryType
        <5>2. delivery[e].joined = NoAgent
          BY <1>4 DEF Begin, AgentSound, ReadSound
        <5> QED
          BY <3>1, <4>1, <4>3, <5>1, <5>2 DEF AgentSound, AgentTypeOK, DeliveryType, ReadSound, Editing
      <4> QED
        BY <4>2, <4>3
    <3> QED
      BY <2>3, <3>1, <3>3, <3>4, <3>5 DEF AgentSound, Editing
  <2> QED
    BY <2>1, <2>2, <2>3
<1>5. ASSUME NEW e \in Events, ReadRow(e)  PROVE AgentSound'
  <2> DEFINE d == [delivery[e] EXCEPT !.pc = "read", !.agent = agentRow]
  <2>1. /\ delivery' = [delivery EXCEPT ![e] = d] /\ delivery[e].pc = "load"
        /\ UNCHANGED <<agentRow, known, cache, gen, inflight>>
    BY <1>5 DEF ReadRow, Becomes
  <2>2. d \in [pc : {"read"}, attempt : 0..MaxAttempts, agent : {agentRow},
               gen : {delivery[e].gen}, joined : {delivery[e].joined},
               floor : {delivery[e].floor}]
    BY DEF AgentSound, AgentTypeOK, DeliveryType
  <2> HIDE DEF d
  <2> QED
    BY <2>1, <2>2 DEF AgentSound, AgentTypeOK, DeliveryType, Agent, ReadSound, Editing
<1>6. ASSUME NEW e \in Events, DOMAIN delivery' = Events, delivery' = [f \in Events |-> delivery'[f]],
             \A f \in Sharing(e) : delivery'[f] \in Handed(f),
             \A f \in Events \ Sharing(e) : delivery'[f] = delivery[f],
             UNCHANGED <<agentRow, known, gen>>, inflight' \in {inflight, NoAgent},
             cache' \in Agent \cup {NoAgent},
             cache' # NoAgent => cache'.version >= known /\ (~Editing => cache' = agentRow)
      PROVE  AgentSound'
  <2>1. \A f \in Sharing(e) :
           /\ delivery'[f].pc \notin {"load", "read", "emitted"} /\ delivery'[f].joined = NoAgent
           /\ delivery'[f].floor \in {0, delivery[f].floor}
           /\ delivery'[f].pc = "send" => /\ delivery'[f].agent \in Agent
                                          /\ delivery'[f].agent.version >= delivery'[f].floor
           /\ delivery'[f] \in DeliveryType
    BY <1>6 DEF Handed, Rests, Sharing, AgentSound, AgentTypeOK, DeliveryType
  <2>2. \A f \in Events : delivery'[f] \in DeliveryType
    BY <1>6, <2>1 DEF AgentSound, AgentTypeOK
  <2>3. AgentTypeOK'
    BY <1>6, <2>2 DEF AgentSound, AgentTypeOK
  <2>4. inflight' # NoAgent /\ delivery'[inflight'].pc \in {"load", "read"}
         => delivery'[inflight'].gen = gen'
    BY <1>6, <2>1 DEF AgentSound, AgentTypeOK
  <2>5. ASSUME NEW f \in Events  PROVE ReadSound(f)'
    <3>1. CASE f \in Sharing(e)
      BY <1>6, <2>1, <3>1 DEF AgentSound, AgentTypeOK, ReadSound
    <3>2. CASE f \notin Sharing(e)
      <4>1. \A g \in Events : delivery'[g].joined = f => delivery'[g] = delivery[g]
        BY <1>6, <2>1
      <4> QED
        BY <1>6, <3>2, <4>1 DEF AgentSound, ReadSound, Editing
    <3> QED
      BY <3>1, <3>2
  <2> QED
    BY <1>6, <2>3, <2>4, <2>5 DEF AgentSound, Editing
<1>6a. ASSUME NEW e \in Events, Loaded(e)  PROVE AgentSound'
  <2>1. /\ delivery[e].pc = "read" /\ delivery[e].agent \in Agent
        /\ UNCHANGED <<agentRow, known, gen>>
    BY <1>6a DEF Loaded, AgentSound, ReadSound
  <2>2. ASSUME NEW f \in Sharing(e)  PROVE delivery'[f] \in Handed(f)
    <3>1. f \in Events /\ delivery'[f] = With(f, delivery[e].agent)
      BY <1>6a, <2>2 DEF Loaded, Sharing
    <3>2. delivery[e].agent.version >= delivery[f].floor
      BY <2>1, <2>2 DEF AgentSound, ReadSound, Sharing
    <3> QED
      BY <2>1, <3>1, <3>2, HandedOver DEF AgentSound, Handed
  <2>3. \A f \in Events \ Sharing(e) : delivery'[f] = delivery[f]
    BY <1>6a DEF Loaded
  <2>4. /\ cache' \in {cache, delivery[e].agent} /\ inflight' \in {inflight, NoAgent}
        /\ cache' # cache => delivery[e].gen = gen
    BY <1>6a DEF Loaded, Current
  <2>5. cache' # NoAgent => cache'.version >= known /\ (~Editing => cache' = agentRow)
    BY <2>1, <2>4 DEF AgentSound, ReadSound
  <2>6. DOMAIN delivery' = Events /\ delivery' = [f \in Events |-> delivery'[f]]
    BY <1>6a DEF Loaded
  <2>7. cache' \in Agent \cup {NoAgent}
    BY <2>1, <2>4 DEF AgentSound, AgentTypeOK
  <2> QED
    BY <1>6, <2>1, <2>2, <2>3, <2>4, <2>5, <2>6, <2>7
<1>6b. ASSUME NEW e \in Events, ReadFails(e)  PROVE AgentSound'
  <2>1. \A f \in Sharing(e) : delivery'[f] \in Handed(f)
    BY <1>6b, OverRests DEF ReadFails, Sharing, Handed, AgentSound
  <2>2. \A f \in Events \ Sharing(e) : delivery'[f] = delivery[f]
    BY <1>6b DEF ReadFails
  <2>3. DOMAIN delivery' = Events /\ delivery' = [f \in Events |-> delivery'[f]]
    BY <1>6b DEF ReadFails
  <2>4. UNCHANGED <<agentRow, known, cache, gen>> /\ inflight' \in {inflight, NoAgent}
    BY <1>6b DEF ReadFails
  <2>5. /\ cache' \in Agent \cup {NoAgent}
        /\ cache' # NoAgent => cache'.version >= known /\ (~Editing => cache' = agentRow)
    BY <2>4 DEF AgentSound, AgentTypeOK
  <2> QED
    BY <1>6, <2>1, <2>2, <2>3, <2>4, <2>5
<1>7. ASSUME NEW e \in Events, NEW d \in Rests, delivery' = [delivery EXCEPT ![e] = d],
             UNCHANGED <<agentRow, known, cache, gen, inflight>>
      PROVE  AgentSound'
  BY <1>7 DEF Rests, AgentSound, AgentTypeOK, DeliveryType, Agent, ReadSound, Editing
<1>8. ASSUME NEW e \in Events, RecordOutcome(e), UNCHANGED <<agentRow, known, cache, gen, inflight>>
      PROVE  AgentSound'
  BY <1>7, <1>8, OverRests DEF RecordOutcome, Becomes, AgentSound
<1>8a. ASSUME NEW e \in Events, DispatchFails(e)  PROVE AgentSound'
  BY <1>7, <1>8a, OverRests DEF DispatchFails, Becomes, AgentSound
<1>9. ASSUME NEW e \in Events, Deliver(e) \/ Retry(e)  PROVE AgentSound'
  <2>1. UNCHANGED <<agentRow, known, cache, gen, inflight>>
    BY <1>9 DEF Deliver, Retry
  <2>2. CASE RecordOutcome(e)
    BY <1>8, <2>1, <2>2
  <2>3. CASE AttemptsLeft(e)
    <3> DEFINE n == delivery[e].attempt + 1
               d == [NotEmitted EXCEPT !.pc = "wait", !.attempt = n]
    <3>1. n \in 0..MaxAttempts
      BY <2>3 DEF AttemptsLeft, AgentSound, AgentTypeOK, DeliveryType
    <3> HIDE DEF n
    <3>2. d \in Rests
      <4>1. NotEmitted \in [pc : {"off"}, attempt : {0}, agent : {NoAgent}, gen : {0},
                           joined : {NoAgent}, floor : {0}]
        BY DEF NotEmitted
      <4> QED
        BY <3>1, <4>1 DEF Rests
    <3>3. CASE delivery' = [delivery EXCEPT ![e] = d]
      BY <1>7, <2>1, <3>2, <3>3
    <3> QED
      BY <1>9, <2>2, <3>3 DEF Deliver, Retry, Becomes, n
  <2> QED
    BY <1>9, <2>2, <2>3 DEF Deliver, Retry
<1>10. ASSUME NEW e \in Events, FireRetry(e)  PROVE AgentSound'
  <2>1. /\ UNCHANGED <<agentRow, known, cache, gen, inflight>>
        /\ UNCHANGED delivery \/ RecordOutcome(e)
    BY <1>10 DEF FireRetry, RecordDrop
  <2>2. CASE UNCHANGED delivery
    BY <2>1, <2>2 DEF AgentSound, AgentTypeOK, ReadSound, Editing
  <2> QED
    BY <1>8, <2>1, <2>2
<1>11. CASE LoseAgents
  <2>1. \A e \in Events :
          \/ delivery'[e] = delivery[e] /\ delivery[e].pc \in Ended
          \/ delivery'[e] = [NotEmitted EXCEPT !.pc = "lost"]
    BY <1>11 DEF LoseAgents
  <2>2. AgentTypeOK'
    BY <1>11 DEF LoseAgents, AgentSound, AgentTypeOK, DeliveryType, NotEmitted, Agent
  <2>3. \A e \in Events : /\ delivery'[e].pc \notin {"load", "read", "send"}
                          /\ delivery'[e].floor <= known
    BY <2>1 DEF Ended, NotEmitted, AgentSound, AgentTypeOK, DeliveryType, ReadSound
  <2> QED
    BY <1>11, <2>2, <2>3 DEF LoseAgents, AgentSound, AgentTypeOK, DeliveryType, Agent, ReadSound
<1>12. CASE UNCHANGED agentVars
  BY <1>12 DEF agentVars, AgentSound, AgentTypeOK, DeliveryType, ReadSound, Editing
<1>13. ASSUME NEW e \in Events, Withdrawn(e)  PROVE AgentSound'
  BY <1>12, <1>13 DEF Withdrawn
<1> QED
  BY <1>1, <1>2, <1>3, <1>4, <1>5, <1>6a, <1>6b, <1>8a, <1>9, <1>10, <1>11, <1>12, <1>13
     DEF AgentMove, AgentStep

LEMMA AgentInvariant == ServerSpec => []AgentSound
<1>1. ASSUME ServerInit  PROVE AgentSound
  <2>1. PICK w \in Workloads : AgentInit(w.events, w.edits)
    BY <1>1 DEF ServerInit
  <2>2. w.edits \in 0..MaxEdits
    BY ProcessAssumption
  <2>3. MaxEdits - w.edits \in 0..MaxEdits
    BY <2>2, AgentAssumption
  <2> QED
    BY <2>1, <2>3, AgentAssumption
       DEF AgentInit, AgentSound, AgentTypeOK, DeliveryType, Agent, ReadSound, NotEmitted, Editing
<1>2. AgentSound /\ [ServerNext]_serverVars => AgentSound'
  BY AgentSees, AgentSoundStep
<1> QED
  BY <1>1, <1>2, PTL DEF ServerSpec

\* No attempt that begins after an admin's write was announced posts to the agent as it
\* was before (loadEnabledAgents, lib/notification-agents).
THEOREM NoStaleDeliverySafe == ServerSpec => []NoStaleDelivery
<1>1. AgentSound => NoStaleDelivery
  BY DEF AgentSound, ReadSound, NoStaleDelivery
<1> QED
  BY <1>1, AgentInvariant, PTL

\* The cache of agents agrees with the table whenever no write is under way, whatever
\* reads of the table the writes have overtaken.
THEOREM CacheSoundSafe == ServerSpec => []CacheSound
<1>1. AgentSound => CacheSound
  BY DEF AgentSound, CacheSound
<1> QED
  BY <1>1, AgentInvariant, PTL
=============================================================================
