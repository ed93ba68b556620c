------------------------------ MODULE MfaSignIn ------------------------------
(***************************************************************************)
(* The second step of a sign-in, of one user.  The password step mints a   *)
(* challenge in the process's ledger; a POST reserves the challenge, has   *)
(* its code checked behind the persistent lockout, and redeems it.  An     *)
(* enrollment change (a step-up) has a code checked, too, with no          *)
(* challenge.  Handlers give way at every statement; the ledger is touched *)
(* between two awaits, in one step.                                        *)
(*                                                                         *)
(* A code is a recovery code or a TOTP step: good once, spent by a         *)
(* compare-and-swap.  Passkeys, which the lockout exempts, the rate limits *)
(* and the cap over all users are left out.                                *)
(***************************************************************************)
EXTENDS Integers, FiniteSets

CONSTANTS
    Challenges,      \* each is minted at most once
    Verifiers,       \* the handlers: a POST of a challenge, or a step-up
    Codes,
    MaxLive,         \* live challenges of the user
    MaxFailures,     \* wrong answers that burn a challenge
    LockThreshold,   \* wrong codes in a row that lock the account
    MaxThrows,       \* bound: statements that fail
    NoChallenge,     \* a step-up's
    WrongCode

ASSUME MfaAssumption ==
    /\ IsFiniteSet(Challenges)
    /\ MaxLive \in Nat \ {0} /\ MaxFailures \in Nat \ {0} /\ LockThreshold \in Nat \ {0}
    /\ MaxThrows \in Nat
    /\ NoChallenge \notin Challenges /\ WrongCode \notin Codes

VARIABLES
    minted,      \* the ledger: the challenges it knows
    challenge,   \* their entries
    verifier,
    spent,       \* codes that have been used
    lockout,     \* the user's row
    wrong,       \* history: wrong codes counted
    throws       \* bound: statements that have failed

mfaVars == <<minted, challenge, verifier, spent, lockout, wrong, throws>>

InLedger(c) == c \in minted

MfaTypeOK ==
    /\ minted \subseteq Challenges
    /\ challenge \in [Challenges ->
         [born : Nat,      \* its number in the order of minting, 0 before
          expired : BOOLEAN, failures : Nat, consumed : BOOLEAN, inFlight : BOOLEAN,
          sessions : Nat,   \* history: sessions minted for it,
          burned   : Nat,   \* codes spent on it,
          thrown   : Nat]]  \* and handlers that threw while they held it
    /\ verifier \in [Verifiers ->
         [pc   : {"idle", "ready", "lock", "read", "spend", "won", "cleared", "redeem",
                  "failed", "impose", "refused", "done"},
          at   : Challenges \cup {NoChallenge},
          code : Codes \cup {WrongCode}]]
    /\ spent \subseteq Codes
    /\ lockout \in [failed : Nat, level : Nat,
                    until : {"none", "ahead", "past", "longPast"}]
    /\ wrong \in Nat
    /\ throws \in 0..MaxThrows

NewChallenge == [born |-> 0, expired |-> FALSE, failures |-> 0, consumed |-> FALSE,
                 inFlight |-> FALSE, sessions |-> 0, burned |-> 0, thrown |-> 0]
NoVerifier == [pc |-> "idle", at |-> NoChallenge, code |-> WrongCode]
Answered   == [NoVerifier EXCEPT !.pc = "done"]

\* The challenges of C may be minted, the handlers of V come.
MfaInit(C, V) ==
    /\ minted = {}
    /\ challenge = [c \in Challenges |->
                     [NewChallenge EXCEPT !.born = IF c \in C THEN 0 ELSE 1]]
    /\ verifier = [v \in Verifiers |-> IF v \in V THEN NoVerifier ELSE Answered]
    /\ spent = {} /\ wrong = 0 /\ throws = 0
    /\ lockout = [failed |-> 0, level |-> 0, until |-> "none"]

-----------------------------------------------------------------------------
(* The ledger *)

\* Mutated form: a challenge being verified may be the victim.
EvictableAnyway(c) == TRUE

Evictable(c) == ~challenge[c].inFlight

\* registerToken: the expired go, then the oldest that nobody is verifying, until
\* there is room.
Mint(c) ==
    /\ challenge[c].born = 0
    /\ LET mine      == {d \in minted : ~challenge[d].expired}
           older(d)  == {e \in mine : Evictable(e) /\ challenge[e].born <= challenge[d].born}
           excess    == Cardinality(mine) - MaxLive + 1
           victims   == {d \in mine : Evictable(d) /\ Cardinality(older(d)) <= excess}
       IN minted' = (mine \ victims) \cup {c}
    /\ challenge' = [challenge EXCEPT
         ![c].born = 1 + Cardinality({d \in Challenges : challenge[d].born > 0})]
    /\ UNCHANGED <<verifier, spent, lockout, wrong, throws>>

\* Five minutes later.
ExpireChallenge(c) ==
    /\ InLedger(c) /\ ~challenge[c].expired
    /\ challenge' = [challenge EXCEPT ![c].expired = TRUE]
    /\ UNCHANGED <<minted, verifier, spent, lockout, wrong, throws>>

\* Looking an expired challenge up removes it, also while it is being verified.
Forget(c) ==
    /\ InLedger(c) /\ challenge[c].expired
    /\ minted' = minted \ {c}
    /\ UNCHANGED <<challenge, verifier, spent, lockout, wrong, throws>>

Usable(c) ==
    /\ InLedger(c) /\ ~challenge[c].expired
    /\ ~challenge[c].consumed /\ challenge[c].failures < MaxFailures

\* Mutated form: the challenge is claimed only when it is redeemed.
ReservableAnyway(c) == Usable(c)

Reservable(c) == Usable(c) /\ ~challenge[c].inFlight

\* releaseToken: what is not in the ledger any more is left alone.
Released(c, failed) ==
    IF c = NoChallenge \/ ~InLedger(c) THEN challenge
    ELSE [challenge EXCEPT ![c].inFlight = FALSE,
                           ![c].failures = IF failed THEN @ + 1 ELSE @]

-----------------------------------------------------------------------------
(* The handlers: POST /api/auth/sign-in/mfa, and a step-up *)

Step(v, pc) == verifier' = [verifier EXCEPT ![v].pc = pc]
Ends(v) == verifier' = [verifier EXCEPT ![v] = Answered]

Post(v) ==
    /\ verifier[v].pc = "idle"
    /\ \E c \in {d \in Challenges : Usable(d)}, code \in Codes \cup {WrongCode} :
         verifier' = [verifier EXCEPT ![v] = [pc |-> "ready", at |-> c, code |-> code]]
    /\ UNCHANGED <<minted, challenge, spent, lockout, wrong, throws>>

StepUp(v) ==
    /\ verifier[v].pc = "idle"
    /\ \E code \in Codes \cup {WrongCode} :
         verifier' = [verifier EXCEPT ![v] = [pc |-> "lock", at |-> NoChallenge,
                                              code |-> code]]
    /\ UNCHANGED <<minted, challenge, spent, lockout, wrong, throws>>

\* After the reads of the settings and of the password's version.
Reserve(v) ==
    LET c == verifier[v].at IN
    /\ verifier[v].pc = "ready"
    /\ IF Reservable(c)
       THEN challenge' = [challenge EXCEPT ![c].inFlight = TRUE] /\ Step(v, "lock")
       ELSE Ends(v) /\ UNCHANGED challenge
    /\ UNCHANGED <<minted, spent, lockout, wrong, throws>>

\* activeMfaLockout: while it lasts no code is looked at.
ReadLock(v) ==
    /\ verifier[v].pc = "lock"
    /\ IF lockout.until = "ahead"
       THEN challenge' = Released(verifier[v].at, FALSE) /\ Ends(v)
       ELSE Step(v, "read") /\ UNCHANGED challenge
    /\ UNCHANGED <<minted, spent, lockout, wrong, throws>>

ReadCode(v) ==
    /\ verifier[v].pc = "read"
    /\ Step(v, IF verifier[v].code \in Codes \ spent THEN "spend" ELSE "failed")
    /\ UNCHANGED <<minted, challenge, spent, lockout, wrong, throws>>

\* updateMany({where: {id, usedAt: null}}), or where lastUsedStep is older.
SpendCode(v) ==
    LET c == verifier[v].at IN
    /\ verifier[v].pc = "spend"
    /\ IF verifier[v].code \in spent
       THEN Step(v, "failed") /\ UNCHANGED <<challenge, spent>>
       ELSE /\ spent' = spent \cup {verifier[v].code}
            /\ challenge' = IF c = NoChallenge THEN challenge
                            ELSE [challenge EXCEPT ![c].burned = @ + 1]
            /\ Step(v, "won")
    /\ UNCHANGED <<minted, lockout, wrong, throws>>

\* recordMfaCodeSuccess: two statements, the second only long after a lockout.
ClearFailed(v) ==
    /\ verifier[v].pc = "won"
    /\ lockout' = [lockout EXCEPT !.failed = 0]
    /\ Step(v, "cleared")
    /\ UNCHANGED <<minted, challenge, spent, wrong, throws>>

ClearLevel(v) ==
    /\ verifier[v].pc = "cleared"
    /\ lockout' = IF lockout.level > 0 /\ lockout.until \in {"none", "longPast"}
                  THEN [lockout EXCEPT !.level = 0, !.until = "none"] ELSE lockout
    /\ Step(v, "redeem")
    /\ UNCHANGED <<minted, challenge, spent, wrong, throws>>

\* commitToken, and the session; a challenge that was evicted meanwhile is refused.
Redeem(v) ==
    LET c == verifier[v].at IN
    /\ verifier[v].pc = "redeem"
    /\ CASE c = NoChallenge -> Ends(v) /\ UNCHANGED challenge
         [] c # NoChallenge /\ InLedger(c) /\ challenge[c].inFlight ->
              /\ challenge' = [challenge EXCEPT ![c].inFlight = FALSE, ![c].consumed = TRUE,
                                                ![c].sessions = @ + 1]
              /\ Ends(v)
         [] OTHER -> Step(v, "refused") /\ UNCHANGED challenge
    /\ UNCHANGED <<minted, spent, lockout, wrong, throws>>

Refuse(v) ==
    /\ verifier[v].pc = "refused"
    /\ Ends(v)
    /\ UNCHANGED <<minted, challenge, spent, lockout, wrong, throws>>

\* recordMfaCodeFailure: the increment, whose result says whether to lock.
CountFailure(v) ==
    /\ verifier[v].pc = "failed"
    /\ lockout' = [lockout EXCEPT !.failed = @ + 1]
    /\ wrong' = wrong + 1
    /\ IF lockout'.failed < LockThreshold
       THEN challenge' = Released(verifier[v].at, TRUE) /\ Ends(v)
       ELSE Step(v, "impose") /\ UNCHANGED challenge
    /\ UNCHANGED <<minted, spent, throws>>

\* Mutated form: whoever counted up to the threshold imposes.
ImposableAnyway == TRUE

Imposable == lockout.failed >= LockThreshold

\* updateMany({where: {id, mfaFailedAttempts: {gte: threshold}}}).
Impose(v) ==
    /\ verifier[v].pc = "impose"
    /\ lockout' = IF Imposable
                  THEN [failed |-> 0, level |-> lockout.level + 1, until |-> "ahead"]
                  ELSE lockout
    /\ challenge' = Released(verifier[v].at, FALSE)
    /\ Ends(v)
    /\ UNCHANGED <<minted, spent, wrong, throws>>

\* A statement fails: the challenge is released, whatever was spent on it.
VerifyThrows(v) ==
    LET c == verifier[v].at IN
    /\ verifier[v].pc \in {"lock", "read", "spend", "won", "cleared", "failed", "impose"}
    /\ throws < MaxThrows
    /\ throws' = throws + 1
    /\ challenge' = IF c = NoChallenge THEN challenge
                    ELSE [Released(c, FALSE) EXCEPT ![c].thrown = @ + 1]
    /\ Ends(v)
    /\ UNCHANGED <<minted, spent, lockout, wrong>>

-----------------------------------------------------------------------------

\* The lockout ends; a day after that it is long past.
LockPasses ==
    /\ lockout.until \in {"ahead", "past"}
    /\ lockout' = [lockout EXCEPT !.until = IF @ = "ahead" THEN "past" ELSE "longPast"]
    /\ UNCHANGED <<minted, challenge, verifier, spent, wrong, throws>>

\* A restart kills every challenge; the row and the codes stay.
LoseMfa ==
    /\ minted' = {}
    /\ verifier' = [v \in Verifiers |->
                      IF verifier[v].pc = "idle" THEN NoVerifier ELSE Answered]
    /\ challenge' = [c \in Challenges |-> [challenge[c] EXCEPT !.inFlight = FALSE]]
    /\ UNCHANGED <<spent, lockout, wrong, throws>>

Verify(v) ==
    \/ Post(v) \/ StepUp(v) \/ Reserve(v) \/ ReadLock(v) \/ ReadCode(v) \/ SpendCode(v)
    \/ ClearFailed(v) \/ ClearLevel(v) \/ Redeem(v) \/ Refuse(v)
    \/ CountFailure(v) \/ Impose(v) \/ VerifyThrows(v)

MfaStep ==
    \/ \E c \in Challenges : Mint(c) \/ ExpireChallenge(c) \/ Forget(c)
    \/ \E v \in Verifiers : Verify(v)
    \/ LockPasses

-----------------------------------------------------------------------------

\* lib/mfa/mfa-token.ts: two requests "can never BOTH reach the factor verifier": a
\* challenge is good for one session, and costs one code; another only for each
\* handler that threw after it had spent one.
OneSignInPerChallenge ==
    \A c \in Challenges : /\ challenge[c].sessions <= 1
                          /\ challenge[c].burned <= 1 + challenge[c].thrown

\* A POST that has spent its user's code is not refused for want of its challenge,
\* however many challenges are minted meanwhile, unless the challenge expired.
SpentCodeSignsIn ==
    \A v \in Verifiers : verifier[v].pc = "refused" => challenge[verifier[v].at].expired

\* No lockout, and no step of its escalation, without as many wrong codes as it
\* takes, however many handlers count at once: none is imposed twice.
LockoutEarned == lockout.level * LockThreshold + lockout.failed <= wrong
=============================================================================
