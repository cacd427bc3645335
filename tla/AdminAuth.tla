------------------------------ MODULE AdminAuth ------------------------------
(***************************************************************************)
(* Administrator sign-in (app/api/admin_auth.py): WebAuthn challenges,     *)
(* passkeys and sessions in PostgreSQL, under the requests of several API  *)
(* workers. Each request is a sequence of transactions: the challenge is   *)
(* consumed in the first, the passkey verified in the second, the session  *)
(* opened in the third.                                                    *)
(*                                                                         *)
(* An authenticator is external: it signs a challenge with a counter that  *)
(* grows, or that is always zero (a platform's passkey). Its browser may   *)
(* send what it signed again, to another worker.                           *)
(*                                                                         *)
(* Abstracted: signatures (an assertion names its challenge), the router   *)
(* token, cookies, labels, and the face that is compared.                  *)
(***************************************************************************)
EXTENDS Naturals, FiniteSets

CONSTANTS
  Passkey,
  MaxChallenges,       \* bound: challenges that are issued
  MaxFinishes,         \* bound: register/finish and login/finish requests
  MaxCount,            \* bound: signatures of one authenticator
  MaxDirect            \* bound: sessions opened by the token or a face

ASSUME AdminAssumption ==
  {MaxChallenges, MaxFinishes, MaxCount, MaxDirect} \subseteq Nat

VARIABLES
  challenge,   \* AdminChallenge rows: absent, or their purpose
  stale,       \* challenges whose five minutes are over
  passkey,     \* AdminCredential rows, and who has locked them
  counter,     \* external: the authenticators' counters
  signed,      \* external: what they have signed
  finish,      \* the finish requests
  session,     \* AdminSession rows that were opened, what for, and whether they still admit
  enrolled     \* history variable: challenges that registered a passkey

adminAuth == <<challenge, stale, passkey, counter, signed, finish, session, enrolled>>

Challenge == 1..MaxChallenges
FinishId == 1..MaxFinishes
NoFinish == 0
Direct == 0                     \* the "challenge" of a session that needed none
Assertion == [challenge : Challenge, passkey : Passkey, count : 0..MaxCount]
-----------------------------------------------------------------------------
AdminInit ==
  /\ challenge = [c \in Challenge |-> "unissued"]
  /\ stale = {}
  /\ passkey = [k \in Passkey |-> [registered |-> FALSE, count |-> 0, held |-> NoFinish]]
  /\ counter = [k \in Passkey |-> 0]
  /\ signed = {}
  /\ finish = [r \in FinishId |-> [at |-> "new", assertion |-> {}, seen |-> 0]]
  /\ session = [open |-> {}, opened |-> [c \in Challenge \cup {Direct} |-> 0]]
  /\ enrolled = {}

\* register/options and login/options; nobody signs in before a passkey is registered.
IssueChallenge ==
  \E c \in Challenge, purpose \in {"register", "login"} :
    /\ challenge[c] = "unissued" /\ \A b \in 1..c-1 : challenge[b] # "unissued"
    /\ purpose = "login" => \E k \in Passkey : passkey[k].registered
    /\ challenge' = [challenge EXCEPT ![c] = purpose]
    /\ UNCHANGED <<stale, passkey, counter, signed, finish, session, enrolled>>

ChallengeExpires(c) ==
  /\ challenge[c] \in {"register", "login"} /\ c \notin stale
  /\ stale' = stale \cup {c}
  /\ UNCHANGED <<challenge, passkey, counter, signed, finish, session, enrolled>>

\* The authenticator (external).
Sign(c, k) ==
  /\ challenge[c] # "unissued"
  /\ \/ /\ counter[k] < MaxCount /\ \A a \in signed : a.passkey = k => a.count > 0
        /\ counter' = [counter EXCEPT ![k] = @ + 1]
     \/ counter[k] = 0 /\ UNCHANGED counter
  /\ signed' = signed \cup {[challenge |-> c, passkey |-> k, count |-> counter'[k]]}
  /\ UNCHANGED <<challenge, stale, passkey, finish, session, enrolled>>

-----------------------------------------------------------------------------
\* The finish requests: what is on the way is kept as a set of one assertion.

The(S) == CHOOSE x \in S : TRUE
Signed(r) == The(finish[r].assertion)
Arrives1(r) == finish[r].at = "new" /\ \A q \in 1..r-1 : finish[q].at # "new"
Ended1(r) == [finish EXCEPT ![r] = [at |-> "done", assertion |-> {}, seen |-> 0]]

\* consume_challenge: DELETE ... RETURNING; an expired row is deleted, but not accepted.
ReadOnly(c) == UNCHANGED challenge
Spent(c) == challenge' = [challenge EXCEPT ![c] = "spent"]

ConsumeChallenge(r) ==
  /\ Arrives1(r)
  /\ \E a \in signed, purpose \in {"register", "login"} :
       IF challenge[a.challenge] = purpose
       THEN /\ Spent(a.challenge)
            /\ finish' = IF a.challenge \in stale THEN Ended1(r)
                         ELSE [finish EXCEPT ![r].at = purpose, ![r].assertion = {a}]
       ELSE finish' = Ended1(r) /\ UNCHANGED challenge
  /\ UNCHANGED <<stale, passkey, counter, signed, session, enrolled>>

\* register_finish: a passkey that is there is refused.
RegisterPasskey(r) ==
  LET a == Signed(r)
  IN /\ finish[r].at = "register"
     /\ finish' = Ended1(r)
     /\ IF passkey[a.passkey].registered THEN UNCHANGED <<passkey, enrolled>>
        ELSE /\ passkey' = [passkey EXCEPT ![a.passkey] =
                              [registered |-> TRUE, count |-> a.count, held |-> NoFinish]]
             /\ enrolled' = enrolled \cup {a.challenge}
     /\ UNCHANGED <<challenge, stale, counter, signed, session>>

\* login_finish: SELECT ... FOR UPDATE of the passkey;
ReadsPasskey(r, k) == UNCHANGED passkey
LocksPasskey(r, k) ==
  passkey[k].held = NoFinish /\ passkey' = [passkey EXCEPT ![k].held = r]

FindPasskey(r) ==
  LET k == Signed(r).passkey
  IN /\ finish[r].at = "login"
     /\ IF passkey[k].registered
        THEN /\ LocksPasskey(r, k)
             /\ finish' = [finish EXCEPT ![r].at = "verifying", ![r].seen = passkey[k].count]
        ELSE finish' = Ended1(r) /\ UNCHANGED passkey
     /\ UNCHANGED <<challenge, stale, counter, signed, session, enrolled>>

\* the signature is good if its counter is ahead, or if nothing was ever counted; the
\* new counter is committed;
VerifyPasskey(r) ==
  LET a == Signed(r)
      held == passkey[a.passkey].held
  IN /\ finish[r].at = "verifying"
     /\ IF a.count > finish[r].seen \/ (a.count = 0 /\ finish[r].seen = 0)
        THEN /\ passkey' = [passkey EXCEPT ![a.passkey].count = a.count,
                                           ![a.passkey].held = IF held = r THEN NoFinish ELSE @]
             /\ finish' = [finish EXCEPT ![r].at = "verified"]
        ELSE /\ passkey' = [passkey EXCEPT ![a.passkey].held = IF held = r THEN NoFinish ELSE @]
             /\ finish' = Ended1(r)
     /\ UNCHANGED <<challenge, stale, counter, signed, session, enrolled>>

\* and set_admin_cookie.
Opens(c) == session' = [open |-> session.open \cup {c},
                        opened |-> [session.opened EXCEPT ![c] = @ + 1]]
OpenSession(r) ==
  /\ finish[r].at = "verified"
  /\ Opens(Signed(r).challenge)
  /\ finish' = Ended1(r)
  /\ UNCHANGED <<challenge, stale, passkey, counter, signed, enrolled>>

\* The worker stops, or the database fails: the transaction is rolled back, what was
\* committed before it stays.
FinishFails(r) ==
  /\ finish[r].at \notin {"new", "done"}
  /\ passkey' = [k \in Passkey |-> IF passkey[k].held = r
                                   THEN [passkey[k] EXCEPT !.held = NoFinish] ELSE passkey[k]]
  /\ finish' = Ended1(r)
  /\ UNCHANGED <<challenge, stale, counter, signed, session, enrolled>>

-----------------------------------------------------------------------------
\* token/login and face/login.
LogInDirectly ==
  /\ session.opened[Direct] < MaxDirect
  /\ Opens(Direct)
  /\ UNCHANGED <<challenge, stale, passkey, counter, signed, finish, enrolled>>

\* logout, or eight hours.
CloseSession ==
  /\ \E c \in session.open : session' = [session EXCEPT !.open = @ \ {c}]
  /\ UNCHANGED <<challenge, stale, passkey, counter, signed, finish, enrolled>>
-----------------------------------------------------------------------------
AdminNext ==
  \/ IssueChallenge \/ LogInDirectly \/ CloseSession
  \/ \E c \in Challenge : ChallengeExpires(c) \/ \E k \in Passkey : Sign(c, k)
  \/ \E r \in FinishId :
       \/ ConsumeChallenge(r) \/ RegisterPasskey(r) \/ FindPasskey(r)
       \/ VerifyPasskey(r) \/ OpenSession(r) \/ FinishFails(r)

AdminSpec == AdminInit /\ [][AdminNext]_adminAuth
-----------------------------------------------------------------------------
\* Correctness.

AdminTypeOK ==
  /\ challenge \in [Challenge -> {"unissued", "register", "login", "spent"}]
  /\ stale \subseteq Challenge /\ enrolled \subseteq Challenge
  /\ passkey \in [Passkey -> [registered : BOOLEAN, count : 0..MaxCount,
                              held : FinishId \cup {NoFinish}]]
  /\ counter \in [Passkey -> 0..MaxCount]
  /\ signed \subseteq Assertion
  /\ \A r \in FinishId :
       /\ finish[r].at \in {"new", "register", "login", "verifying", "verified", "done"}
       /\ finish[r].assertion \subseteq signed /\ Cardinality(finish[r].assertion) <= 1
       /\ finish[r].seen \in 0..MaxCount
  /\ session.open \subseteq Challenge \cup {Direct}
  /\ session.opened \in [Challenge \cup {Direct} -> Nat]

\* "DELETE RETURNING makes a challenge single-use even across multiple API workers"
\* (admin_auth.py:116): it opens one session or registers one passkey, whatever is sent again.
OneUsePerChallenge ==
  \A c \in Challenge : session.opened[c] + (IF c \in enrolled THEN 1 ELSE 0) <= 1

\* The counter by which a cloned authenticator is told never goes back, whichever of two
\* workers that verify the same passkey commits first.
SignCountGrows ==
  [][\A k \in Passkey : passkey[k].registered => passkey'[k].count >= passkey[k].count]_adminAuth
=============================================================================
