----------------------------- MODULE StoreProofs -----------------------------
(***************************************************************************)
(* Theorems of the components that keep rows in PostgreSQL or in a file,   *)
(* for any number of requests, rows and workers: AdminAuth, CatalogStore,  *)
(* SettingsStore, FaceStore and JsonFaces.                                 *)
(***************************************************************************)
EXTENDS AdminAuth, CatalogStore, SettingsStore, FaceStore, JsonFaces, FiniteSetTheorems,
        TLAPS

-----------------------------------------------------------------------------
\* Administrator sign-in. A finish request that is on its way carries one assertion, that
\* was signed.
Pending(r) == finish[r].at \in {"register", "login", "verifying", "verified"}
Carries(r, c) == Pending(r) /\ \E a \in finish[r].assertion : a.challenge = c

FinishType ==
  /\ finish \in [FinishId ->
                   [at : {"new", "register", "login", "verifying", "verified", "done"},
                    assertion : SUBSET Assertion, seen : 0..MaxCount]]
  /\ \A r \in FinishId : IF Pending(r) THEN \E a \in signed : finish[r].assertion = {a}
                         ELSE finish[r].assertion = {}

AdminType ==
  /\ challenge \in [Challenge -> {"unissued", "register", "login", "spent"}]
  /\ stale \subseteq Challenge /\ enrolled \subseteq Challenge
  /\ passkey \in [Passkey -> [registered : BOOLEAN, count : 0..MaxCount,
                              held : FinishId \cup {NoFinish}]]
  /\ counter \in [Passkey -> 0..MaxCount]
  /\ signed \subseteq Assertion
  /\ session \in [open : SUBSET (Challenge \cup {Direct}),
                  opened : [Challenge \cup {Direct} -> Nat]]
  /\ FinishType

\* A challenge that was used, or that a request carries, is spent; one request carries it,
\* and only before it is used.
Unused(c) == session.opened[c] = 0 /\ c \notin enrolled

UseInv ==
  /\ OneUsePerChallenge
  /\ \A c \in Challenge : challenge[c] # "spent" =>
       Unused(c) /\ \A r \in FinishId : ~Carries(r, c)
  /\ \A r \in FinishId, c \in Challenge : Carries(r, c) =>
       Unused(c) /\ \A q \in FinishId : Carries(q, c) => q = r

\* Who verifies a passkey holds its row, and has read the count that it still has.
RowInv ==
  \A r \in FinishId : finish[r].at = "verifying" =>
    LET k == Signed(r).passkey
    IN passkey[k].held = r /\ passkey[k].registered /\ finish[r].seen = passkey[k].count

AdminInv == AdminType /\ UseInv /\ RowInv

LEMMA SignedByPending ==
  ASSUME AdminType, NEW r \in FinishId, Pending(r)
  PROVE  /\ Signed(r) \in signed
         /\ finish[r].assertion = {Signed(r)}
         /\ Signed(r) \in Assertion
         /\ \A c \in Challenge : Carries(r, c) <=> c = Signed(r).challenge
<1>1. PICK a \in signed : finish[r].assertion = {a}
  BY DEF AdminType, FinishType
<1>2. Signed(r) = a
  BY <1>1 DEF Signed, The
<1>3. QED
  BY <1>1, <1>2 DEF AdminType, Carries

LEMMA AdminInvInit == AdminInit => AdminInv
<1> SUFFICES ASSUME AdminInit PROVE AdminInv
  OBVIOUS
<1> USE AdminAssumption
<1>1. \A r \in FinishId : ~Pending(r)
  BY DEF AdminInit, Pending
<1>2. AdminType
  BY <1>1 DEF AdminInit, AdminType, FinishType, Direct
<1>3. UseInv
  BY <1>1 DEF AdminInit, UseInv, Carries, Unused, OneUsePerChallenge, Direct
<1>4. RowInv
  BY DEF AdminInit, RowInv
<1>5. QED
  BY <1>2, <1>3, <1>4 DEF AdminInv

\* A request ends, or moves on with what it carries.
LEMMA FinishEnds ==
  ASSUME AdminType, NEW r \in FinishId, finish' = Ended1(r), signed' = signed
  PROVE  /\ FinishType'
         /\ ~Pending(r)' /\ finish'[r].assertion = {}
         /\ \A q \in FinishId \ {r} : finish'[q] = finish[q]
  BY AdminAssumption DEF AdminType, FinishType, Ended1, Pending

LEMMA FinishMoves ==
  ASSUME AdminType, NEW r \in FinishId, Pending(r), signed' = signed,
         NEW at \in {"verifying", "verified"}, NEW count \in 0..MaxCount,
         finish' = [finish EXCEPT ![r].at = at, ![r].seen = count]
  PROVE  /\ FinishType'
         /\ Pending(r)' /\ finish'[r].assertion = finish[r].assertion
         /\ finish'[r].at = at /\ finish'[r].seen = count
         /\ \A q \in FinishId \ {r} : finish'[q] = finish[q]
  BY AdminAssumption DEF AdminType, FinishType, Pending

LEMMA AdminTypeStep ==
  ASSUME AdminType, [AdminNext]_adminAuth
  PROVE  AdminType'
<1> USE AdminAssumption
<1>a. FinishType /\ UNCHANGED <<finish, signed>> => FinishType'
  BY DEF FinishType, Pending
<1>1. CASE UNCHANGED adminAuth
  BY <1>a, <1>1 DEF adminAuth, AdminType
<1>2. CASE IssueChallenge
  BY <1>a, <1>2 DEF IssueChallenge, AdminType
<1>3. CASE LogInDirectly
  BY <1>a, <1>3 DEF LogInDirectly, Opens, AdminType
<1>4. CASE CloseSession
  BY <1>a, <1>4 DEF CloseSession, AdminType
<1>5. ASSUME NEW c \in Challenge, ChallengeExpires(c) PROVE AdminType'
  BY <1>a, <1>5 DEF ChallengeExpires, AdminType
<1>6. ASSUME NEW c \in Challenge, NEW k \in Passkey, Sign(c, k) PROVE AdminType'
  <2>1. counter' \in [Passkey -> 0..MaxCount] /\ signed' \subseteq Assertion
    BY <1>6 DEF Sign, Assertion, AdminType
  <2>2. FinishType'
    BY <1>6 DEF Sign, FinishType, AdminType, Pending
  <2>3. QED
    BY <1>6, <2>1, <2>2 DEF Sign, AdminType
<1>7. ASSUME NEW r \in FinishId, ConsumeChallenge(r) PROVE AdminType'
  <2>1. PICK a \in signed, purpose \in {"register", "login"} :
          IF challenge[a.challenge] = purpose
          THEN /\ Spent(a.challenge)
               /\ finish' = IF a.challenge \in stale THEN Ended1(r)
                            ELSE [finish EXCEPT ![r].at = purpose, ![r].assertion = {a}]
          ELSE finish' = Ended1(r) /\ UNCHANGED challenge
    BY <1>7 DEF ConsumeChallenge
  <2>2. a \in Assertion /\ a.challenge \in Challenge
    BY DEF AdminType, Assertion
  <2>3. challenge' \in [Challenge -> {"unissued", "register", "login", "spent"}]
    BY <2>1, <2>2 DEF Spent, AdminType
  <2>4. ASSUME finish' = [finish EXCEPT ![r].at = purpose, ![r].assertion = {a}]
        PROVE  FinishType'
    <3>1. a \in signed /\ signed' = signed
      BY <1>7 DEF ConsumeChallenge
    <3> DEFINE q == [finish[r] EXCEPT !.at = purpose, !.assertion = {a}]
    <3>2. /\ q \in [at : {"new", "register", "login", "verifying", "verified", "done"},
                    assertion : SUBSET Assertion, seen : 0..MaxCount]
          /\ q.at = purpose /\ q.assertion = {a}
      BY <2>2, ZenonT(60) DEF AdminType, FinishType
    <3>3. finish' = [finish EXCEPT ![r] = q]
      BY <2>4 DEF AdminType, FinishType
    <3> HIDE DEF q
    <3>4. finish'[r] = q /\ \A p \in FinishId \ {r} : finish'[p] = finish[p]
      BY <3>3 DEF AdminType, FinishType
    <3>5. finish' \in [FinishId ->
                   [at : {"new", "register", "login", "verifying", "verified", "done"},
                    assertion : SUBSET Assertion, seen : 0..MaxCount]]
      BY <3>2, <3>3 DEF AdminType, FinishType
    <3>6. \A p \in FinishId : IF Pending(p)' THEN \E b \in signed' : finish'[p].assertion = {b}
                              ELSE finish'[p].assertion = {}
      BY <3>1, <3>2, <3>4 DEF AdminType, FinishType, Pending
    <3>7. QED
      BY <3>5, <3>6 DEF FinishType
  <2>5. FinishType'
    BY <1>7, <2>1, <2>4, FinishEnds DEF ConsumeChallenge
  <2>6. QED
    BY <1>7, <2>3, <2>5 DEF ConsumeChallenge, AdminType
<1>8. ASSUME NEW r \in FinishId, RegisterPasskey(r) PROVE AdminType'
  <2>1. Signed(r) \in Assertion
    BY <1>8, SignedByPending DEF RegisterPasskey, Pending
  <2>2. FinishType'
    BY <1>8, FinishEnds DEF RegisterPasskey
  <2>3. /\ Signed(r).challenge \in Challenge /\ Signed(r).passkey \in Passkey
        /\ Signed(r).count \in 0..MaxCount
    BY <2>1 DEF Assertion
  <2>4. /\ passkey' \in [Passkey -> [registered : BOOLEAN, count : 0..MaxCount,
                                    held : FinishId \cup {NoFinish}]]
        /\ enrolled' \subseteq Challenge
    <3> DEFINE k == Signed(r).passkey
               new == [registered |-> TRUE, count |-> Signed(r).count, held |-> NoFinish]
    <3>1. new \in [registered : BOOLEAN, count : 0..MaxCount, held : FinishId \cup {NoFinish}]
      BY <2>3
    <3>2. \/ UNCHANGED <<passkey, enrolled>>
          \/ /\ passkey' = [passkey EXCEPT ![k] = new]
             /\ enrolled' = enrolled \cup {Signed(r).challenge}
      BY <1>8 DEF RegisterPasskey
    <3> HIDE DEF new
    <3>3. QED
      BY <2>3, <3>1, <3>2 DEF AdminType
  <2>5. QED
    BY <1>8, <2>2, <2>4 DEF RegisterPasskey, AdminType
<1>9. ASSUME NEW r \in FinishId, FindPasskey(r) PROVE AdminType'
  <2>1. Signed(r) \in Assertion /\ Signed(r).passkey \in Passkey
    BY <1>9, SignedByPending DEF FindPasskey, Pending, Assertion
  <2>2. passkey[Signed(r).passkey].count \in 0..MaxCount
    BY <2>1 DEF AdminType
  <2>3. FinishType'
    BY <1>9, <2>2, FinishEnds, FinishMoves DEF FindPasskey, Pending
  <2>4. QED
    BY <1>9, <2>1, <2>3 DEF FindPasskey, LocksPasskey, AdminType
<1>10. ASSUME NEW r \in FinishId, VerifyPasskey(r) PROVE AdminType'
  <2>1. Signed(r) \in Assertion
    BY <1>10, SignedByPending DEF VerifyPasskey, Pending
  <2>2. passkey' \in [Passkey -> [registered : BOOLEAN, count : 0..MaxCount,
                                 held : FinishId \cup {NoFinish}]]
    <3> DEFINE k == Signed(r).passkey
               held1 == IF passkey[k].held = r THEN NoFinish ELSE passkey[k].held
    <3>1. /\ k \in Passkey /\ Signed(r).count \in 0..MaxCount
          /\ held1 \in FinishId \cup {NoFinish}
      BY <2>1 DEF AdminType, Assertion
    <3>2. \/ passkey' = [passkey EXCEPT ![k].count = Signed(r).count, ![k].held = held1]
          \/ passkey' = [passkey EXCEPT ![k].held = held1]
      BY <1>10 DEF VerifyPasskey
    <3>3. QED
      BY <3>1, <3>2 DEF AdminType
  <2>3. FinishType'
    <3>1. ASSUME finish' = [finish EXCEPT ![r].at = "verified"] PROVE FinishType'
      BY <1>10, <3>1 DEF VerifyPasskey, FinishType, AdminType, Pending
    <3>2. QED
      BY <1>10, <3>1, FinishEnds DEF VerifyPasskey
  <2>4. QED
    BY <1>10, <2>2, <2>3 DEF VerifyPasskey, AdminType
<1>11. ASSUME NEW r \in FinishId, OpenSession(r) PROVE AdminType'
  <2>1. Signed(r) \in Assertion
    BY <1>11, SignedByPending DEF OpenSession, Pending
  <2>2. FinishType'
    BY <1>11, FinishEnds DEF OpenSession
  <2>3. QED
    BY <1>11, <2>1, <2>2 DEF OpenSession, Opens, AdminType, Assertion
<1>12. ASSUME NEW r \in FinishId, FinishFails(r) PROVE AdminType'
  <2>1. FinishType'
    BY <1>12, FinishEnds DEF FinishFails
  <2>2. QED
    BY <1>12, <2>1 DEF FinishFails, AdminType
<1>13. QED
  BY <1>1, <1>2, <1>3, <1>4, <1>5, <1>6, <1>7, <1>8, <1>9, <1>10, <1>11, <1>12 DEF AdminNext

-----------------------------------------------------------------------------
\* What a step of one request does to the others: they carry what they carried.
LEMMA OthersCarry ==
  ASSUME AdminType, NEW r \in FinishId,
         \A q \in FinishId \ {r} : finish'[q] = finish[q]
  PROVE  \A q \in FinishId \ {r} : \A c : Carries(q, c)' <=> Carries(q, c)
  BY DEF Carries, Pending

LEMMA UseInvStep ==
  ASSUME AdminType, UseInv, AdminType', [AdminNext]_adminAuth
  PROVE  UseInv'
<1> USE AdminAssumption
<1>a. ASSUME UNCHANGED <<finish, enrolled>>,
             \A c \in Challenge : session'.opened[c] = session.opened[c],
             \A c \in Challenge : challenge'[c] # "spent" => challenge[c] # "spent"
      PROVE  UseInv'
  BY <1>a DEF UseInv, OneUsePerChallenge, Unused, Carries, Pending
<1>b. ASSUME NEW r \in FinishId, ~Pending(r)', UNCHANGED <<enrolled, session>>,
             \A q \in FinishId \ {r} : finish'[q] = finish[q],
             \A c \in Challenge : challenge'[c] # "spent" => challenge[c] # "spent"
      PROVE  UseInv'
  <2>1. \A q \in FinishId, c \in Challenge : Carries(q, c)' => Carries(q, c)
    BY <1>b, OthersCarry DEF Carries
  <2>2. QED
    BY <1>b, <2>1 DEF UseInv, OneUsePerChallenge, Unused
<1>1. CASE UNCHANGED adminAuth
  BY <1>a, <1>1 DEF adminAuth
<1>2. CASE IssueChallenge
  BY <1>a, <1>2 DEF IssueChallenge, AdminType
<1>3. CASE LogInDirectly
  BY <1>a, <1>3 DEF LogInDirectly, Opens, AdminType, Direct, Challenge
<1>4. CASE CloseSession
  BY <1>a, <1>4 DEF CloseSession, AdminType
<1>5. ASSUME NEW c \in Challenge, ChallengeExpires(c) PROVE UseInv'
  BY <1>a, <1>5 DEF ChallengeExpires
<1>6. ASSUME NEW c \in Challenge, NEW k \in Passkey, Sign(c, k) PROVE UseInv'
  BY <1>a, <1>6 DEF Sign
<1>7. ASSUME NEW r \in FinishId, ConsumeChallenge(r) PROVE UseInv'
  <2>1. PICK a \in signed, purpose \in {"register", "login"} :
          IF challenge[a.challenge] = purpose
          THEN /\ Spent(a.challenge)
               /\ finish' = IF a.challenge \in stale THEN Ended1(r)
                            ELSE [finish EXCEPT ![r].at = purpose, ![r].assertion = {a}]
          ELSE finish' = Ended1(r) /\ UNCHANGED challenge
    BY <1>7 DEF ConsumeChallenge
  <2>2. a.challenge \in Challenge
    BY DEF AdminType, Assertion
  <2>3. CASE finish' = Ended1(r)
    <3>1. \A c \in Challenge : challenge'[c] # "spent" => challenge[c] # "spent"
      BY <2>1, <2>2 DEF Spent, AdminType
    <3>2. QED
      BY <1>b, <1>7, <2>3, <3>1, FinishEnds DEF ConsumeChallenge
  <2>4. CASE /\ challenge[a.challenge] = purpose /\ Spent(a.challenge)
             /\ finish' = [finish EXCEPT ![r].at = purpose, ![r].assertion = {a}]
    <3> DEFINE new == a.challenge
    <3>1. \A q \in FinishId \ {r} : finish'[q] = finish[q]
      BY <2>4 DEF AdminType, FinishType
    <3>2. finish'[r].assertion = {a} /\ Pending(r)'
      BY <2>4 DEF AdminType, FinishType, Pending
    <3>3. \A c \in Challenge : Carries(r, c)' <=> c = new
      BY <2>2, <3>2 DEF Carries
    <3>4. challenge'[new] = "spent" /\ \A c \in Challenge \ {new} : challenge'[c] = challenge[c]
      BY <2>2, <2>4 DEF Spent, AdminType
    <3>5. Unused(new) /\ \A q \in FinishId : ~Carries(q, new)
      BY <2>2, <2>4 DEF UseInv
    <3>6. UNCHANGED <<session, enrolled>>
      BY <1>7 DEF ConsumeChallenge
    <3>7. \A q \in FinishId \ {r} : \A c \in Challenge : Carries(q, c)' <=> Carries(q, c)
      BY <3>1, OthersCarry
    <3>8. \A c \in Challenge : ~Carries(r, c)
      BY <1>7 DEF ConsumeChallenge, Arrives1, Carries, Pending
    <3> HIDE DEF new
    <3>9. QED
      BY <3>3, <3>4, <3>5, <3>6, <3>7, <3>8 DEF UseInv, OneUsePerChallenge, Unused
  <2>5. QED
    BY <2>1, <2>3, <2>4
<1>8. ASSUME NEW r \in FinishId, RegisterPasskey(r) PROVE UseInv'
  <2> DEFINE used == Signed(r).challenge
  <2>1. /\ used \in Challenge /\ \A c \in Challenge : Carries(r, c) <=> c = used
    BY <1>8, SignedByPending DEF RegisterPasskey, Pending, Assertion
  <2>2. /\ ~Pending(r)' /\ \A q \in FinishId \ {r} : finish'[q] = finish[q]
        /\ UNCHANGED <<challenge, session>>
    BY <1>8, FinishEnds DEF RegisterPasskey
  <2>3. enrolled' = enrolled \/ enrolled' = enrolled \cup {used}
    BY <1>8 DEF RegisterPasskey
  <2>4. \A q \in FinishId \ {r} : \A c \in Challenge : Carries(q, c)' <=> Carries(q, c)
    BY <2>2, OthersCarry
  <2>5. \A c \in Challenge : ~Carries(r, c)'
    BY <2>2 DEF Carries
  <2>6. Unused(used) /\ challenge[used] = "spent" /\ \A q \in FinishId \ {r} : ~Carries(q, used)
    BY <1>8, <2>1 DEF UseInv
  <2> HIDE DEF used
  <2>7. QED
    BY <2>1, <2>2, <2>3, <2>4, <2>5, <2>6 DEF UseInv, OneUsePerChallenge, Unused, AdminType
<1>9. ASSUME NEW r \in FinishId, FindPasskey(r) PROVE UseInv'
  <2>1. CASE finish' = Ended1(r)
    BY <1>b, <1>9, <2>1, FinishEnds DEF FindPasskey
  <2>2. CASE finish'[r].at = "verifying" /\ finish'[r].assertion = finish[r].assertion
             /\ \A q \in FinishId \ {r} : finish'[q] = finish[q]
    <3>1. \A q \in FinishId : \A c \in Challenge : Carries(q, c)' <=> Carries(q, c)
      BY <1>9, <2>2 DEF FindPasskey, Carries, Pending
    <3>2. QED
      BY <1>9, <3>1 DEF FindPasskey, UseInv, OneUsePerChallenge, Unused
  <2>3. QED
    BY <1>9, <2>1, <2>2 DEF FindPasskey, AdminType, FinishType
<1>10. ASSUME NEW r \in FinishId, VerifyPasskey(r) PROVE UseInv'
  <2>1. CASE finish' = Ended1(r)
    BY <1>b, <1>10, <2>1, FinishEnds DEF VerifyPasskey
  <2>2. CASE finish' = [finish EXCEPT ![r].at = "verified"]
    <3>1. \A q \in FinishId : \A c \in Challenge : Carries(q, c)' <=> Carries(q, c)
      BY <1>10, <2>2 DEF VerifyPasskey, Carries, Pending, AdminType, FinishType
    <3>2. QED
      BY <1>10, <3>1 DEF VerifyPasskey, UseInv, OneUsePerChallenge, Unused
  <2>3. QED
    BY <1>10, <2>1, <2>2 DEF VerifyPasskey
<1>11. ASSUME NEW r \in FinishId, OpenSession(r) PROVE UseInv'
  <2> DEFINE used == Signed(r).challenge
  <2>1. /\ used \in Challenge /\ \A c \in Challenge : Carries(r, c) <=> c = used
    BY <1>11, SignedByPending DEF OpenSession, Pending, Assertion
  <2>2. /\ ~Pending(r)' /\ \A q \in FinishId \ {r} : finish'[q] = finish[q]
        /\ UNCHANGED <<challenge, enrolled>>
    BY <1>11, FinishEnds DEF OpenSession
  <2>3. /\ session'.opened[used] = session.opened[used] + 1
        /\ \A c \in Challenge \ {used} : session'.opened[c] = session.opened[c]
    BY <1>11, <2>1 DEF OpenSession, Opens, AdminType
  <2>4. \A q \in FinishId \ {r} : \A c \in Challenge : Carries(q, c)' <=> Carries(q, c)
    BY <2>2, OthersCarry
  <2>5. \A c \in Challenge : ~Carries(r, c)'
    BY <2>2 DEF Carries
  <2>6. Unused(used) /\ challenge[used] = "spent" /\ \A q \in FinishId \ {r} : ~Carries(q, used)
    BY <1>11, <2>1 DEF UseInv
  <2> HIDE DEF used
  <2>7. QED
    BY <2>1, <2>2, <2>3, <2>4, <2>5, <2>6, SMTT(30)
    DEF UseInv, OneUsePerChallenge, Unused, AdminType
<1>12. ASSUME NEW r \in FinishId, FinishFails(r) PROVE UseInv'
  BY <1>b, <1>12, FinishEnds DEF FinishFails
<1>13. QED
  BY <1>1, <1>2, <1>3, <1>4, <1>5, <1>6, <1>7, <1>8, <1>9, <1>10, <1>11, <1>12 DEF AdminNext

-----------------------------------------------------------------------------
\* What SignCountGrows asks of one step.
CountsGrow ==
  \A k \in Passkey : passkey[k].registered => passkey'[k].count >= passkey[k].count

\* Two requests do not verify the same passkey, for both would hold its row.
LEMMA RowInvStep ==
  ASSUME AdminType, RowInv, AdminType', [AdminNext]_adminAuth
  PROVE  RowInv' /\ CountsGrow
<1> USE AdminAssumption
<1>a. ASSUME UNCHANGED <<passkey, finish>> PROVE RowInv' /\ CountsGrow
  BY <1>a DEF RowInv, CountsGrow, Signed, AdminType
<1>b. ASSUME NEW r \in FinishId, UNCHANGED passkey, finish'[r].at # "verifying",
             \A q \in FinishId \ {r} : finish'[q] = finish[q]
      PROVE  RowInv' /\ CountsGrow
  BY <1>b DEF RowInv, CountsGrow, Signed, AdminType
\* Whoever changes a row that r does not verify.
<1> DEFINE Spared(k, r) ==
             passkey[k].registered =>
               /\ passkey'[k].registered /\ passkey'[k].count >= passkey[k].count
               /\ passkey[k].held # r =>
                    passkey'[k].held = passkey[k].held /\ passkey'[k].count = passkey[k].count
<1>c. ASSUME NEW r \in FinishId, finish'[r].at # "verifying",
             \A q \in FinishId \ {r} : finish'[q] = finish[q],
             \A k \in Passkey : Spared(k, r)
      PROVE  RowInv' /\ CountsGrow
  <2>1. ASSUME NEW q \in FinishId, finish'[q].at = "verifying"
        PROVE  LET k == Signed(q).passkey
               IN passkey'[k].held = q /\ passkey'[k].registered
                  /\ finish[q].seen = passkey'[k].count
    <3>1. q # r /\ finish[q].at = "verifying"
      BY <1>c, <2>1
    <3>2. Signed(q).passkey \in Passkey
      BY <3>1, SignedByPending DEF Pending, Assertion
    <3>3. QED
      BY <1>c, <3>1, <3>2 DEF RowInv
  <2>2. \A q \in FinishId : finish'[q].at = "verifying" => finish'[q] = finish[q]
    BY <1>c
  <2>3. RowInv'
    BY <2>1, <2>2 DEF RowInv, Signed
  <2>4. QED
    BY <1>c, <2>3 DEF CountsGrow
<1>1. CASE UNCHANGED adminAuth
  BY <1>a, <1>1 DEF adminAuth
<1>2. CASE IssueChallenge \/ LogInDirectly \/ CloseSession
  BY <1>a, <1>2 DEF IssueChallenge, LogInDirectly, CloseSession
<1>3. ASSUME NEW c \in Challenge,
             ChallengeExpires(c) \/ \E k \in Passkey : Sign(c, k)
      PROVE  RowInv' /\ CountsGrow
  BY <1>a, <1>3 DEF ChallengeExpires, Sign
<1>4. ASSUME NEW r \in FinishId, ConsumeChallenge(r) PROVE RowInv' /\ CountsGrow
  BY <1>b, <1>4 DEF ConsumeChallenge, Ended1, AdminType, FinishType
<1>5. ASSUME NEW r \in FinishId, RegisterPasskey(r) PROVE RowInv' /\ CountsGrow
  <2>1. Signed(r).passkey \in Passkey
    BY <1>5, SignedByPending DEF RegisterPasskey, Pending, Assertion
  <2>2. \A k \in Passkey : passkey[k].registered => passkey'[k] = passkey[k]
    BY <1>5, <2>1 DEF RegisterPasskey, AdminType
  <2>3. finish'[r].at # "verifying" /\ \A q \in FinishId \ {r} : finish'[q] = finish[q]
    BY <1>5, FinishEnds DEF RegisterPasskey, Pending
  <2>4. \A k \in Passkey : passkey[k].count >= passkey[k].count
    BY DEF AdminType
  <2>5. \A k \in Passkey : Spared(k, r)
    BY <2>2, <2>4
  <2>6. QED
    BY <1>c, <2>3, <2>5
<1>6. ASSUME NEW r \in FinishId, FindPasskey(r) PROVE RowInv' /\ CountsGrow
  <2> DEFINE k == Signed(r).passkey
  <2>1. k \in Passkey
    BY <1>6, SignedByPending DEF FindPasskey, Pending, Assertion
  <2>2. CASE ~passkey[k].registered
    BY <1>b, <1>6, <2>2 DEF FindPasskey, Ended1, AdminType, FinishType
  <2>3. CASE passkey[k].registered
    <3>1. /\ passkey[k].held = NoFinish
          /\ passkey'[k].held = r /\ passkey'[k].registered
          /\ passkey'[k].count = passkey[k].count
          /\ \A j \in Passkey \ {k} : passkey'[j] = passkey[j]
      BY <1>6, <2>1, <2>3 DEF FindPasskey, LocksPasskey, AdminType
    <3>2. /\ finish'[r].seen = passkey[k].count /\ Signed(r)' = Signed(r)
          /\ \A q \in FinishId \ {r} : finish'[q] = finish[q]
      BY <1>6, <2>3 DEF FindPasskey, AdminType, FinishType, Signed
    <3>3. \A q \in FinishId : finish[q].at = "verifying" => Signed(q).passkey \in Passkey
      BY SignedByPending DEF Pending, Assertion
    <3>4. ASSUME NEW q \in FinishId \ {r}, finish'[q].at = "verifying"
          PROVE  /\ Signed(q)' = Signed(q) /\ Signed(q).passkey \in Passkey \ {k}
                 /\ passkey[Signed(q).passkey].held = q
                 /\ passkey[Signed(q).passkey].registered
                 /\ finish'[q].seen = passkey[Signed(q).passkey].count
      BY <3>1, <3>2, <3>3, <3>4 DEF RowInv, Signed, FinishId, NoFinish
    <3> HIDE DEF k
    <3>5. RowInv'
      BY <3>1, <3>2, <3>4 DEF RowInv, k
    <3>6. CountsGrow
      BY <3>1, <2>1 DEF CountsGrow, AdminType
    <3>7. QED
      BY <3>5, <3>6
  <2>4. QED
    BY <2>2, <2>3
<1>7. ASSUME NEW r \in FinishId, VerifyPasskey(r) PROVE RowInv' /\ CountsGrow
  <2> DEFINE a == Signed(r)
             k == a.passkey
  <2>1. k \in Passkey /\ a.count \in 0..MaxCount
    BY <1>7, SignedByPending DEF VerifyPasskey, Pending, Assertion
  <2>2. /\ passkey[k].held = r /\ passkey[k].registered
        /\ finish[r].seen = passkey[k].count
    BY <1>7 DEF VerifyPasskey, RowInv
  <2>3. finish'[r].at # "verifying" /\ \A q \in FinishId \ {r} : finish'[q] = finish[q]
    BY <1>7 DEF VerifyPasskey, Ended1, AdminType, FinishType
  <2> HIDE DEF a
  <2>4. \/ /\ a.count > passkey[k].count
           /\ passkey' = [passkey EXCEPT ![k].count = a.count, ![k].held = NoFinish]
        \/ passkey' = [passkey EXCEPT ![k].held = NoFinish]
    BY <1>7, <2>2 DEF VerifyPasskey, a
  <2> HIDE DEF k
  <2>5. /\ passkey \in [Passkey -> [registered : BOOLEAN, count : 0..MaxCount,
                                   held : FinishId \cup {NoFinish}]]
        /\ \A j \in Passkey : passkey[j].count \in Nat
    BY DEF AdminType
  <2>6. /\ passkey'[k].registered = passkey[k].registered
        /\ passkey'[k].count >= passkey[k].count
        /\ \A j \in Passkey \ {k} : passkey'[j] = passkey[j]
    BY <2>1, <2>4, <2>5
  <2>7. Spared(k, r)
    BY <2>2, <2>6
  <2>8. \A j \in Passkey : passkey[j].count >= passkey[j].count
    BY <2>5
  <2>9. \A j \in Passkey \ {k} : Spared(j, r)
    BY <2>6, <2>8
  <2>10. QED
    BY <1>c, <2>3, <2>7, <2>9
<1>8. ASSUME NEW r \in FinishId, OpenSession(r) PROVE RowInv' /\ CountsGrow
  BY <1>b, <1>8 DEF OpenSession, Ended1, AdminType, FinishType
<1>9. ASSUME NEW r \in FinishId, FinishFails(r) PROVE RowInv' /\ CountsGrow
  <2>1. finish'[r].at # "verifying" /\ \A q \in FinishId \ {r} : finish'[q] = finish[q]
    BY <1>9, FinishEnds DEF FinishFails, Pending
  <2>2. ASSUME NEW k \in Passkey PROVE Spared(k, r)
    <3>1. \/ passkey'[k] = passkey[k]
          \/ passkey[k].held = r /\ passkey'[k] = [passkey[k] EXCEPT !.held = NoFinish]
      BY <1>9 DEF FinishFails
    <3>2. passkey[k] \in [registered : BOOLEAN, count : 0..MaxCount,
                          held : FinishId \cup {NoFinish}]
      BY DEF AdminType
    <3>3. QED
      BY <3>1, <3>2
  <2>3. QED
    BY <1>c, <2>1, <2>2
<1>10. QED
  BY <1>1, <1>2, <1>3, <1>4, <1>5, <1>6, <1>7, <1>8, <1>9 DEF AdminNext

-----------------------------------------------------------------------------
LEMMA AdminInvStep == AdminInv /\ [AdminNext]_adminAuth => AdminInv' /\ CountsGrow
  BY AdminTypeStep, UseInvStep, RowInvStep DEF AdminInv

LEMMA AdminInvariant == AdminSpec => []AdminInv
  BY AdminInvInit, AdminInvStep, PTL DEF AdminSpec

\* "DELETE RETURNING makes a challenge single-use even across multiple API workers"
\* (admin_auth.py:116): whatever is signed, sent twice, interrupted or too late, a challenge
\* opens one session or registers one passkey.
THEOREM AdminOneUse == AdminSpec => []OneUsePerChallenge
<1>1. AdminInv => OneUsePerChallenge
  BY DEF AdminInv, UseInv
<1>2. QED
  BY <1>1, AdminInvariant, PTL

\* The counter of a passkey never goes back (admin_auth.py: login_finish): two workers that
\* verify it at the same time take its row in turn.
THEOREM AdminSignCounts == AdminSpec => SignCountGrows
<1>1. AdminInv /\ [AdminNext]_adminAuth =>
        [\A k \in Passkey : passkey[k].registered => passkey'[k].count >= passkey[k].count]_adminAuth
  BY AdminInvStep DEF CountsGrow
<1>2. QED
  BY <1>1, AdminInvariant, PTL DEF AdminSpec, SignCountGrows

LEMMA AdminTypeCorrect == AdminSpec => []AdminTypeOK
<1>1. ASSUME AdminInv PROVE AdminTypeOK
  <2>1. ASSUME NEW r \in FinishId
        PROVE  finish[r].assertion \subseteq signed /\ Cardinality(finish[r].assertion) <= 1
    <3>1. \/ finish[r].assertion = {}
          \/ \E a \in signed : finish[r].assertion = {a}
      BY <1>1 DEF AdminInv, AdminType, FinishType
    <3>2. Cardinality(finish[r].assertion) \in {0, 1}
      BY <3>1, FS_EmptySet, FS_Singleton
    <3>3. QED
      BY <3>1, <3>2
  <2>2. \A r \in FinishId :
          /\ finish[r].at \in {"new", "register", "login", "verifying", "verified", "done"}
          /\ finish[r].seen \in 0..MaxCount
    BY <1>1 DEF AdminInv, AdminType, FinishType
  <2>3. session.open \subseteq Challenge \cup {Direct}
        /\ session.opened \in [Challenge \cup {Direct} -> Nat]
    BY <1>1 DEF AdminInv, AdminType
  <2>4. QED
    BY <1>1, <2>1, <2>2, <2>3 DEF AdminTypeOK, AdminInv, AdminType
<1>2. QED
  BY <1>1, AdminInvariant, PTL

-----------------------------------------------------------------------------
\* The catalog. A bootstrap that is under way has the advisory lock, removes nothing and,
\* once it has counted no scenario, there is none unless an edit has come between.
Bootstrapping(r) == edit[r].kind = "seed" /\ Open(r)

CatalogInv ==
  /\ CatalogTypeOK
  /\ BootstrapSucceeds
  /\ \A r \in EditId : edit[r].kind = "seed" => edit[r].removes = {}
  /\ \A r \in EditId : Bootstrapping(r) =>
       /\ advisory = r
       /\ edit[r].at # "counting" => rows = {} \/ edit[r].disturbed

EditType == [at : {"new", "counting", "deleting", "inserting", "validated", "counted",
                   "written", "done", "failed"},
             kind : {"none", "seed", "import", "upsert", "delete"},
             removes : SUBSET ScenarioId, adds : SUBSET ScenarioId,
             disturbed : BOOLEAN]

LEMMA CatalogInvInit == CatalogInit => CatalogInv
  BY CatalogAssumption
  DEF CatalogInit, CatalogInv, CatalogTypeOK, FreshEdit, BootstrapSucceeds, Bootstrapping,
      Open, NoEdit

\* A request that moves on, or that ends, keeps what it is.
LEMMA EditGoes ==
  ASSUME edit \in [EditId -> EditType], NEW r \in EditId, NEW from,
         NEW to \in {"counting", "deleting", "inserting", "validated", "counted", "written",
                     "done", "failed"},
         Goes(r, from, to)
  PROVE  /\ edit' \in [EditId -> EditType]
         /\ edit[r].at = from /\ edit'[r] = [edit[r] EXCEPT !.at = to]
         /\ \A q \in EditId \ {r} : edit'[q] = edit[q]
  BY DEF Goes, EditType

LEMMA EditEnds ==
  ASSUME edit \in [EditId -> EditType], NEW r \in EditId,
         edit' = [edit EXCEPT ![r] = EndedEdit]
  PROVE  /\ edit' \in [EditId -> EditType]
         /\ edit'[r].at = "done" /\ edit'[r].kind = "none"
         /\ \A q \in EditId \ {r} : edit'[q] = edit[q]
  BY DEF EndedEdit, FreshEdit, EditType

LEMMA EditStarts ==
  ASSUME edit \in [EditId -> EditType], NEW r \in EditId,
         NEW kind \in {"seed", "import", "upsert", "delete"},
         NEW at \in {"counting", "deleting", "validated", "counted"},
         NEW removes \in SUBSET ScenarioId, NEW adds \in SUBSET ScenarioId,
         Starts(r, kind, at, removes, adds)
  PROVE  /\ edit' \in [EditId -> EditType]
         /\ edit'[r] = [at |-> at, kind |-> kind, removes |-> removes, adds |-> adds,
                        disturbed |-> FALSE]
         /\ \A q \in EditId \ {r} : edit'[q] = edit[q]
  BY DEF Starts, FreshEdit, EditType

LEMMA CatalogInvStep == CatalogInv /\ [CatalogNext]_catalogStore => CatalogInv'
<1> SUFFICES ASSUME CatalogInv, [CatalogNext]_catalogStore PROVE CatalogInv'
  OBVIOUS
<1> USE CatalogAssumption
<1>t. /\ edit \in [EditId -> EditType] /\ rows \subseteq ScenarioId
      /\ held \in [ScenarioId -> EditId \cup {NoEdit}] /\ advisory \in EditId \cup {NoEdit}
  BY DEF CatalogInv, CatalogTypeOK, EditType
<1>h. ASSUME NEW r \in EditId, Releases(r)
      PROVE  /\ held' \in [ScenarioId -> EditId \cup {NoEdit}]
             /\ advisory' \in EditId \cup {NoEdit}
             /\ advisory # r => advisory' = advisory
  BY <1>t, <1>h DEF Releases, Unheld
<1>g. ASSUME NEW r \in EditId, NEW ids, Holds(r, ids)
      PROVE  held' \in [ScenarioId -> EditId \cup {NoEdit}]
  BY <1>t, <1>g DEF Holds
\* A step of r that changes neither the rows nor the requests of others.
<1> DEFINE Kept(r) ==
      /\ edit' \in [EditId -> EditType]
      /\ held' \in [ScenarioId -> EditId \cup {NoEdit}]
      /\ advisory' \in EditId \cup {NoEdit}
      /\ rows' = rows
      /\ \A q \in EditId \ {r} : edit'[q] = edit[q]
      /\ \A q \in EditId \ {r} : advisory = q => advisory' = q
<1>k. ASSUME NEW r \in EditId, Kept(r),
             edit'[r].kind = "seed" =>
               /\ edit'[r].removes = {}
               /\ edit'[r].at = "failed" => edit'[r].disturbed
               /\ Bootstrapping(r)' =>
                    /\ advisory' = r
                    /\ edit'[r].at # "counting" => rows = {} \/ edit'[r].disturbed
      PROVE  CatalogInv'
  <2>1. CatalogTypeOK'
    BY <1>t, <1>k DEF CatalogTypeOK, EditType
  <2>2. QED
    BY <2>1, <1>k DEF CatalogInv, BootstrapSucceeds, Bootstrapping, Open
<1>1. CASE UNCHANGED catalogStore
  BY <1>1 DEF catalogStore, CatalogInv, CatalogTypeOK, BootstrapSucceeds, Bootstrapping, Open
<1>2. ASSUME NEW r \in EditId, SeedDemoCatalog(r) PROVE CatalogInv'
  <2>1. /\ edit' \in [EditId -> EditType]
        /\ \A q \in EditId \ {r} : edit'[q] = edit[q]
        /\ edit'[r] = [at |-> "counting", kind |-> "seed", removes |-> {}, adds |-> Demo,
                       disturbed |-> FALSE]
    BY <1>t, <1>2, EditStarts, SMTT(30) DEF SeedDemoCatalog
  <2>2. Kept(r) /\ advisory' = r
    BY <1>t, <1>2, <2>1 DEF SeedDemoCatalog, LocksAdvisory, NoEdit, EditId
  <2>3. QED
    BY <1>k, <2>1, <2>2
<1>3. ASSUME NEW r \in EditId, CountScenarios(r) PROVE CatalogInv'
  <2>1. CASE rows = {}
    <3>1. /\ edit' \in [EditId -> EditType]
          /\ \A q \in EditId \ {r} : edit'[q] = edit[q]
          /\ edit[r].at = "counting" /\ edit'[r] = [edit[r] EXCEPT !.at = "inserting"]
      BY <1>t, <1>3, <2>1, EditGoes DEF CountScenarios
    <3>2. advisory = r /\ edit[r].removes = {} /\ UNCHANGED <<rows, held, advisory>>
      BY <1>3, <2>1, <3>1 DEF CountScenarios, CatalogInv, Bootstrapping, Open
    <3>3. Kept(r)
      BY <1>t, <3>1, <3>2
    <3>4. edit'[r].removes = {} /\ edit'[r].at = "inserting"
      BY <1>t, <3>1, <3>2 DEF EditType
    <3>5. QED
      BY <1>k, <2>1, <3>2, <3>3, <3>4
  <2>2. CASE rows # {}
    <3>1. /\ edit' \in [EditId -> EditType]
          /\ \A q \in EditId \ {r} : edit'[q] = edit[q]
          /\ edit'[r].kind = "none"
      BY <1>t, <1>3, <2>2, EditEnds DEF CountScenarios
    <3>2. Kept(r)
      BY <1>t, <1>3, <2>2, <3>1 DEF CountScenarios
    <3>3. QED
      BY <1>k, <3>1, <3>2
  <2>3. QED
    BY <2>1, <2>2
<1>4. ASSUME NEW r \in EditId, ReplaceCatalog(r) \/ UpsertScenario(r) \/ DeleteScenario(r)
      PROVE  CatalogInv'
  <2>1. /\ edit' \in [EditId -> EditType] /\ edit'[r].kind # "seed"
        /\ \A q \in EditId \ {r} : edit'[q] = edit[q]
    <3>1. ASSUME NEW kind \in {"import", "upsert", "delete"},
                 NEW at \in {"deleting", "validated", "counted"},
                 NEW removes \in SUBSET ScenarioId, NEW adds \in SUBSET ScenarioId,
                 Starts(r, kind, at, removes, adds)
          PROVE  /\ edit' \in [EditId -> EditType] /\ edit'[r].kind # "seed"
                 /\ \A q \in EditId \ {r} : edit'[q] = edit[q]
      BY <1>t, <3>1 DEF Starts, FreshEdit, EditType
    <3>2. rows \in SUBSET ScenarioId /\ \A s \in ScenarioId : {s} \in SUBSET ScenarioId
      BY <1>t
    <3>3. CASE ReplaceCatalog(r)
      <4>1. PICK adds \in SUBSET ScenarioId : Starts(r, "import", "deleting", rows, adds)
        BY <3>3 DEF ReplaceCatalog
      <4>2. QED
        BY <3>1, <3>2, <4>1
    <3>4. CASE UpsertScenario(r)
      <4>1. PICK s \in ScenarioId : Starts(r, "upsert", "validated", {}, {s})
        BY <3>4 DEF UpsertScenario
      <4>2. QED
        BY <3>1, <3>2, <4>1
    <3>5. CASE DeleteScenario(r)
      <4>1. PICK s \in ScenarioId : Starts(r, "delete", "counted", {s}, {})
        BY <3>5 DEF DeleteScenario
      <4>2. QED
        BY <3>1, <3>2, <4>1
    <3>6. QED
      BY <1>4, <3>3, <3>4, <3>5
  <2>2. Kept(r)
    BY <1>t, <1>4, <2>1 DEF ReplaceCatalog, UpsertScenario, DeleteScenario
  <2>3. QED
    BY <1>k, <2>1, <2>2
\* What moves on.
<1>m. ASSUME NEW r \in EditId, NEW from \in {"deleting", "validated", "counted", "inserting"},
             NEW to \in {"inserting", "written"},
             Goes(r, from, to), UNCHANGED <<rows, advisory>>,
             held' \in [ScenarioId -> EditId \cup {NoEdit}]
      PROVE  CatalogInv'
  <2>1. /\ edit' \in [EditId -> EditType]
        /\ \A q \in EditId \ {r} : edit'[q] = edit[q]
        /\ edit[r].at = from /\ edit'[r] = [edit[r] EXCEPT !.at = to]
    BY <1>t, <1>m DEF Goes, EditType
  <2>2. Kept(r)
    BY <1>t, <1>m, <2>1
  <2>3. /\ edit'[r].kind = edit[r].kind /\ edit'[r].removes = edit[r].removes
        /\ edit'[r].disturbed = edit[r].disturbed /\ edit'[r].at = to
    BY <1>t, <2>1 DEF EditType
  <2>4. ASSUME edit[r].kind = "seed"
        PROVE  edit[r].removes = {} /\ advisory = r /\ (rows = {} \/ edit[r].disturbed)
    BY <2>1, <2>4 DEF CatalogInv, Bootstrapping, Open
  <2>5. QED
    BY <1>k, <1>m, <2>2, <2>3, <2>4
<1>5. ASSUME NEW r \in EditId, DeleteAll(r) \/ Merge(r) PROVE CatalogInv'
  BY <1>5, <1>g, <1>m DEF DeleteAll, Merge
<1>6. ASSUME NEW r \in EditId, DeleteRow(r) PROVE CatalogInv'
  <2>1. CASE edit[r].removes \subseteq rows
    BY <1>6, <2>1, <1>g, <1>m DEF DeleteRow
  <2>2. CASE edit' = [edit EXCEPT ![r] = EndedEdit] /\ UNCHANGED <<rows, held, advisory>>
    BY <1>k, <1>t, <2>2, EditEnds
  <2>3. QED
    BY <1>6, <2>1, <2>2 DEF DeleteRow
<1>7. ASSUME NEW r \in EditId, InsertAll(r) PROVE CatalogInv'
  <2>1. CASE edit[r].adds \cap rows \subseteq edit[r].removes
    BY <1>7, <2>1, <1>g, <1>m DEF InsertAll
  <2>2. CASE ~(edit[r].adds \cap rows \subseteq edit[r].removes)
    <3>1. Goes(r, "inserting", "failed") /\ Releases(r) /\ UNCHANGED rows
      BY <1>7, <2>2 DEF InsertAll
    <3>2. /\ edit' \in [EditId -> EditType]
          /\ \A q \in EditId \ {r} : edit'[q] = edit[q]
          /\ edit[r].at = "inserting" /\ edit'[r] = [edit[r] EXCEPT !.at = "failed"]
      BY <1>t, <3>1, EditGoes
    <3>3. /\ edit'[r].kind = edit[r].kind /\ edit'[r].removes = edit[r].removes
          /\ edit'[r].disturbed = edit[r].disturbed /\ edit'[r].at = "failed"
      BY <1>t, <3>2 DEF EditType
    <3>4. edit[r].kind = "seed" => edit[r].removes = {} /\ edit[r].disturbed
      BY <2>2, <3>2 DEF CatalogInv, Bootstrapping, Open
    <3>5. Kept(r)
      BY <1>t, <1>h, <3>1, <3>2
    <3>6. ~Bootstrapping(r)'
      BY <3>3 DEF Bootstrapping, Open
    <3>7. QED
      BY <1>k, <3>3, <3>4, <3>5, <3>6
  <2>3. QED
    BY <2>1, <2>2
<1>8. ASSUME NEW r \in EditId, CommitEdit(r) PROVE CatalogInv'
  <2> DEFINE removed(q) == IF edit[q].at = "deleting" THEN edit[r].removes ELSE {}
             seen(q) == [edit[q] EXCEPT
                           !.disturbed = @ \/ (Open(q) /\ edit[r].kind # "seed"),
                           !.removes = @ \ removed(q)]
  <2>1. edit' = [q \in EditId |-> IF q = r THEN EndedEdit ELSE seen(q)]
    BY <1>8 DEF CommitEdit
  <2>2. ASSUME NEW q \in EditId
        PROVE  /\ seen(q) \in EditType
               /\ seen(q).at = edit[q].at /\ seen(q).kind = edit[q].kind
               /\ seen(q).removes \subseteq edit[q].removes
               /\ edit[q].disturbed => seen(q).disturbed
               /\ Open(q) /\ edit[r].kind # "seed" => seen(q).disturbed
    <3>1. edit[q] \in EditType
      BY <1>t
    <3>2. QED
      BY <3>1 DEF EditType
  <2>3. EndedEdit \in EditType /\ EndedEdit.at = "done" /\ EndedEdit.kind = "none"
    BY DEF EndedEdit, FreshEdit, EditType
  <2> HIDE DEF seen
  <2>4. edit' \in [EditId -> EditType]
    BY <2>1, <2>2, <2>3
  <2>5. rows' \subseteq ScenarioId
    BY <1>8, <1>t DEF CommitEdit, EditType
  <2>6. CatalogTypeOK'
    BY <1>8, <1>h, <2>4, <2>5 DEF CommitEdit, CatalogTypeOK, EditType
  <2>7. ASSUME NEW q \in EditId, edit'[q].kind = "seed"
        PROVE  /\ edit'[q].removes = {}
               /\ edit'[q].at = "failed" => edit'[q].disturbed
               /\ Bootstrapping(q)' =>
                    /\ advisory' = q
                    /\ edit'[q].at # "counting" => rows' = {} \/ edit'[q].disturbed
    <3>1. q # r /\ edit'[q] = seen(q) /\ edit[q].kind = "seed"
      BY <2>1, <2>2, <2>3, <2>7
    <3>2. edit'[q].removes = {}
      BY <2>2, <3>1 DEF CatalogInv
    <3>3. edit'[q].at = "failed" => edit'[q].disturbed
      BY <2>2, <3>1 DEF CatalogInv, BootstrapSucceeds
    <3>4. ASSUME Open(q) PROVE edit[r].kind # "seed" /\ edit'[q].disturbed /\ advisory' = q
      <4>1. advisory = q
        BY <3>1, <3>4 DEF CatalogInv, Bootstrapping
      <4>2. edit[r].kind # "seed"
        BY <1>8, <3>1, <4>1 DEF CatalogInv, Bootstrapping, CommitEdit, Open
      <4>3. QED
        BY <1>8, <1>h, <2>2, <3>1, <3>4, <4>1, <4>2 DEF CommitEdit
    <3>5. Bootstrapping(q)' => Open(q)
      BY <2>2, <3>1 DEF Bootstrapping, Open
    <3>6. QED
      BY <3>2, <3>3, <3>4, <3>5
  <2>8. QED
    BY <2>6, <2>7 DEF CatalogInv, BootstrapSucceeds, Bootstrapping
<1>9. ASSUME NEW r \in EditId, RollBackEdit(r) PROVE CatalogInv'
  BY <1>k, <1>t, <1>h, <1>9, EditEnds, ZenonT(60) DEF RollBackEdit
<1>10. QED
  BY <1>1, <1>2, <1>3, <1>4, <1>5, <1>6, <1>7, <1>8, <1>9 DEF CatalogNext

LEMMA CatalogInvariant == CatalogSpec => []CatalogInv
  BY CatalogInvInit, CatalogInvStep, PTL DEF CatalogSpec

\* "Serialize bootstrapping across API workers" (repository.py:91): the bootstrap of one of
\* them fails only if an administrator's edit came inside it.
THEOREM CatalogBootstrap == CatalogSpec => [](CatalogTypeOK /\ BootstrapSucceeds)
  BY CatalogInvariant, PTL DEF CatalogInv

-----------------------------------------------------------------------------
\* Prompts and settings. What was edited after a bootstrap read it has been marked as
\* raced, and a bootstrap writes only what it has read.
SettingsInv ==
  /\ SettingsTypeOK
  /\ EditsTakePrecedence
  /\ \A r \in ChangeId :
       /\ change[r].reads \cap edited \subseteq raced
       /\ change[r].at # "edited" => change[r].writes \subseteq change[r].reads
       /\ change[r].at \in {"inserts", "renews"} => change[r].key \in change[r].reads

ChangeType == [at : {"new", "reads", "inserts", "renews", "written", "edited", "done",
                     "failed"},
               key : SettingKey, writes : SUBSET SettingKey, reads : SUBSET SettingKey]

\* What SettingsInv says of one request.
ChangeInv(c) ==
  /\ c.reads \cap edited \subseteq raced
  /\ c.at # "edited" => c.writes \subseteq c.reads
  /\ c.at \in {"inserts", "renews"} => c.key \in c.reads

LEMMA SettingsInvInit == SettingsInit => SettingsInv
  BY SettingsAssumption
  DEF SettingsInit, SettingsInv, SettingsTypeOK, EditsTakePrecedence, FreshChange, SettingKey,
      NoWriter

LEMMA NextKeyType ==
  ASSUME NEW c \in ChangeType
  PROVE  /\ NextKey(c) \in ChangeType /\ NextKey(c).at \in {"written", "reads"}
         /\ NextKey(c).writes = c.writes /\ NextKey(c).reads = c.reads
<1>1. c.key # Settings => c.key + 1 \in SettingKey
  BY SettingsAssumption DEF ChangeType, SettingKey
<1>2. 1 \in SettingKey
  BY SettingsAssumption DEF SettingKey
<1>3. QED
  BY <1>1, <1>2 DEF NextKey, ChangeType

LEMMA OverType ==
  ASSUME NEW at \in {"done", "failed"}
  PROVE  [FreshChange EXCEPT !.at = at] \in ChangeType
         /\ ChangeInv([FreshChange EXCEPT !.at = at])
<1>1. 1 \in SettingKey
  BY SettingsAssumption DEF SettingKey
<1>2. QED
  BY <1>1 DEF FreshChange, ChangeType, ChangeInv

LEMMA SettingsInvStep == SettingsInv /\ [SettingsNext]_settingsStore => SettingsInv'
<1> SUFFICES ASSUME SettingsInv, [SettingsNext]_settingsStore PROVE SettingsInv'
  OBVIOUS
<1>t. /\ change \in [ChangeId -> ChangeType]
      /\ setting \in [SettingKey -> {"missing", "legacy", "default", "edited"}]
      /\ writer \in [SettingKey -> ChangeId \cup {NoWriter}]
      /\ edited \subseteq SettingKey /\ raced \subseteq edited
      /\ \A r \in ChangeId : ChangeInv(change[r])
      /\ EditsTakePrecedence
  BY DEF SettingsInv, SettingsTypeOK, ChangeType, ChangeInv
<1>w. \A r \in ChangeId : Unwritten(r) \in [SettingKey -> ChangeId \cup {NoWriter}]
  BY <1>t DEF Unwritten
\* A step of r that commits nothing.
<1>k. ASSUME NEW r \in ChangeId, NEW c \in ChangeType,
             change' = [change EXCEPT ![r] = c], ChangeInv(c),
             writer' \in [SettingKey -> ChangeId \cup {NoWriter}],
             UNCHANGED <<setting, edited, raced>>
      PROVE  SettingsInv'
  <2>1. change' \in [ChangeId -> ChangeType]
    BY <1>t, <1>k
  <2>2. \A q \in ChangeId : ChangeInv(change'[q])
    BY <1>t, <1>k
  <2>3. SettingsTypeOK'
    BY <1>t, <1>k, <2>1 DEF SettingsTypeOK, ChangeType
  <2>4. QED
    BY <1>t, <1>k, <2>2, <2>3 DEF SettingsInv, EditsTakePrecedence, ChangeInv
<1>1. CASE UNCHANGED settingsStore
  BY <1>1 DEF settingsStore, SettingsInv, SettingsTypeOK, EditsTakePrecedence
<1>2. ASSUME NEW r \in ChangeId, SeedDefaults(r) PROVE SettingsInv'
  <2> DEFINE c == [change[r] EXCEPT !.at = "reads"]
  <2>1. change[r] \in ChangeType /\ change[r].at = "new" /\ ChangeInv(change[r])
    BY <1>t, <1>2 DEF SeedDefaults, Comes
  <2>2. c \in ChangeType /\ ChangeInv(c)
    BY <2>1 DEF ChangeType, ChangeInv
  <2>3. change' = [change EXCEPT ![r] = c]
    BY <1>2, <1>t DEF SeedDefaults
  <2>4. writer' \in [SettingKey -> ChangeId \cup {NoWriter}]
    BY <1>2, <1>t DEF SeedDefaults
  <2> HIDE DEF c
  <2>5. QED
    BY <1>k, <1>2, <2>2, <2>3, <2>4 DEF SeedDefaults
<1>3. ASSUME NEW r \in ChangeId, ReadSetting(r) PROVE SettingsInv'
  <2> DEFINE c == change[r]
             seeds == Seeds(setting[c.key])
             read == [c EXCEPT !.at = seeds, !.reads = @ \cup {c.key}]
  <2>1. c \in ChangeType /\ c.at = "reads" /\ ChangeInv(c)
    BY <1>t, <1>3 DEF ReadSetting
  <2>2. CASE seeds = "keeps"
    <3>1. change' = [change EXCEPT ![r] = NextKey(c)]
      BY <1>3, <2>2 DEF ReadSetting
    <3>2. NextKey(c) \in ChangeType /\ ChangeInv(NextKey(c))
      BY <2>1, NextKeyType DEF ChangeInv
    <3>3. writer' \in [SettingKey -> ChangeId \cup {NoWriter}]
      BY <1>3, <1>t DEF ReadSetting
    <3>4. QED
      BY <1>k, <1>3, <3>1, <3>2, <3>3 DEF ReadSetting
  <2>3. CASE seeds # "keeps"
    <3>1. change' = [change EXCEPT ![r] = read]
      BY <1>3, <2>3 DEF ReadSetting
    <3>2. /\ c.key \in SettingKey /\ seeds \in {"inserts", "renews"}
          /\ setting[c.key] \in {"missing", "legacy"}
      BY <1>t, <2>1, <2>3 DEF Seeds, ChangeType
    <3>3. c.key \notin edited
      BY <1>t, <3>2 DEF EditsTakePrecedence
    <3> HIDE DEF seeds
    <3>4. read \in ChangeType
      BY <2>1, <3>2 DEF ChangeType
    <3>5. /\ read.reads = c.reads \cup {c.key} /\ read.writes = c.writes
          /\ read.key = c.key /\ read.at = seeds
      BY <2>1 DEF ChangeType
    <3>6. ChangeInv(read)
      BY <2>1, <3>2, <3>3, <3>5 DEF ChangeInv
    <3>7. writer' \in [SettingKey -> ChangeId \cup {NoWriter}]
      BY <1>3, <1>t DEF ReadSetting
    <3> HIDE DEF read
    <3>8. QED
      BY <1>k, <1>3, <3>1, <3>4, <3>6, <3>7 DEF ReadSetting
  <2>4. QED
    BY <2>2, <2>3
<1>4. ASSUME NEW r \in ChangeId, WriteSetting(r) PROVE SettingsInv'
  <2> DEFINE c == change[r]
             wrote == [c EXCEPT !.writes = @ \cup {c.key}]
  <2>1. c \in ChangeType /\ c.at \in {"inserts", "renews"} /\ ChangeInv(c)
    BY <1>t, <1>4 DEF WriteSetting
  <2>2. CASE change' = OverWith(r, "failed") /\ writer' = Unwritten(r)
    BY <1>k, <1>w, <1>4, <2>2, OverType DEF OverWith, WriteSetting
  <2>3. CASE change' = [change EXCEPT ![r] = NextKey(wrote)] /\ writer' = [writer EXCEPT ![c.key] = r]
    <3>1. wrote \in ChangeType /\ wrote.reads = c.reads /\ wrote.writes = c.writes \cup {c.key}
      BY <2>1 DEF ChangeType
    <3> HIDE DEF wrote
    <3>2. NextKey(wrote) \in ChangeType /\ ChangeInv(NextKey(wrote))
      BY <2>1, <3>1, NextKeyType DEF ChangeInv
    <3>3. writer' \in [SettingKey -> ChangeId \cup {NoWriter}]
      BY <1>t, <2>3
    <3>4. QED
      BY <1>k, <1>4, <2>3, <3>2, <3>3 DEF WriteSetting
  <2>4. QED
    BY <1>4, <2>2, <2>3 DEF WriteSetting
<1>5. ASSUME NEW r \in ChangeId, UpdateSettings(r) PROVE SettingsInv'
  <2>1. PICK keys \in SUBSET SettingKey :
          /\ writer' = [k \in SettingKey |-> IF k \in keys THEN r ELSE writer[k]]
          /\ change' = [change EXCEPT ![r].at = "edited", ![r].writes = keys]
    BY <1>5 DEF UpdateSettings
  <2> DEFINE c == [change[r] EXCEPT !.at = "edited", !.writes = keys]
  <2>2. change[r] \in ChangeType /\ ChangeInv(change[r])
    BY <1>t
  <2>3. c \in ChangeType /\ ChangeInv(c)
    BY <2>2 DEF ChangeType, ChangeInv
  <2>4. change' = [change EXCEPT ![r] = c]
    BY <1>t, <2>1
  <2>5. writer' \in [SettingKey -> ChangeId \cup {NoWriter}]
    BY <1>t, <2>1
  <2> HIDE DEF c
  <2>6. QED
    BY <1>k, <1>5, <2>3, <2>4, <2>5 DEF UpdateSettings
<1>6. ASSUME NEW r \in ChangeId, CommitSettings(r) PROVE SettingsInv'
  <2> DEFINE c == change[r]
             edits == IF c.at = "edited" THEN c.writes ELSE {}
             over == [FreshChange EXCEPT !.at = "done"]
             meanwhile == {k \in edits : \E q \in ChangeId \ {r} : k \in change[q].reads}
  <2>1. c \in ChangeType /\ ChangeInv(c) /\ c.writes \subseteq SettingKey
        /\ edits \subseteq SettingKey
    BY <1>t DEF ChangeType
  <2>2. /\ setting' = [k \in SettingKey |-> IF k \notin c.writes THEN setting[k]
                                            ELSE IF c.at = "edited" THEN "edited" ELSE "default"]
        /\ change' = [change EXCEPT ![r] = over] /\ writer' = Unwritten(r)
        /\ edited' = edited \cup edits
        /\ raced' = raced \cup meanwhile
    BY <1>6 DEF CommitSettings, OverWith
  <2>3. over \in ChangeType /\ over.reads = {} /\ over.writes = {} /\ over.at = "done"
    BY OverType DEF FreshChange
  <2> HIDE DEF over
  <2>4. change' \in [ChangeId -> ChangeType]
    BY <1>t, <2>2, <2>3
  <2>5. setting' \in [SettingKey -> {"missing", "legacy", "default", "edited"}]
    BY <1>t, <2>2
  <2>6. SettingsTypeOK'
    BY <1>t, <1>w, <2>1, <2>2, <2>4, <2>5 DEF SettingsTypeOK, ChangeType
  <2>7. ASSUME NEW q \in ChangeId
        PROVE  change'[q].reads \cap edited' \subseteq raced'
    <3>1. CASE q = r
      BY <1>t, <2>2, <2>3, <3>1
    <3>2. CASE q # r
      <4>1. change'[q] = change[q] /\ change[q].reads \cap edited \subseteq raced
        BY <1>t, <2>2, <3>2 DEF ChangeInv
      <4>2. change[q].reads \cap edits \subseteq meanwhile
        BY <3>2
      <4> HIDE DEF edits, meanwhile
      <4>3. QED
        BY <2>2, <4>1, <4>2
    <3>3. QED
      BY <3>1, <3>2
  <2>8. ASSUME NEW q \in ChangeId
        PROVE  /\ change'[q].at # "edited" => change'[q].writes \subseteq change'[q].reads
               /\ change'[q].at \in {"inserts", "renews"} => change'[q].key \in change'[q].reads
    BY <1>t, <2>2, <2>3 DEF ChangeInv
  <2>9. ASSUME NEW k \in edited'
        PROVE  setting'[k] = "edited" \/ (setting'[k] = "default" /\ k \in raced')
    <3>1. k \in SettingKey
      BY <1>t, <2>1, <2>2, <2>9
    <3>2. CASE k \notin c.writes
      <4>1. k \in edited /\ setting'[k] = setting[k]
        BY <2>2, <2>9, <3>1, <3>2
      <4>2. QED
        BY <1>t, <2>2, <4>1 DEF EditsTakePrecedence
    <3>3. CASE k \in c.writes /\ c.at = "edited"
      BY <2>2, <3>1, <3>3
    <3>4. CASE k \in c.writes /\ c.at # "edited"
      <4>1. k \in edited /\ k \in c.reads
        BY <2>1, <2>2, <2>9, <3>4 DEF ChangeInv
      <4>2. setting'[k] = "default" /\ k \in raced
        BY <2>1, <2>2, <3>1, <3>4, <4>1 DEF ChangeInv
      <4>3. QED
        BY <2>2, <4>2
    <3>5. QED
      BY <3>2, <3>3, <3>4
  <2>10. QED
    BY <2>6, <2>7, <2>8, <2>9 DEF SettingsInv, EditsTakePrecedence
<1>7. ASSUME NEW r \in ChangeId, RollBackSettings(r) PROVE SettingsInv'
  BY <1>k, <1>w, <1>7, OverType DEF RollBackSettings, OverWith
<1>8. QED
  BY <1>1, <1>2, <1>3, <1>4, <1>5, <1>6, <1>7 DEF SettingsNext

LEMMA SettingsInvariant == SettingsSpec => []SettingsInv
  BY SettingsInvInit, SettingsInvStep, PTL DEF SettingsSpec

\* "existing DB edits always take precedence" (repository.py:46), but for those that a
\* bootstrap overwrites because they came between its read and its commit.
THEOREM SettingsPrecedence == SettingsSpec => [](SettingsTypeOK /\ EditsTakePrecedence)
  BY SettingsInvariant, PTL DEF SettingsInv

-----------------------------------------------------------------------------
\* Sets of numbers, for what both galleries are ordered by.
LEMMA LeastNumber ==
  ASSUME NEW S \in (SUBSET Nat) \ {{}}
  PROVE  \E x \in S : \A y \in S : x <= y
<1> DEFINE Less == OpToRel(<, Nat)
<1>1. \A x, y \in Nat : x < y => <<x, y>> \in Less
  BY DEF OpToRel
<1>2. IsWellFoundedOn(Less, Nat)
  BY NatLessThanWellFounded
<1> HIDE DEF Less
<1>3. PICK x \in S : \A y \in S : <<y, x>> \notin Less
  BY <1>2, WFMin
<1>4. ASSUME NEW y \in S PROVE x <= y
  <2>1. x \in Nat /\ y \in Nat /\ ~(y < x)
    BY <1>1, <1>3
  <2>2. QED
    BY <2>1
<1>5. QED
  BY <1>4

LEMMA MinIs ==
  ASSUME NEW S \in (SUBSET Nat) \ {{}}
  PROVE  Min(S) \in S /\ \A y \in S : Min(S) <= y
  BY LeastNumber DEF Min

LEMMA MaxIs ==
  ASSUME NEW n \in Nat, NEW S \in (SUBSET (0..n)) \ {{}}
  PROVE  Max(S) \in S /\ \A y \in S : Max(S) >= y
<1> DEFINE T == {n - x : x \in S}
<1>1. T \in (SUBSET Nat) \ {{}}
  OBVIOUS
<1> HIDE DEF T
<1>2. PICK m \in T : \A y \in T : m <= y
  BY <1>1, LeastNumber
<1> USE DEF T
<1>3. PICK x \in S : m = n - x
  BY <1>2
<1>4. ASSUME NEW y \in S PROVE x >= y
  BY <1>2, <1>3
<1>5. QED
  BY <1>3, <1>4 DEF Max

-----------------------------------------------------------------------------
\* The JSON file. While no two requests have been writing at the same time, one writes at
\* most; subjects share no embedding, in memory or in the file; and what is written is
\* the memory as it is.
Mem(s) == IF s \in InMemory THEN embeddings[templateOf[s]] ELSE {}
MemAll == UNION {Mem(s) : s \in Enrollee}
FileAll == UNION {file[s] : s \in Enrollee}

\* A request that has not come is named nowhere.
Unnamed(r) ==
  /\ embeddings[r] = {} /\ r \notin saved \cup erased
  /\ \A s \in Enrollee : templateOf[s] # r /\ r \notin Mem(s) \cup file[s]
  /\ \A q \in Save : r \notin save[q].removed

\* How far a request is with the memory it writes.
WritesMemory(r) ==
  LET q == save[r]
  IN /\ Writing(r) => /\ q.removed = {} => r \in MemAll
                      /\ q.removed \cap MemAll = {}
     /\ q.at \in {"new", "changed", "iterating"} => q.out = NoEmbeddings
     /\ q.at = "new" => q.removed = {}
     /\ q.at = "iterating" => q.seen = Entries
     /\ q.at = "dumping" =>
          /\ q.payload \subseteq Entries
          /\ \A s \in Enrollee : <<s, templateOf[s]>> \notin q.payload => q.out[s] = Mem(s)

Uncrossed ==
  /\ \A r, q \in Save : Writing(r) /\ Writing(q) => r = q
  /\ \A s \in InMemory : Mem(s) # {}
  /\ \A s, t \in Enrollee : s # t => Mem(s) \cap Mem(t) = {} /\ file[s] \cap file[t] = {}
  /\ saved \subseteq MemAll \cap FileAll
  /\ erased \cap (MemAll \cup FileAll) = {}
  /\ \A r \in Save : save[r].at = "new" => Unnamed(r)
  /\ \A r \in Save : WritesMemory(r)

JsonInv == JsonFacesTypeOK /\ (~crossed => Uncrossed)

SaveType == [at : {"new", "changed", "iterating", "dumping", "done"},
             seen : SUBSET (Enrollee \X Save), payload : SUBSET (Enrollee \X Save),
             out : [Enrollee -> SUBSET Save], removed : SUBSET Save]

LEMMA JsonInvInit == JsonFacesInit => JsonInv
<1> SUFFICES ASSUME JsonFacesInit PROVE JsonInv
  OBVIOUS
<1> USE JsonFacesAssumption
<1>1. JsonFacesTypeOK
  BY DEF JsonFacesInit, JsonFacesTypeOK, NoEmbeddings, FreshSave
<1>2. InMemory = {} /\ \A s \in Enrollee : Mem(s) = {} /\ file[s] = {}
  BY DEF JsonFacesInit, InMemory, Mem, NoEmbeddings
<1>3. \A r \in Save : save[r] = FreshSave /\ embeddings[r] = {}
  BY DEF JsonFacesInit
<1>4. saved = {} /\ erased = {} /\ \A s \in Enrollee, r \in Save : templateOf[s] # r
  BY DEF JsonFacesInit, Save, NoTemplate
<1>5. \A r \in Save : Unnamed(r)
  BY <1>2, <1>3, <1>4 DEF Unnamed, FreshSave
<1>6. \A r \in Save : ~Writing(r) /\ WritesMemory(r)
  BY <1>3 DEF Writing, WritesMemory, FreshSave
<1>7. QED
  BY <1>1, <1>2, <1>4, <1>5, <1>6 DEF JsonInv, Uncrossed

LEMMA EntriesType ==
  ASSUME JsonFacesTypeOK
  PROVE  Entries \subseteq Enrollee \X Save
  BY DEF JsonFacesTypeOK, Entries, InMemory

LEMMA SaveEndsType ==
  ASSUME JsonFacesTypeOK, NEW r \in Save
  PROVE  /\ SaveEnds(r) \in [Save -> SaveType]
         /\ SaveEnds(r)[r].at = "done" /\ SaveEnds(r)[r].removed = {}
         /\ \A q \in Save \ {r} : SaveEnds(r)[q] = save[q]
  BY DEF JsonFacesTypeOK, SaveEnds, FreshSave, NoEmbeddings, SaveType

LEMMA JsonTypeStep ==
  ASSUME JsonFacesTypeOK, [JsonFacesNext]_jsonFaces
  PROVE  JsonFacesTypeOK'
<1> USE JsonFacesAssumption
<1>t. /\ templateOf \in [Enrollee -> Save \cup {NoTemplate}]
      /\ embeddings \in [Save -> SUBSET Save]
      /\ file \in [Enrollee -> SUBSET Save]
      /\ save \in [Save -> SaveType]
      /\ crossed \in BOOLEAN /\ saved \subseteq Save /\ erased \subseteq Save
  BY DEF JsonFacesTypeOK, SaveType
<1> DEFINE Typed ==
      /\ templateOf' \in [Enrollee -> Save \cup {NoTemplate}]
      /\ embeddings' \in [Save -> SUBSET Save]
      /\ file' \in [Enrollee -> SUBSET Save]
      /\ save' \in [Save -> SaveType]
      /\ crossed' \in BOOLEAN /\ saved' \subseteq Save /\ erased' \subseteq Save
<1>q. Typed => JsonFacesTypeOK'
  BY DEF JsonFacesTypeOK, SaveType
<1>r. ASSUME NEW q \in SaveType, NEW S \in SUBSET (Enrollee \X Save), NEW T \in SUBSET Save
      PROVE  /\ [q EXCEPT !.at = "changed", !.removed = T] \in SaveType
             /\ [q EXCEPT !.at = "iterating", !.seen = S] \in SaveType
             /\ [q EXCEPT !.at = "dumping", !.payload = S, !.seen = {}] \in SaveType
  BY DEF SaveType
<1>1. CASE UNCHANGED jsonFaces
  BY <1>t, <1>q, <1>1 DEF jsonFaces
<1>2. ASSUME NEW r \in Save, NEW s \in Enrollee, UpsertFace(r, s) PROVE JsonFacesTypeOK'
  <2> DEFINE t == IF s \in InMemory THEN templateOf[s] ELSE r
  <2>1. t \in Save
    BY <1>t DEF InMemory
  <2>2. /\ templateOf' = [templateOf EXCEPT ![s] = t]
        /\ embeddings' = [embeddings EXCEPT ![t] = @ \cup {r}]
        /\ save' = [save EXCEPT ![r].at = "changed"]
        /\ UNCHANGED <<file, saved, erased>>
    BY <1>2 DEF UpsertFace
  <2> HIDE DEF t
  <2>3. templateOf' \in [Enrollee -> Save \cup {NoTemplate}]
        /\ embeddings' \in [Save -> SUBSET Save]
    BY <1>t, <2>1, <2>2
  <2>4. save' \in [Save -> SaveType]
    BY <1>t, <2>2, ZenonT(60) DEF SaveType
  <2>5. crossed' \in BOOLEAN
    BY <1>2 DEF UpsertFace, Races
  <2>6. QED
    BY <1>t, <1>q, <2>2, <2>3, <2>4, <2>5
<1>3. ASSUME NEW r \in Save, NEW s \in Enrollee, RemoveFace(r, s) PROVE JsonFacesTypeOK'
  <2>1. CASE s \in InMemory
    <3> DEFINE gone == embeddings[templateOf[s]]
    <3>1. gone \subseteq Save
      BY <1>t, <2>1 DEF InMemory
    <3>2. /\ templateOf' = [templateOf EXCEPT ![s] = NoTemplate]
          /\ save' = [save EXCEPT ![r].at = "changed", ![r].removed = gone]
          /\ saved' = saved \ gone
          /\ Races(r)
          /\ UNCHANGED <<embeddings, file, erased>>
      BY <1>3, <2>1 DEF RemoveFace
    <3> HIDE DEF gone
    <3>3. save' \in [Save -> SaveType]
      BY <1>r, <1>t, <3>1, <3>2
    <3>4. crossed' \in BOOLEAN
      BY <3>2 DEF Races
    <3>5. QED
      BY <1>t, <1>q, <3>2, <3>3, <3>4
  <2>2. CASE s \notin InMemory
    BY <1>t, <1>q, <1>3, <2>2, SaveEndsType DEF RemoveFace
  <2>3. QED
    BY <2>1, <2>2
<1>4. ASSUME NEW r \in Save, Iterate(r) PROVE JsonFacesTypeOK'
  <2>1. save' \in [Save -> SaveType]
    BY <1>r, <1>t, <1>4, EntriesType DEF Iterate
  <2>2. QED
    BY <1>t, <1>q, <1>4, <2>1 DEF Iterate, TempFile
<1>5. ASSUME NEW r \in Save, Iterated(r) PROVE JsonFacesTypeOK'
  <2>1. PICK payload \in Payloads(r) :
          save' = [save EXCEPT ![r].at = "dumping", ![r].payload = payload, ![r].seen = {}]
    BY <1>5 DEF Iterated
  <2>2. save[r].seen \subseteq Enrollee \X Save
    BY <1>t DEF SaveType
  <2>3. payload \subseteq Enrollee \X Save
    <3>1. payload \subseteq Entries \cup save[r].seen
      BY DEF Payloads
    <3>2. QED
      BY <2>2, <3>1, EntriesType
  <2>4. save' \in [Save -> SaveType]
    BY <1>r, <1>t, <2>1, <2>3
  <2>5. QED
    BY <1>t, <1>q, <1>5, <2>4 DEF Iterated
<1>6. ASSUME NEW r \in Save, NEW entry \in save[r].payload, Dump(r, entry)
      PROVE  JsonFacesTypeOK'
  <2> DEFINE dumped == [save[r].out EXCEPT ![entry[1]] = embeddings[entry[2]]]
  <2>1. entry \in Enrollee \X Save
    BY <1>t DEF SaveType
  <2>2. save[r].out \in [Enrollee -> SUBSET Save]
    BY <1>t DEF SaveType
  <2>3. dumped \in [Enrollee -> SUBSET Save]
    BY <1>t, <2>1, <2>2
  <2>4. save' = [save EXCEPT ![r].payload = @ \ {entry}, ![r].out = dumped]
    BY <1>t, <1>6 DEF Dump
  <2> HIDE DEF dumped
  <2>5. save' \in [Save -> SaveType]
    <3>1. save[r] \in SaveType
      BY <1>t
    <3>2. [save[r] EXCEPT !.payload = @ \ {entry}, !.out = dumped] \in SaveType
      BY <2>3, <3>1 DEF SaveType
    <3>3. QED
      BY <1>t, <2>4, <3>2
  <2>6. QED
    BY <1>t, <1>q, <1>6, <2>5 DEF Dump
<1>7. ASSUME NEW r \in Save, Replace(r) PROVE JsonFacesTypeOK'
  <2>1. save[r].out \in [Enrollee -> SUBSET Save] /\ save[r].removed \subseteq Save
    BY <1>t DEF SaveType
  <2>2. QED
    BY <1>t, <1>q, <1>7, <2>1, SaveEndsType DEF Replace
<1>8. ASSUME NEW r \in Save, FlushFails(r) PROVE JsonFacesTypeOK'
  BY <1>t, <1>q, <1>8, SaveEndsType DEF FlushFails
<1>9. CASE RestartStore
  <2>1. \A s \in Enrollee : file[s] # {} => Min(file[s]) \in Save
    <3>1. \A s \in Enrollee : file[s] \subseteq Nat
      BY <1>t DEF Save
    <3>2. QED
      BY <1>t, <3>1, MinIs
  <2>2. templateOf' \in [Enrollee -> Save \cup {NoTemplate}]
    BY <1>t, <1>9, <2>1 DEF RestartStore
  <2>3. embeddings' \in [Save -> SUBSET Save]
    BY <1>t, <1>9 DEF RestartStore
  <2>4. \A r \in Save : SaveEnds(r)[r] \in SaveType
    BY SaveEndsType
  <2>5. save' \in [Save -> SaveType]
    BY <1>t, <1>9, <2>4 DEF RestartStore
  <2>6. QED
    BY <1>t, <1>q, <1>9, <2>2, <2>3, <2>5 DEF RestartStore
<1>10. QED
  BY <1>1, <1>2, <1>3, <1>4, <1>5, <1>6, <1>7, <1>8, <1>9 DEF JsonFacesNext

\* The memory does not depend on the requests.
LEMMA MemoryStays ==
  ASSUME UNCHANGED <<templateOf, embeddings>>
  PROVE  /\ \A s : Mem(s)' = Mem(s)
         /\ MemAll' = MemAll /\ Entries' = Entries /\ InMemory' = InMemory
  BY DEF Mem, MemAll, Entries, InMemory

\* A step of the request that writes, by which neither the memory nor the file changes.
LEMMA WriterMoves ==
  ASSUME JsonFacesTypeOK, Uncrossed, NEW r \in Save, Writing(r),
         NEW q \in SaveType, save' = [save EXCEPT ![r] = q], q.at # "new",
         q.removed \subseteq save[r].removed,
         UNCHANGED <<templateOf, embeddings, file, saved, erased>>,
         WritesMemory(r)'
  PROVE  Uncrossed'
<1>1. /\ save'[r] = q /\ \A p \in Save \ {r} : save'[p] = save[p]
      /\ \A p \in Save \ {r} : ~Writing(p)
  BY DEF JsonFacesTypeOK, Uncrossed
<1>2. /\ \A s \in Enrollee : Mem(s)' = Mem(s)
      /\ MemAll' = MemAll /\ Entries' = Entries /\ InMemory' = InMemory /\ FileAll' = FileAll
  BY MemoryStays DEF FileAll
<1>3. ASSUME NEW p \in Save PROVE WritesMemory(p)'
  <2>1. CASE p # r
    <3>1. WritesMemory(p) /\ save'[p] = save[p] /\ ~Writing(p)
      BY <1>1, <2>1 DEF Uncrossed
    <3>2. save[p].at \in {"new", "done"}
      BY <3>1 DEF Writing, JsonFacesTypeOK
    <3>3. QED
      BY <3>1, <3>2 DEF WritesMemory, Writing
  <2>2. QED
    BY <2>1
<1>4. ASSUME NEW p \in Save, save'[p].at = "new" PROVE Unnamed(p)'
  <2>1. Unnamed(p)
    BY <1>1, <1>4 DEF Uncrossed
  <2>2. \A u \in Save : save'[u].removed \subseteq save[u].removed
    BY <1>1
  <2>3. QED
    BY <1>2, <2>1, <2>2 DEF Unnamed
<1>5. \A p, u \in Save : Writing(p)' /\ Writing(u)' => p = u
  BY <1>1 DEF Writing
<1>6. /\ \A s \in InMemory' : Mem(s)' # {}
      /\ \A s, t \in Enrollee :
           s # t => Mem(s)' \cap Mem(t)' = {} /\ file'[s] \cap file'[t] = {}
      /\ saved' \subseteq MemAll' \cap FileAll'
      /\ erased' \cap (MemAll' \cup FileAll') = {}
  BY <1>2 DEF Uncrossed, InMemory
<1>7. QED
  BY <1>3, <1>4, <1>5, <1>6 DEF Uncrossed

\* Subjects in memory have templates of their own.
LEMMA TemplatesDiffer ==
  ASSUME Uncrossed, NEW s \in InMemory, NEW u \in InMemory, s # u
  PROVE  templateOf[s] # templateOf[u]
<1>1. s \in Enrollee /\ u \in Enrollee /\ Mem(s) # {} /\ Mem(s) \cap Mem(u) = {}
  BY DEF Uncrossed, InMemory
<1>2. QED
  BY <1>1 DEF Mem

\* A request that comes while none is writing changes the memory of its subject s.
LEMMA WriterComes ==
  ASSUME JsonFacesTypeOK, JsonFacesTypeOK', Uncrossed, NEW r \in Save, NEW s \in Enrollee,
         save[r].at = "new", \A p \in Save : ~Writing(p),
         save'[r].at = "changed", \A p \in Save \ {r} : save'[p] = save[p],
         save'[r].out = save[r].out,
         UNCHANGED <<file, erased>>,
         \A u \in Enrollee \ {s} : templateOf'[u] = templateOf[u] /\ Mem(u)' = Mem(u),
         s \in InMemory' <=> Mem(s)' # {},
         templateOf'[s] \in {NoTemplate, templateOf[s], r},
         Mem(s)' \subseteq Mem(s) \cup {r},
         \A p \in Save \ {r} : save[p].at = "new" => embeddings'[p] = {},
         saved' \subseteq saved /\ saved' \subseteq MemAll',
         save'[r].removed = {} => r \in Mem(s)',
         save'[r].removed \subseteq Mem(s) \ Mem(s)'
  PROVE  Uncrossed'
<1>1. Unnamed(r) /\ WritesMemory(r)
  BY DEF Uncrossed
<1>2. \A u, v \in Enrollee : u # v => Mem(u)' \cap Mem(v)' = {}
  <2>1. \A u \in Enrollee : r \notin Mem(u)
    BY <1>1 DEF Unnamed
  <2>2. \A u \in Enrollee : Mem(u)' \subseteq IF u = s THEN Mem(u) \cup {r} ELSE Mem(u)
    OBVIOUS
  <2>3. \A u, v \in Enrollee : u # v => Mem(u) \cap Mem(v) = {}
    BY DEF Uncrossed
  <2>4. ASSUME NEW u \in Enrollee, NEW v \in Enrollee, u # v,
               NEW x, x \in Mem(u)', x \in Mem(v)'
        PROVE  FALSE
    BY <2>1, <2>2, <2>3, <2>4
  <2>5. QED
    BY <2>4
<1>3. \A u \in InMemory' : Mem(u)' # {}
  <2>1. ASSUME NEW u \in InMemory', u # s PROVE Mem(u)' # {}
    <3>1. u \in Enrollee \ {s} /\ u \in InMemory
      BY <2>1 DEF InMemory
    <3>2. QED
      BY <3>1 DEF Uncrossed
  <2>2. QED
    BY <2>1
<1>4. MemAll' \subseteq MemAll \cup {r} /\ FileAll' = FileAll
  BY DEF MemAll, FileAll
<1>5. r \notin erased \cup FileAll
  BY <1>1 DEF Unnamed, FileAll
<1>6. saved' \subseteq MemAll' \cap FileAll' /\ erased' \cap (MemAll' \cup FileAll') = {}
  BY <1>4, <1>5 DEF Uncrossed
<1>7. ASSUME NEW p \in Save, save'[p].at = "new" PROVE Unnamed(p)'
  <2>1. p # r /\ save[p].at = "new"
    BY <1>7
  <2>2. Unnamed(p) /\ p # NoTemplate
    BY <2>1 DEF Uncrossed, Save, NoTemplate
  <2>3. \A u \in Enrollee : templateOf'[u] # p
    BY <2>1, <2>2 DEF Unnamed
  <2>4. \A u \in Enrollee : p \notin Mem(u)' \cup file'[u]
    BY <2>1, <2>2 DEF Unnamed
  <2>5. \A q \in Save : p \notin save'[q].removed
    BY <2>2 DEF Unnamed
  <2>6. QED
    BY <2>1, <2>2, <2>3, <2>4, <2>5 DEF Unnamed
<1>8. ASSUME NEW p \in Save PROVE WritesMemory(p)' /\ (p # r => ~Writing(p)')
  <2>1. CASE p # r
    <3>1. WritesMemory(p) /\ save'[p] = save[p] /\ ~Writing(p)
      BY <2>1 DEF Uncrossed
    <3>2. save[p].at \in {"new", "done"}
      BY <3>1 DEF Writing, JsonFacesTypeOK
    <3>3. QED
      BY <3>1, <3>2 DEF WritesMemory, Writing
  <2>2. CASE p = r
    <3>1. save'[r].out = NoEmbeddings
      BY <1>1 DEF WritesMemory
    <3>2. save'[r].removed = {} => r \in MemAll'
      BY DEF MemAll
    <3>3. save'[r].removed \cap MemAll' = {}
      <4>1. ASSUME NEW x \in save'[r].removed, NEW u \in Enrollee, x \in Mem(u)'
            PROVE  FALSE
        <5>1. x \in Mem(s) /\ u # s /\ x \in Mem(u)
          BY <4>1
        <5>2. QED
          BY <5>1 DEF Uncrossed
      <4>2. QED
        BY <4>1 DEF MemAll
    <3>4. QED
      BY <2>2, <3>1, <3>2, <3>3 DEF WritesMemory, NoEmbeddings
  <2>3. QED
    BY <2>1, <2>2
<1>9. \A s1, t1 \in Enrollee : s1 # t1 => file'[s1] \cap file'[t1] = {}
  BY DEF Uncrossed
<1>10. QED
  BY <1>2, <1>3, <1>6, <1>7, <1>8, <1>9 DEF Uncrossed

LEMMA UncrossedStep ==
  ASSUME JsonFacesTypeOK, ~crossed => Uncrossed, JsonFacesTypeOK', [JsonFacesNext]_jsonFaces,
         ~crossed'
  PROVE  Uncrossed'
<1> USE JsonFacesAssumption
<1>t. /\ templateOf \in [Enrollee -> Save \cup {NoTemplate}]
      /\ embeddings \in [Save -> SUBSET Save]
      /\ file \in [Enrollee -> SUBSET Save]
      /\ save \in [Save -> SaveType]
  BY DEF JsonFacesTypeOK, SaveType
<1>s. \A r \in Save : SaveEnds(r) = [save EXCEPT ![r] = [FreshSave EXCEPT !.at = "done"]]
      /\ [FreshSave EXCEPT !.at = "done"] \in SaveType
  BY DEF SaveEnds, FreshSave, NoEmbeddings, SaveType
<1>d. LET q == [FreshSave EXCEPT !.at = "done"] IN q.at = "done" /\ q.removed = {}
  BY DEF FreshSave
<1>1. CASE UNCHANGED jsonFaces
  <2>1. Uncrossed /\ UNCHANGED <<templateOf, embeddings, file, save, saved, erased>>
    BY <1>1 DEF jsonFaces
  <2>2. (\A s : Mem(s)' = Mem(s)) /\ MemAll' = MemAll /\ Entries' = Entries /\ InMemory' = InMemory
    BY <2>1, MemoryStays
  <2>3. QED
    BY <2>1, <2>2 DEF Uncrossed, Unnamed, WritesMemory, Writing, FileAll
<1>2. ASSUME NEW r \in Save, NEW s \in Enrollee, UpsertFace(r, s) PROVE Uncrossed'
  <2> DEFINE t == IF s \in InMemory THEN templateOf[s] ELSE r
  <2>1. Uncrossed /\ save[r].at = "new" /\ \A p \in Save : ~Writing(p)
    BY <1>2 DEF UpsertFace, Races, SaveArrives, Writing
  <2>2. /\ templateOf' = [templateOf EXCEPT ![s] = t]
        /\ embeddings' = [embeddings EXCEPT ![t] = @ \cup {r}]
        /\ save' = [save EXCEPT ![r].at = "changed"]
        /\ UNCHANGED <<file, saved, erased>>
    BY <1>2 DEF UpsertFace
  <2>3. /\ save'[r] = [save[r] EXCEPT !.at = "changed"]
        /\ \A p \in Save \ {r} : save'[p] = save[p]
    BY <1>t, <2>2
  <2>4. save'[r].at = "changed" /\ save'[r].out = save[r].out /\ save'[r].removed = save[r].removed
    BY <1>t, <2>3 DEF SaveType
  <2>5. save[r].removed = {} /\ Unnamed(r)
    BY <2>1 DEF Uncrossed, WritesMemory
  <2>6. t \in Save /\ \A u \in InMemory \ {s} : templateOf[u] # t
    BY <1>t, <2>1, <2>5, TemplatesDiffer DEF InMemory, Unnamed
  <2>7. embeddings[t] = Mem(s)
    BY <2>5 DEF Mem, Unnamed
  <2>8. r # NoTemplate /\ \A p \in Save : p # NoTemplate
    BY DEF Save, NoTemplate
  <2>9. templateOf'[s] = t /\ s \in InMemory' /\ Mem(s)' = Mem(s) \cup {r}
    BY <1>t, <2>2, <2>6, <2>7, <2>8 DEF InMemory, Mem
  <2>10. \A u \in Enrollee \ {s} : templateOf'[u] = templateOf[u]
    BY <1>t, <2>2
  <2>11. \A u \in Enrollee \ {s} : Mem(u)' = Mem(u)
    <3>1. ASSUME NEW u \in Enrollee \ {s}, u \in InMemory
          PROVE  embeddings'[templateOf[u]] = embeddings[templateOf[u]]
      BY <1>t, <2>2, <2>6, <3>1
    <3>2. QED
      BY <2>10, <3>1 DEF Mem, InMemory
  <2>12. \A p \in Save \ {r} : save[p].at = "new" => embeddings'[p] = {}
    <3>1. ASSUME NEW p \in Save \ {r}, save[p].at = "new" PROVE embeddings'[p] = {}
      <4>1. Unnamed(p) /\ p # t
        BY <2>1, <3>1 DEF Uncrossed, Unnamed
      <4>2. QED
        BY <1>t, <2>2, <4>1 DEF Unnamed
    <3>2. QED
      BY <3>1
  <2>13. saved' \subseteq MemAll'
    <3>1. MemAll \subseteq MemAll'
      BY <2>9, <2>11 DEF MemAll
    <3>2. QED
      BY <2>1, <2>2, <3>1 DEF Uncrossed
  <2>14. templateOf'[s] \in {NoTemplate, templateOf[s], r}
    BY <2>9
  <2> HIDE DEF t
  <2>15. QED
    BY <2>1, <2>2, <2>3, <2>4, <2>5, <2>9, <2>10, <2>11, <2>12, <2>13, <2>14, WriterComes
<1>3. ASSUME NEW r \in Save, NEW s \in Enrollee, RemoveFace(r, s) PROVE Uncrossed'
  <2>1. CASE s \in InMemory
    <3>1. Uncrossed /\ save[r].at = "new" /\ \A p \in Save : ~Writing(p)
      BY <1>3, <2>1 DEF RemoveFace, Races, SaveArrives, Writing
    <3>2. /\ templateOf' = [templateOf EXCEPT ![s] = NoTemplate]
          /\ save' = [save EXCEPT ![r].at = "changed", ![r].removed = Mem(s)]
          /\ saved' = saved \ Mem(s)
          /\ UNCHANGED <<embeddings, file, erased>>
      BY <1>3, <2>1 DEF RemoveFace, Mem
    <3>3. /\ save'[r] = [save[r] EXCEPT !.at = "changed", !.removed = Mem(s)]
          /\ \A p \in Save \ {r} : save'[p] = save[p]
      BY <1>t, <3>2
    <3>4. save'[r].at = "changed" /\ save'[r].out = save[r].out /\ save'[r].removed = Mem(s)
      BY <1>t, <3>3 DEF SaveType
    <3>5. Mem(s) # {}
      BY <2>1, <3>1 DEF Uncrossed
    <3>6. templateOf'[s] = NoTemplate /\ s \notin InMemory' /\ Mem(s)' = {}
      BY <1>t, <3>2 DEF InMemory, Mem
    <3>7. \A u \in Enrollee \ {s} : templateOf'[u] = templateOf[u] /\ Mem(u)' = Mem(u)
      BY <1>t, <3>2 DEF InMemory, Mem
    <3>8. \A p \in Save \ {r} : save[p].at = "new" => embeddings'[p] = {}
      BY <3>1, <3>2 DEF Uncrossed, Unnamed
    <3>9. saved' \subseteq saved /\ saved' \subseteq MemAll'
      <4>1. MemAll \subseteq MemAll' \cup Mem(s)
        BY <3>7 DEF MemAll
      <4>2. QED
        BY <3>1, <3>2, <4>1 DEF Uncrossed
    <3>10. save'[r].removed = {} => r \in Mem(s)'
      BY <3>4, <3>5
    <3>11. save'[r].removed \subseteq Mem(s) \ Mem(s)'
      BY <3>4, <3>6
    <3>12. QED
      BY <3>1, <3>2, <3>3, <3>4, <3>6, <3>7, <3>8, <3>9, <3>10, <3>11, WriterComes
  <2>2. CASE s \notin InMemory
    <3>1. save' = SaveEnds(r) /\ ~crossed /\ save[r].at = "new"
          /\ UNCHANGED <<templateOf, embeddings, file, saved, erased>>
      BY <1>3, <2>2 DEF RemoveFace, SaveArrives
    <3>2. (\A u : Mem(u)' = Mem(u)) /\ MemAll' = MemAll /\ Entries' = Entries /\ InMemory' = InMemory
      BY <3>1, MemoryStays
    <3>3. /\ save'[r].at = "done" /\ save'[r].removed = {}
          /\ \A p \in Save \ {r} : save'[p] = save[p]
      BY <3>1, SaveEndsType
    <3>4. \A p \in Save : Writing(p)' <=> Writing(p)
      BY <3>1, <3>3 DEF Writing
    <3>5. \A p \in Save : WritesMemory(p)'
      <4>1. WritesMemory(r)'
        BY <3>3 DEF WritesMemory, Writing
      <4>2. \A p \in Save \ {r} : WritesMemory(p)'
        BY <3>1, <3>2, <3>3 DEF Uncrossed, WritesMemory, Writing
      <4>3. QED
        BY <4>1, <4>2
    <3>6. \A p \in Save : save'[p].at = "new" => Unnamed(p)'
      BY <3>1, <3>2, <3>3 DEF Uncrossed, Unnamed
    <3>7. QED
      BY <3>1, <3>2, <3>4, <3>5, <3>6 DEF Uncrossed, FileAll
  <2>3. QED
    BY <2>1, <2>2
<1>4. ASSUME NEW r \in Save, Iterate(r) PROVE Uncrossed'
  <2> DEFINE q == [save[r] EXCEPT !.at = "iterating", !.seen = Entries]
  <2>1. /\ Uncrossed /\ save[r].at = "changed" /\ save' = [save EXCEPT ![r] = q]
        /\ UNCHANGED <<templateOf, embeddings, file, saved, erased>>
    BY <1>t, <1>4 DEF Iterate, TempFile
  <2>2. save[r] \in SaveType
    BY <1>t
  <2>3. /\ q \in SaveType /\ q.at = "iterating" /\ q.seen = Entries
        /\ q.out = save[r].out /\ q.removed = save[r].removed
    BY <2>2, EntriesType DEF SaveType
  <2> HIDE DEF q
  <2>4. save'[r] = q
    BY <1>t, <2>1
  <2>5. WritesMemory(r) /\ Writing(r)
    BY <2>1 DEF Uncrossed, Writing
  <2>6. WritesMemory(r)'
    BY <2>1, <2>3, <2>4, <2>5, MemoryStays DEF WritesMemory, Writing, NoEmbeddings
  <2>7. QED
    BY <2>1, <2>3, <2>5, <2>6, WriterMoves
<1>5. ASSUME NEW r \in Save, Iterated(r) PROVE Uncrossed'
  <2> DEFINE q == [save[r] EXCEPT !.at = "dumping", !.payload = Entries, !.seen = {}]
  <2>1. /\ Uncrossed /\ save[r].at = "iterating"
        /\ UNCHANGED <<templateOf, embeddings, file, saved, erased>>
    BY <1>5 DEF Iterated
  <2>2. WritesMemory(r) /\ Writing(r) /\ save[r].seen = Entries /\ save[r].out = NoEmbeddings
    BY <2>1 DEF Uncrossed, Writing, WritesMemory
  <2>3. save' = [save EXCEPT ![r] = q]
    BY <1>t, <1>5, <2>2 DEF Iterated, Payloads
  <2>4. save[r] \in SaveType
    BY <1>t
  <2>5. /\ q \in SaveType /\ q.at = "dumping" /\ q.payload = Entries
        /\ q.out = save[r].out /\ q.removed = save[r].removed
    BY <2>4, EntriesType DEF SaveType
  <2> HIDE DEF q
  <2>6. save'[r] = q
    BY <1>t, <2>3
  <2>7. \A s \in Enrollee : <<s, templateOf[s]>> \notin Entries => NoEmbeddings[s] = Mem(s)
    BY DEF Entries, Mem, NoEmbeddings
  <2>8. WritesMemory(r)'
    BY <2>1, <2>2, <2>5, <2>6, <2>7, MemoryStays DEF WritesMemory, Writing
  <2>9. QED
    BY <2>1, <2>2, <2>3, <2>5, <2>8, WriterMoves
<1>6. ASSUME NEW r \in Save, NEW entry \in save[r].payload, Dump(r, entry) PROVE Uncrossed'
  <2> DEFINE dumped == [save[r].out EXCEPT ![entry[1]] = embeddings[entry[2]]]
             q == [save[r] EXCEPT !.payload = @ \ {entry}, !.out = dumped]
  <2>1. /\ Uncrossed /\ save[r].at = "dumping"
        /\ UNCHANGED <<templateOf, embeddings, file, saved, erased>>
    BY <1>6 DEF Dump
  <2>2. WritesMemory(r) /\ Writing(r) /\ save[r].payload \subseteq Entries
        /\ \A s \in Enrollee : <<s, templateOf[s]>> \notin save[r].payload =>
             save[r].out[s] = Mem(s)
    BY <2>1 DEF Uncrossed, Writing, WritesMemory
  <2>3. PICK s \in InMemory : entry = <<s, templateOf[s]>>
    BY <2>2 DEF Entries
  <2>4. save[r] \in SaveType /\ save[r].out \in [Enrollee -> SUBSET Save] /\ s \in Enrollee
        /\ templateOf[s] \in Save
    BY <1>t, <2>3 DEF SaveType, InMemory
  <2>5. /\ dumped \in [Enrollee -> SUBSET Save]
        /\ dumped[s] = Mem(s) /\ \A u \in Enrollee \ {s} : dumped[u] = save[r].out[u]
    BY <1>t, <2>3, <2>4 DEF Mem
  <2>6. save' = [save EXCEPT ![r] = q]
    BY <1>t, <1>6 DEF Dump
  <2> HIDE DEF dumped
  <2>7. /\ q \in SaveType /\ q.at = "dumping" /\ q.payload = save[r].payload \ {entry}
        /\ q.out = dumped /\ q.removed = save[r].removed
    BY <2>1, <2>4, <2>5 DEF SaveType
  <2> HIDE DEF q
  <2>8. save'[r] = q
    BY <1>t, <2>6
  <2>9. \A u \in Enrollee : <<u, templateOf[u]>> \notin q.payload => q.out[u] = Mem(u)
    BY <2>2, <2>3, <2>5, <2>7
  <2>10. WritesMemory(r)'
    BY <2>1, <2>2, <2>7, <2>8, <2>9, MemoryStays DEF WritesMemory, Writing
  <2>11. QED
    BY <2>1, <2>2, <2>6, <2>7, <2>10, WriterMoves
<1>7. ASSUME NEW r \in Save, Replace(r) PROVE Uncrossed'
  <2>1. /\ Uncrossed /\ save[r].at = "dumping" /\ save[r].payload = {}
        /\ file' = save[r].out /\ save' = SaveEnds(r)
        /\ UNCHANGED <<templateOf, embeddings>>
    BY <1>7 DEF Replace
  <2>2. WritesMemory(r) /\ Writing(r) /\ \A p \in Save \ {r} : ~Writing(p)
    BY <2>1 DEF Uncrossed, Writing
  <2>3. \A s \in Enrollee : file'[s] = Mem(s)
    BY <2>1, <2>2 DEF WritesMemory
  <2>4. FileAll' = MemAll
    BY <2>3 DEF FileAll, MemAll
  <2>5. (\A s : Mem(s)' = Mem(s)) /\ MemAll' = MemAll /\ Entries' = Entries /\ InMemory' = InMemory
    BY <2>1, MemoryStays
  <2>6. /\ saved' \subseteq MemAll /\ erased' \cap MemAll = {}
        /\ saved' \subseteq saved \cup {r} /\ erased' \subseteq erased \cup save[r].removed
    BY <1>7, <2>1, <2>2 DEF Replace, WritesMemory, Uncrossed
  <2>7. /\ save'[r].at = "done" /\ save'[r].removed = {}
        /\ \A p \in Save \ {r} : save'[p] = save[p]
    BY <2>1, SaveEndsType
  <2>8. \A p \in Save : ~Writing(p)'
    BY <2>2, <2>7 DEF Writing
  <2>9. ASSUME NEW p \in Save PROVE WritesMemory(p)'
    <3>1. save'[p].at # "new" => save'[p].at = "done"
      BY <2>8 DEF Writing, JsonFacesTypeOK
    <3>2. save'[p].at = "new" => save'[p] = save[p]
      BY <2>7
    <3>3. QED
      BY <2>1, <2>8, <3>1, <3>2 DEF Uncrossed, WritesMemory, NoEmbeddings
  <2>10. ASSUME NEW p \in Save, save'[p].at = "new" PROVE Unnamed(p)'
    <3>1. p # r /\ Unnamed(p)
      BY <2>1, <2>7, <2>10 DEF Uncrossed
    <3>2. p \notin MemAll
      BY <3>1 DEF Unnamed, MemAll
    <3>3. p \notin saved' \cup erased'
      <4>1. p \notin save[r].removed
        BY <3>1 DEF Unnamed
      <4>2. QED
        BY <2>6, <3>1, <4>1 DEF Unnamed
    <3>4. \A q \in Save : p \notin save'[q].removed
      BY <2>7, <3>1 DEF Unnamed
    <3>5. QED
      BY <2>1, <2>3, <2>5, <3>1, <3>3, <3>4 DEF Unnamed
  <2>11. /\ \A s \in InMemory' : Mem(s)' # {}
         /\ \A s, u \in Enrollee : s # u =>
              Mem(s)' \cap Mem(u)' = {} /\ file'[s] \cap file'[u] = {}
    BY <2>1, <2>3, <2>5 DEF Uncrossed, InMemory
  <2>12. QED
    BY <2>4, <2>5, <2>6, <2>8, <2>9, <2>10, <2>11 DEF Uncrossed
<1>8. ASSUME NEW r \in Save, FlushFails(r) PROVE Uncrossed'
  <2> DEFINE q == [FreshSave EXCEPT !.at = "done"]
  <2>1. /\ Uncrossed /\ Writing(r) /\ save' = [save EXCEPT ![r] = q]
        /\ UNCHANGED <<templateOf, embeddings, file, saved, erased>>
    BY <1>s, <1>8 DEF FlushFails, Writing
  <2>2. q \in SaveType /\ q.at = "done" /\ q.removed = {}
    BY <1>s, <1>d
  <2> HIDE DEF q
  <2>3. WritesMemory(r)'
    BY <1>t, <2>1, <2>2 DEF WritesMemory, Writing
  <2>4. QED
    BY <2>1, <2>2, <2>3, WriterMoves
<1>9. CASE RestartStore
  <2>1. /\ Uncrossed /\ UNCHANGED <<file, saved, erased>>
        /\ templateOf' = [s \in Enrollee |-> IF file[s] = {} THEN NoTemplate ELSE Min(file[s])]
        /\ embeddings' = [r \in Save |-> UNION {file[s] : s \in {e \in Enrollee : r \in file[e]}}]
        /\ save' = [r \in Save |-> IF Writing(r) THEN SaveEnds(r)[r] ELSE save[r]]
    BY <1>9 DEF RestartStore
  <2>2. ASSUME NEW s \in Enrollee, file[s] # {}
        PROVE  /\ templateOf'[s] \in file[s] /\ templateOf'[s] \in Save
               /\ embeddings'[templateOf'[s]] = file[s]
    <3>1. file[s] \in (SUBSET Nat) \ {{}} /\ file[s] \subseteq Save
      BY <1>t, <2>2 DEF Save
    <3>2. templateOf'[s] \in file[s] /\ templateOf'[s] \in Save
      BY <2>1, <2>2, <3>1, MinIs
    <3>3. {e \in Enrollee : templateOf'[s] \in file[e]} = {s}
      BY <2>1, <3>2 DEF Uncrossed
    <3>4. embeddings'[templateOf'[s]] = UNION {file[e] : e \in {s}}
      BY <2>1, <3>2, <3>3
    <3>5. QED
      BY <3>2, <3>4
  <2>3. \A s \in Enrollee : Mem(s)' = file[s] /\ (s \in InMemory' <=> file[s] # {})
    <3>1. \A r \in Save : r # NoTemplate
      BY DEF Save, NoTemplate
    <3>2. \A s \in Enrollee : file[s] = {} => templateOf'[s] = NoTemplate
      BY <2>1
    <3>3. QED
      BY <2>2, <3>1, <3>2 DEF Mem, InMemory
  <2>4. MemAll' = FileAll /\ FileAll' = FileAll
    BY <2>1, <2>3 DEF MemAll, FileAll
  <2>5. ASSUME NEW p \in Save
        PROVE  /\ ~Writing(p)' /\ save'[p].at \in {"new", "done"}
               /\ save'[p].at = "new" => save'[p] = save[p]
               /\ save'[p].removed \subseteq save[p].removed
    <3>1. SaveEnds(p)[p].at = "done" /\ SaveEnds(p)[p].removed = {}
      BY SaveEndsType
    <3>2. save[p].at \in {"new", "changed", "iterating", "dumping", "done"}
      BY DEF JsonFacesTypeOK
    <3>3. QED
      BY <2>1, <3>1, <3>2 DEF Writing
  <2>6. ASSUME NEW p \in Save PROVE WritesMemory(p)'
    <3>1. Uncrossed
      BY <2>1
    <3>2. WritesMemory(p)
      BY <3>1 DEF Uncrossed
    <3>3. QED
      BY <2>5, <3>2 DEF WritesMemory, NoEmbeddings
  <2>7. ASSUME NEW p \in Save, save'[p].at = "new" PROVE Unnamed(p)'
    <3>1. Unnamed(p)
      BY <2>1, <2>5, <2>7 DEF Uncrossed
    <3>2. embeddings'[p] = {}
      <4>1. {e \in Enrollee : p \in file[e]} = {}
        BY <3>1 DEF Unnamed
      <4>2. embeddings'[p] = UNION {file[s] : s \in {}}
        BY <2>1, <4>1
      <4>3. QED
        BY <4>2
    <3>3. \A s \in Enrollee : templateOf'[s] # p
      <4>1. p # NoTemplate
        BY DEF Save, NoTemplate
      <4>2. QED
        BY <2>1, <2>2, <3>1, <4>1 DEF Unnamed
    <3>4. UNCHANGED <<file, saved, erased>>
      BY <2>1
    <3>5. QED
      BY <2>3, <2>5, <3>1, <3>2, <3>3, <3>4 DEF Unnamed
  <2>8. Uncrossed /\ UNCHANGED <<file, saved, erased>>
    BY <2>1
  <2>9. /\ \A s \in InMemory' : Mem(s)' # {}
        /\ \A s, u \in Enrollee : s # u =>
             Mem(s)' \cap Mem(u)' = {} /\ file'[s] \cap file'[u] = {}
    BY <2>3, <2>8 DEF Uncrossed, InMemory
  <2>10. saved' \subseteq MemAll' \cap FileAll' /\ erased' \cap (MemAll' \cup FileAll') = {}
    BY <2>4, <2>8 DEF Uncrossed
  <2>11. QED
    BY <2>5, <2>6, <2>7, <2>9, <2>10 DEF Uncrossed
<1>10. QED
  BY <1>1, <1>2, <1>3, <1>4, <1>5, <1>6, <1>7, <1>8, <1>9 DEF JsonFacesNext

LEMMA JsonInvStep == JsonInv /\ [JsonFacesNext]_jsonFaces => JsonInv'
  BY JsonTypeStep, UncrossedStep DEF JsonInv

LEMMA JsonInvariant == JsonFacesSpec => []JsonInv
  BY JsonInvInit, JsonInvStep, PTL DEF JsonFacesSpec

\* "persisted to a JSON file after every write" (faceid/store.py:117): for any number of
\* requests and subjects, whatever fails and whenever the process stops, unless two requests
\* write at the same time.
THEOREM JsonFileKeeps == JsonFacesSpec => [](JsonFacesTypeOK /\ FileKeepsAnswers)
<1>1. JsonInv => JsonFacesTypeOK /\ FileKeepsAnswers
  BY DEF JsonInv, Uncrossed, FileKeepsAnswers, FileAll
<1>2. QED
  BY <1>1, JsonInvariant, PTL

-----------------------------------------------------------------------------
\* The gallery in PostgreSQL. Who has found a subject, written it or is deleting it holds
\* its row, and commits the reference images it adds to.
RowHeld(r) ==
  LET f == face[r]
      adds == f.refs = gallery.refs[f.subject] \cup {r}
  IN /\ f.at = "looked" => IF f.exists THEN locked[f.subject] = r /\ adds ELSE f.refs = {r}
     /\ f.at = "written" => locked[f.subject] = r /\ adds
     /\ f.at = "deleting" /\ f.exists => locked[f.subject] = r

\* While nothing has been deleted, a stamp counts rows that were there, and still are; the
\* rows that were read after it have them.
Counted(stamp, S) == S \subseteq gallery.rows /\ Cardinality(S) = stamp[1]
CacheCounted == cache.known => \E S \in SUBSET cache.rows : Counted(cache.stamp, S)
RequestCounted(r) ==
  /\ At(r, "stamped") => Counted(face[r].stamp, face[r].before)
  /\ At(r, "read") => /\ Counted(face[r].stamp, face[r].before)
                      /\ face[r].before \subseteq face[r].rows
  /\ At(r, "identified") => face[r].before \subseteq face[r].rows
StampInv == deleted = {} => CacheCounted /\ \A r \in FaceRequest : RequestCounted(r)

\* Ids are drawn, and samples kept, by requests that have written or ended.
Wrote == {r \in FaceRequest : face[r].at \in {"written", "done"}}
Done == {r \in FaceRequest : face[r].at = "done"}

FaceInv ==
  /\ FaceTypeOK
  /\ EnrollmentsAddUp
  /\ IsFiniteSet(gallery.rows) /\ Cardinality(gallery.rows) <= Cardinality(Done)
  /\ sequence <= Cardinality(Wrote)
  /\ \A r \in FaceRequest : RowHeld(r)
  /\ StampInv

RequestType ==
  [at : {"new", "looked", "written", "deleting", "stamped", "read", "identified", "done"},
   subject : Subject, exists : BOOLEAN, refs : SUBSET FaceRequest, id : FaceId,
   stamp : FaceId \X FaceId, rows : SUBSET Embedding, before : SUBSET Embedding]

LEMMA RequestsCount ==
  ASSUME NEW S \in SUBSET FaceRequest
  PROVE  IsFiniteSet(S) /\ Cardinality(S) \in Nat /\ Cardinality(S) <= MaxFaceRequests
<1>1. IsFiniteSet(FaceRequest) /\ Cardinality(FaceRequest) = MaxFaceRequests
  BY FaceAssumption, FS_Interval DEF FaceRequest
<1>2. IsFiniteSet(S) /\ Cardinality(S) <= MaxFaceRequests
  BY <1>1, FS_Subset
<1>3. QED
  BY <1>2, FS_CardinalityType

LEMMA FreshRequestType ==
  ASSUME NEW at \in {"new", "done"}
  PROVE  /\ [FreshRequest EXCEPT !.at = at] \in RequestType
         /\ [FreshRequest EXCEPT !.at = at].at = at
<1>1. (CHOOSE s \in Subject : TRUE) \in Subject
  BY FaceAssumption
<1>2. <<0, 0>> \in FaceId \X FaceId /\ 0 \in FaceId
  BY FaceAssumption DEF FaceId
<1> DEFINE s0 == CHOOSE s \in Subject : TRUE
<1>3. FreshRequest = [at |-> "new", subject |-> s0, exists |-> FALSE, refs |-> {}, id |-> 0,
                      stamp |-> <<0, 0>>, rows |-> {}, before |-> {}]
  BY DEF FreshRequest
<1> HIDE DEF s0
<1>4. s0 \in Subject
  BY <1>1 DEF s0
<1>5. QED
  BY <1>2, <1>3, <1>4 DEF RequestType

LEMMA FaceInvInit == FaceInit => FaceInv
<1> SUFFICES ASSUME FaceInit PROVE FaceInv
  OBVIOUS
<1>1. FreshRequest \in RequestType /\ FreshRequest.at = "new"
  BY FreshRequestType DEF FreshRequest
<1>2. face = [r \in FaceRequest |-> FreshRequest]
  BY DEF FaceInit
<1>3. FaceTypeOK
  BY <1>1, FaceAssumption DEF FaceInit, FaceTypeOK, RequestType, FaceId
<1>4. EnrollmentsAddUp
  BY DEF FaceInit, EnrollmentsAddUp, Of
<1>5. Wrote = {} /\ Done = {} /\ gallery.rows = {} /\ sequence = 0
  BY <1>1, <1>2 DEF Wrote, Done, FaceInit
<1>6. Cardinality({}) = 0 /\ IsFiniteSet({})
  BY FS_EmptySet
<1>7. \A r \in FaceRequest : RowHeld(r)
  BY <1>1, <1>2 DEF RowHeld
<1>8. StampInv
  BY <1>1, <1>2 DEF StampInv, CacheCounted, RequestCounted, At, FaceInit
<1>9. IsFiniteSet(gallery.rows) /\ Cardinality(gallery.rows) <= Cardinality(Done)
      /\ sequence <= Cardinality(Wrote)
  BY <1>5, <1>6
<1>10. QED
  BY <1>3, <1>4, <1>7, <1>8, <1>9 DEF FaceInv

LEMMA AnsweredType ==
  ASSUME FaceTypeOK, NEW r \in FaceRequest
  PROVE  /\ Answered(r) \in [FaceRequest -> RequestType]
         /\ Answered(r)[r].at = "done"
         /\ \A q \in FaceRequest \ {r} : Answered(r)[q] = face[q]
<1>1. face \in [FaceRequest -> RequestType]
  BY DEF FaceTypeOK, RequestType
<1>2. QED
  BY <1>1, FreshRequestType DEF Answered

\* The stamp is a pair of small numbers.
LEMMA StampType ==
  ASSUME FaceTypeOK, IsFiniteSet(gallery.rows),
         Cardinality(gallery.rows) <= Cardinality(Done)
  PROVE  FaceStamp \in FaceId \X FaceId /\ FaceStamp[1] = Cardinality(gallery.rows)
<1> DEFINE ids == {0} \cup {e.id : e \in gallery.rows}
<1>1. Done \in SUBSET FaceRequest
  BY DEF Done
<1>2. Cardinality(gallery.rows) \in FaceId
  <2>1. Cardinality(gallery.rows) \in Nat
    BY FS_CardinalityType
  <2>2. Cardinality(Done) \in Nat /\ Cardinality(Done) <= MaxFaceRequests
    BY <1>1, RequestsCount
  <2>3. QED
    BY <2>1, <2>2, FaceAssumption DEF FaceId
<1>3. ids \in (SUBSET (0..MaxFaceRequests)) \ {{}}
  BY FaceAssumption DEF FaceTypeOK, Embedding, FaceId
<1>4. Max(ids) \in FaceId
  BY <1>3, MaxIs, FaceAssumption DEF FaceId
<1>5. FaceStamp = <<Cardinality(gallery.rows), Max(ids)>>
  BY DEF FaceStamp
<1> HIDE DEF ids
<1>6. QED
  BY <1>2, <1>4, <1>5

\* A request that moves is not done with; one that had written is done.
RequestMoves(r, q) ==
  /\ q \in RequestType
  /\ face' = [face EXCEPT ![r] = q]
  /\ ~At(r, "done")
  /\ At(r, "written") => q.at = "done"

\* Requests come to have written, and to be done, and stay so.
LEMMA CountsMove ==
  ASSUME face \in [FaceRequest -> RequestType],
         NEW r \in FaceRequest, NEW q, RequestMoves(r, q)
  PROVE  /\ Cardinality(Done) \in Nat /\ Cardinality(Wrote) \in Nat
         /\ Cardinality(Wrote') <= MaxFaceRequests
         /\ Cardinality(Done) <= Cardinality(Done')
         /\ Cardinality(Wrote) <= Cardinality(Wrote')
         /\ q.at = "done" => Cardinality(Done') = Cardinality(Done) + 1
         /\ At(r, "looked") /\ q.at = "written" =>
              Cardinality(Wrote') = Cardinality(Wrote) + 1
<1>1. face' \in [FaceRequest -> RequestType] /\ face'[r] = q
      /\ \A p \in FaceRequest \ {r} : face'[p] = face[p]
  BY DEF RequestMoves
<1>2. Done \subseteq Done' /\ Wrote \subseteq Wrote'
  BY <1>1 DEF Done, Wrote, RequestMoves, At
<1>3. IsFiniteSet(Done) /\ Cardinality(Done) \in Nat
      /\ IsFiniteSet(Wrote) /\ Cardinality(Wrote) \in Nat
  BY RequestsCount DEF Done, Wrote
<1>4. IsFiniteSet(Done') /\ Cardinality(Done') \in Nat
      /\ IsFiniteSet(Wrote') /\ Cardinality(Wrote') \in Nat
      /\ Cardinality(Wrote') <= MaxFaceRequests
  <2>1. Done' \in SUBSET FaceRequest /\ Wrote' \in SUBSET FaceRequest
    BY DEF Done, Wrote
  <2>2. QED
    BY <2>1, RequestsCount
<1>5. Cardinality(Done) <= Cardinality(Done') /\ Cardinality(Wrote) <= Cardinality(Wrote')
  BY <1>2, <1>4, FS_Subset
<1>6. ASSUME q.at = "done" PROVE Cardinality(Done') = Cardinality(Done) + 1
  <2>1. r \notin Done /\ Done' = Done \cup {r}
    BY <1>1, <1>6 DEF Done, RequestMoves, At
  <2>2. QED
    BY <2>1, <1>3, FS_AddElement
<1>7. ASSUME At(r, "looked"), q.at = "written"
      PROVE  Cardinality(Wrote') = Cardinality(Wrote) + 1
  <2>1. r \notin Wrote /\ Wrote' = Wrote \cup {r}
    BY <1>1, <1>7 DEF Wrote, RequestMoves, At
  <2>2. QED
    BY <2>1, <1>3, FS_AddElement
<1>8. QED
  BY <1>3, <1>4, <1>5, <1>6, <1>7

\* A request's move keeps the types, if the rest of the step does.
LEMMA FaceTypeMoves ==
  ASSUME FaceInv, NEW r \in FaceRequest, NEW q, RequestMoves(r, q),
         gallery' \in [subjects : SUBSET Subject, refs : [Subject -> SUBSET FaceRequest],
                       rows : SUBSET Embedding],
         locked' \in [Subject -> FaceRequest \cup {NoRequest}],
         sequence' \in FaceId,
         cache' \in [known : BOOLEAN, stamp : FaceId \X FaceId, rows : SUBSET Embedding],
         deleted' \subseteq Embedding
  PROVE  FaceTypeOK'
<1>1. face \in [FaceRequest -> RequestType]
  BY DEF FaceInv, FaceTypeOK, RequestType
<1>2. face' \in [FaceRequest -> RequestType]
  BY <1>1 DEF RequestMoves
<1>3. QED
  BY <1>2 DEF FaceTypeOK, RequestType

\* A row that another request has locked is left alone: what that request knows of it holds.
LEMMA RowsStay ==
  ASSUME FaceInv, NEW r \in FaceRequest, NEW q, RequestMoves(r, q),
         \A s \in Subject : locked[s] \notin {r, NoRequest} =>
           locked'[s] = locked[s] /\ gallery'.refs[s] = gallery.refs[s],
         NEW p \in FaceRequest \ {r}
  PROVE  RowHeld(p)'
<1>1. face \in [FaceRequest -> RequestType]
  BY DEF FaceInv, FaceTypeOK, RequestType
<1>2. face'[p] = face[p] /\ face[p] \in RequestType
  BY <1>1 DEF RequestMoves
<1>3. p \notin {r, NoRequest} /\ face[p].subject \in Subject
  BY <1>2, FaceAssumption DEF NoRequest, FaceRequest, RequestType
<1>4. RowHeld(p)
  BY DEF FaceInv
<1>5. QED
  BY <1>2, <1>3, <1>4 DEF RowHeld

\* While nothing is deleted the gallery grows, and what was counted is still there.
LEMMA StampsStay ==
  ASSUME FaceInv, NEW r \in FaceRequest, NEW q, RequestMoves(r, q),
         cache' = cache, deleted \subseteq deleted',
         deleted' = {} => gallery.rows \subseteq gallery'.rows,
         q.at \notin {"stamped", "read", "identified"}
  PROVE  StampInv'
<1> SUFFICES ASSUME deleted' = {}
             PROVE  CacheCounted' /\ \A p \in FaceRequest : RequestCounted(p)'
  BY DEF StampInv
<1>1. face \in [FaceRequest -> RequestType]
  BY DEF FaceInv, FaceTypeOK, RequestType
<1>2. deleted = {} /\ gallery.rows \subseteq gallery'.rows
  OBVIOUS
<1>3. CacheCounted /\ \A p \in FaceRequest : RequestCounted(p)
  BY <1>2 DEF FaceInv, StampInv
<1>4. CacheCounted'
  BY <1>2, <1>3 DEF CacheCounted, Counted
<1>5. ASSUME NEW p \in FaceRequest PROVE RequestCounted(p)'
  <2>1. CASE p = r
    BY <2>1, <1>1 DEF RequestCounted, RequestMoves, At
  <2>2. CASE p # r
    <3>1. face'[p] = face[p]
      BY <2>2, <1>1 DEF RequestMoves
    <3>2. QED
      BY <3>1, <1>2, <1>3 DEF RequestCounted, Counted, At
  <2>3. QED
    BY <2>1, <2>2
<1>6. QED
  BY <1>4, <1>5

\* What the parts of the invariant come to after a move.
LEMMA FaceInvMoves ==
  ASSUME FaceInv, NEW r \in FaceRequest, NEW q, RequestMoves(r, q),
         FaceTypeOK', EnrollmentsAddUp', RowHeld(r)', StampInv',
         \A s \in Subject : locked[s] \notin {r, NoRequest} =>
           locked'[s] = locked[s] /\ gallery'.refs[s] = gallery.refs[s],
         IsFiniteSet(gallery'.rows),
         \/ Cardinality(gallery'.rows) <= Cardinality(gallery.rows)
         \/ Cardinality(gallery'.rows) <= Cardinality(gallery.rows) + 1 /\ q.at = "done",
         \/ sequence' = sequence
         \/ sequence' = sequence + 1 /\ At(r, "looked") /\ q.at = "written"
  PROVE  FaceInv'
<1>1. face \in [FaceRequest -> RequestType]
  BY DEF FaceInv, FaceTypeOK, RequestType
<1>2. /\ Cardinality(Done) \in Nat /\ Cardinality(Wrote) \in Nat
      /\ Cardinality(Done) <= Cardinality(Done')
      /\ Cardinality(Wrote) <= Cardinality(Wrote')
      /\ q.at = "done" => Cardinality(Done') = Cardinality(Done) + 1
      /\ At(r, "looked") /\ q.at = "written" =>
           Cardinality(Wrote') = Cardinality(Wrote) + 1
  BY <1>1, CountsMove
<1>3. /\ IsFiniteSet(gallery.rows) /\ Cardinality(gallery.rows) <= Cardinality(Done)
      /\ sequence <= Cardinality(Wrote) /\ sequence \in FaceId
  BY DEF FaceInv, FaceTypeOK
<1>4. Cardinality(gallery.rows) \in Nat /\ Cardinality(gallery'.rows) \in Nat
  BY <1>3, FS_CardinalityType
<1>5. Cardinality(Done') \in Nat /\ Cardinality(Wrote') \in Nat
  <2>1. Done' \in SUBSET FaceRequest /\ Wrote' \in SUBSET FaceRequest
    BY DEF Done, Wrote
  <2>2. QED
    BY <2>1, RequestsCount
<1>6. Cardinality(gallery'.rows) <= Cardinality(Done')
  BY <1>2, <1>3, <1>4, <1>5
<1>7. sequence' <= Cardinality(Wrote')
  BY <1>2, <1>3, <1>5, FaceAssumption DEF FaceId
<1>8. \A p \in FaceRequest : RowHeld(p)'
  BY RowsStay
<1>9. QED
  BY <1>6, <1>7, <1>8 DEF FaceInv

\* One lemma for each operation.
LEMMA FaceTyped ==
  ASSUME FaceInv
  PROVE  /\ face \in [FaceRequest -> RequestType]
         /\ gallery.subjects \in SUBSET Subject
         /\ gallery.refs \in [Subject -> SUBSET FaceRequest]
         /\ gallery.rows \in SUBSET Embedding
         /\ gallery = [subjects |-> gallery.subjects, refs |-> gallery.refs,
                       rows |-> gallery.rows]
         /\ locked \in [Subject -> FaceRequest \cup {NoRequest}]
BY DEF FaceInv, FaceTypeOK, RequestType

LEMMA EnrollKeeps ==
  ASSUME FaceInv, NEW r \in FaceRequest, Enroll(r) PROVE FaceInv'
<1>1. PICK s \in Subject :
        /\ Look(r, s)
        /\ face' = [face EXCEPT ![r].at = "looked", ![r].subject = s,
                                ![r].exists = (s \in gallery.subjects),
                                ![r].refs = gallery.refs[s] \cup {r}]
  BY DEF Enroll
<1> DEFINE exists == s \in gallery.subjects
           q == [face[r] EXCEPT !.at = "looked", !.subject = s, !.exists = exists,
                                !.refs = gallery.refs[s] \cup {r}]
<1>2. face[r] \in RequestType /\ At(r, "new")
  BY FaceTyped DEF Enroll, Arrives
<1>3. exists \in BOOLEAN
  OBVIOUS
<1>4. face' = [face EXCEPT ![r].at = "looked", ![r].subject = s, ![r].exists = exists,
                           ![r].refs = gallery.refs[s] \cup {r}]
  BY <1>1
<1> HIDE DEF exists
<1>5. q \in RequestType /\ q.at = "looked" /\ q.subject = s
       /\ q.exists = exists /\ q.refs = gallery.refs[s] \cup {r}
  BY <1>2, <1>3, FaceTyped DEF RequestType
<1>6. face' = [face EXCEPT ![r] = q]
  BY <1>4, FaceTyped
<1> HIDE DEF q
<1>7. RequestMoves(r, q) /\ face'[r] = q
  <2>1. ~At(r, "done") /\ ~At(r, "written")
    BY <1>2 DEF At
  <2>2. QED
    BY <1>5, <1>6, <2>1, FaceTyped DEF RequestMoves
<1>8. UNCHANGED <<gallery, sequence, cache, deleted>>
  BY DEF Enroll
<1>9. /\ locked' \in [Subject -> FaceRequest \cup {NoRequest}]
      /\ \A t \in Subject : locked[t] \notin {r, NoRequest} => locked'[t] = locked[t]
      /\ s \in gallery.subjects => locked'[s] = r
  BY <1>1, FaceTyped DEF Look
<1>10. FaceTypeOK'
  BY <1>7, <1>8, <1>9, FaceTypeMoves DEF FaceInv, FaceTypeOK
<1>11. EnrollmentsAddUp /\ EnrollmentsAddUp'
  BY <1>8 DEF FaceInv, EnrollmentsAddUp, Of
<1>12. RowHeld(r)'
  <2>1. s \notin gallery.subjects => gallery.refs[s] = {}
    BY <1>11 DEF EnrollmentsAddUp
  <2>2. QED
    BY <1>5, <1>7, <1>8, <1>9, <2>1 DEF RowHeld, exists
<1>13. StampInv'
  BY <1>5, <1>7, <1>8, StampsStay
<1>14. IsFiniteSet(gallery'.rows) /\ Cardinality(gallery'.rows) <= Cardinality(gallery.rows)
  BY <1>8, FS_CardinalityType DEF FaceInv
<1>15. QED
  BY <1>7, <1>8, <1>9, <1>10, <1>11, <1>12, <1>13, <1>14, FaceInvMoves

\* A request that is answered lets go of its locks and keeps nothing.
LEMMA AnsweredMoves ==
  ASSUME FaceInv, NEW r \in FaceRequest, ~At(r, "done"), face' = Answered(r)
  PROVE  /\ RequestMoves(r, [FreshRequest EXCEPT !.at = "done"])
         /\ face'[r].at = "done"
         /\ RowHeld(r)'
         /\ [FreshRequest EXCEPT !.at = "done"].at = "done"
<1>1. [FreshRequest EXCEPT !.at = "done"] \in RequestType
      /\ [FreshRequest EXCEPT !.at = "done"].at = "done"
  BY FreshRequestType
<1>2. face'[r].at = "done"
  BY <1>1, FaceTyped DEF Answered
<1>3. QED
  BY <1>1, <1>2 DEF RequestMoves, Answered, RowHeld

LEMMA RolledType ==
  ASSUME FaceInv, NEW r \in FaceRequest
  PROVE  /\ Rolled(r) \in [Subject -> FaceRequest \cup {NoRequest}]
         /\ \A t \in Subject : locked[t] \notin {r, NoRequest} => Rolled(r)[t] = locked[t]
BY FaceTyped DEF Rolled

LEMMA WriteKeeps ==
  ASSUME FaceInv, NEW r \in FaceRequest, WriteSample(r) PROVE FaceInv'
<1> DEFINE s == face[r].subject
<1>1. face[r] \in RequestType /\ At(r, "looked") /\ s \in Subject
  BY FaceTyped DEF WriteSample, RequestType
<1>2. UNCHANGED <<gallery, cache, deleted>>
  BY DEF WriteSample
<1>3. EnrollmentsAddUp /\ EnrollmentsAddUp'
  BY <1>2 DEF FaceInv, EnrollmentsAddUp, Of
<1>4. IsFiniteSet(gallery'.rows) /\ Cardinality(gallery'.rows) <= Cardinality(gallery.rows)
  BY <1>2, FS_CardinalityType DEF FaceInv
<1>5. CASE face[r].exists = (s \in gallery.subjects)
  <2> DEFINE q == [face[r] EXCEPT !.at = "written", !.id = sequence + 1]
  <2>1. /\ locked[s] \in {NoRequest, r}
        /\ locked' = [locked EXCEPT ![s] = r]
        /\ sequence' = sequence + 1
        /\ face' = [face EXCEPT ![r].at = "written", ![r].id = sequence + 1]
    BY <1>5 DEF WriteSample
  <2>2. sequence + 1 \in FaceId
    <3> DEFINE z == [face[r] EXCEPT !.at = "written"]
    <3>1. z \in RequestType /\ z.at = "written"
      BY <1>1 DEF RequestType
    <3>2. r \notin Wrote /\ Wrote \cup {r} \in SUBSET FaceRequest
      BY <1>1 DEF Wrote, At
    <3>3. /\ Cardinality(Wrote \cup {r}) <= MaxFaceRequests
          /\ IsFiniteSet(Wrote) /\ Cardinality(Wrote) \in Nat
      BY <3>2, RequestsCount
    <3>4. Cardinality(Wrote \cup {r}) = Cardinality(Wrote) + 1
      BY <3>2, <3>3, FS_AddElement
    <3>5. sequence <= Cardinality(Wrote) /\ sequence \in FaceId
      BY DEF FaceInv, FaceTypeOK
    <3>6. QED
      BY <3>3, <3>4, <3>5, FaceAssumption DEF FaceId
  <2>3. q \in RequestType /\ q.at = "written" /\ q.subject = s /\ q.refs = face[r].refs
    BY <1>1, <2>2 DEF RequestType
  <2>4. face' = [face EXCEPT ![r] = q]
    BY <2>1, FaceTyped
  <2> HIDE DEF q
  <2>5. RequestMoves(r, q) /\ face'[r] = q
    BY <1>1, <2>3, <2>4, FaceTyped DEF RequestMoves, At
  <2>6. /\ locked' \in [Subject -> FaceRequest \cup {NoRequest}]
        /\ \A t \in Subject : locked[t] \notin {r, NoRequest} => locked'[t] = locked[t]
        /\ locked'[s] = r
    BY <2>1, <1>1, FaceTyped
  <2>7. FaceTypeOK'
    BY <1>2, <2>1, <2>2, <2>5, <2>6, FaceTypeMoves DEF FaceInv, FaceTypeOK
  <2>8. RowHeld(r)'
    <3>1. RowHeld(r)
      BY DEF FaceInv
    <3>2. s \notin gallery.subjects => gallery.refs[s] = {}
      BY <1>1, <1>3 DEF EnrollmentsAddUp
    <3>3. face[r].refs = gallery.refs[s] \cup {r}
      BY <1>1, <1>5, <3>1, <3>2 DEF RowHeld, At
    <3>4. QED
      BY <1>2, <2>3, <2>5, <2>6, <3>3 DEF RowHeld
  <2>9. StampInv'
    BY <1>2, <2>3, <2>5, StampsStay
  <2>10. QED
    BY <1>1, <1>2, <1>3, <1>4, <2>1, <2>3, <2>5, <2>6, <2>7, <2>8, <2>9, FaceInvMoves
<1>6. CASE face[r].exists # (s \in gallery.subjects)
  <2> DEFINE q == [FreshRequest EXCEPT !.at = "done"]
  <2>1. face' = Answered(r) /\ UNCHANGED <<locked, sequence>>
    BY <1>6 DEF WriteSample
  <2>2. RequestMoves(r, q) /\ RowHeld(r)' /\ q.at = "done"
    BY <1>1, <2>1, AnsweredMoves DEF At
  <2> HIDE DEF q
  <2>3. FaceTypeOK'
    BY <1>2, <2>1, <2>2, FaceTypeMoves DEF FaceInv, FaceTypeOK
  <2>4. StampInv'
    BY <1>2, <2>2, StampsStay
  <2>5. QED
    BY <1>2, <1>3, <1>4, <2>1, <2>2, <2>3, <2>4, FaceInvMoves
<1>7. QED
  BY <1>5, <1>6

LEMMA CommitKeeps ==
  ASSUME FaceInv, NEW r \in FaceRequest, CommitSample(r) PROVE FaceInv'
<1> DEFINE s == face[r].subject
           e == [id |-> face[r].id, subject |-> s, sample |-> r]
           q == [FreshRequest EXCEPT !.at = "done"]
<1>1. face[r] \in RequestType /\ At(r, "written") /\ s \in Subject
  BY FaceTyped DEF CommitSample, RequestType
<1>2. /\ gallery' = [subjects |-> gallery.subjects \cup {s},
                     refs |-> [gallery.refs EXCEPT ![s] = face[r].refs],
                     rows |-> gallery.rows \cup {e}]
      /\ locked' = Rolled(r)
      /\ face' = Answered(r)
      /\ UNCHANGED <<sequence, cache, deleted>>
  BY DEF CommitSample
<1>3. RequestMoves(r, q) /\ RowHeld(r)' /\ q.at = "done"
  BY <1>1, <1>2, AnsweredMoves DEF At
<1>4. e \in Embedding /\ e.subject = s /\ e.sample = r
  BY <1>1 DEF Embedding, RequestType
<1> HIDE DEF q, e
<1>5. /\ face[r].refs = gallery.refs[s] \cup {r} /\ locked[s] = r
  BY <1>1 DEF FaceInv, RowHeld, At
<1>6. /\ gallery'.subjects = gallery.subjects \cup {s}
      /\ gallery'.rows = gallery.rows \cup {e}
      /\ gallery'.refs = [gallery.refs EXCEPT ![s] = gallery.refs[s] \cup {r}]
  BY <1>2, <1>5
<1>7. gallery' \in [subjects : SUBSET Subject, refs : [Subject -> SUBSET FaceRequest],
                    rows : SUBSET Embedding]
  BY <1>1, <1>2, <1>4, FaceTyped DEF RequestType
<1>8. \A t \in Subject : locked[t] \notin {r, NoRequest} =>
        locked'[t] = locked[t] /\ gallery'.refs[t] = gallery.refs[t]
  BY <1>1, <1>2, <1>5, <1>6, RolledType, FaceTyped
<1>9. FaceTypeOK'
  BY <1>2, <1>3, <1>7, RolledType, FaceTypeMoves DEF FaceInv, FaceTypeOK
<1>10. EnrollmentsAddUp'
  <2> SUFFICES ASSUME NEW t \in Subject
               PROVE  /\ {d.sample : d \in Of(t)'} = gallery'.refs[t]
                      /\ (t \in gallery'.subjects) = (Of(t)' # {})
    BY DEF EnrollmentsAddUp
  <2>1. {d.sample : d \in Of(t)} = gallery.refs[t]
        /\ (t \in gallery.subjects) = (Of(t) # {})
    BY DEF FaceInv, EnrollmentsAddUp
  <2>2. Of(t)' = IF t = s THEN Of(t) \cup {e} ELSE Of(t)
    BY <1>4, <1>6 DEF Of
  <2>3. gallery'.refs[t] = IF t = s THEN gallery.refs[t] \cup {r} ELSE gallery.refs[t]
    BY <1>1, <1>6, FaceTyped
  <2>4. {d.sample : d \in Of(t) \cup {e}} = {d.sample : d \in Of(t)} \cup {r}
    BY <1>4
  <2>5. CASE t = s
    BY <2>1, <2>2, <2>3, <2>4, <2>5, <1>6
  <2>6. CASE t # s
    BY <2>1, <2>2, <2>3, <2>6, <1>6
  <2>7. QED
    BY <2>5, <2>6
<1>11. StampInv'
  BY <1>2, <1>3, <1>6, StampsStay
<1>12. /\ IsFiniteSet(gallery'.rows)
       /\ Cardinality(gallery'.rows) <= Cardinality(gallery.rows) + 1
  <2>1. IsFiniteSet(gallery.rows)
    BY DEF FaceInv
  <2>2. /\ IsFiniteSet(gallery.rows \cup {e})
        /\ Cardinality(gallery.rows \cup {e})
             = IF e \in gallery.rows THEN Cardinality(gallery.rows)
               ELSE Cardinality(gallery.rows) + 1
    BY <2>1, FS_AddElement
  <2>3. Cardinality(gallery.rows) \in Nat
    BY <2>1, FS_CardinalityType
  <2>4. gallery'.rows = gallery.rows \cup {e}
    BY <1>6
  <2>5. QED
    BY <2>2, <2>3, <2>4
<1>13. QED
  BY <1>2, <1>3, <1>8, <1>9, <1>10, <1>11, <1>12, FaceInvMoves

LEMMA RollBackKeeps ==
  ASSUME FaceInv, NEW r \in FaceRequest, RollBack(r) PROVE FaceInv'
<1> DEFINE q == [FreshRequest EXCEPT !.at = "done"]
<1>1. RequestMoves(r, q) /\ RowHeld(r)' /\ q.at = "done"
  BY AnsweredMoves DEF RollBack, At
<1> HIDE DEF q
<1>2. locked' = Rolled(r) /\ UNCHANGED <<gallery, sequence, cache, deleted>>
  BY DEF RollBack
<1>3. EnrollmentsAddUp'
  BY <1>2 DEF FaceInv, EnrollmentsAddUp, Of
<1>4. IsFiniteSet(gallery'.rows) /\ Cardinality(gallery'.rows) <= Cardinality(gallery.rows)
  BY <1>2, FS_CardinalityType DEF FaceInv
<1>5. FaceTypeOK'
  BY <1>1, <1>2, RolledType, FaceTypeMoves DEF FaceInv, FaceTypeOK
<1>6. StampInv'
  BY <1>1, <1>2, StampsStay
<1>7. QED
  BY <1>1, <1>2, <1>3, <1>4, <1>5, <1>6, RolledType, FaceInvMoves

LEMMA DeleteKeeps ==
  ASSUME FaceInv, NEW r \in FaceRequest, DeleteFace(r) PROVE FaceInv'
<1>1. PICK s \in Subject :
        /\ locked[s] = NoRequest
        /\ locked' = IF s \in gallery.subjects THEN [locked EXCEPT ![s] = r] ELSE locked
        /\ face' = [face EXCEPT ![r].at = "deleting", ![r].subject = s,
                                ![r].exists = (s \in gallery.subjects)]
  BY DEF DeleteFace
<1> DEFINE exists == s \in gallery.subjects
           q == [face[r] EXCEPT !.at = "deleting", !.subject = s, !.exists = exists]
<1>2. face[r] \in RequestType /\ At(r, "new")
  BY FaceTyped DEF DeleteFace, Arrives
<1>3. exists \in BOOLEAN
  OBVIOUS
<1>4. face' = [face EXCEPT ![r].at = "deleting", ![r].subject = s, ![r].exists = exists]
  BY <1>1
<1> HIDE DEF exists
<1>5. q \in RequestType /\ q.at = "deleting" /\ q.subject = s /\ q.exists = exists
  BY <1>2, <1>3, FaceTyped DEF RequestType
<1>6. face' = [face EXCEPT ![r] = q]
  BY <1>4, FaceTyped
<1> HIDE DEF q
<1>7. RequestMoves(r, q) /\ face'[r] = q
  <2>1. ~At(r, "done") /\ ~At(r, "written")
    BY <1>2 DEF At
  <2>2. QED
    BY <1>5, <1>6, <2>1, FaceTyped DEF RequestMoves
<1>8. UNCHANGED <<gallery, sequence, cache, deleted>>
  BY DEF DeleteFace
<1>9. /\ locked' \in [Subject -> FaceRequest \cup {NoRequest}]
      /\ \A t \in Subject : locked[t] \notin {r, NoRequest} => locked'[t] = locked[t]
      /\ exists => locked'[s] = r
  BY <1>1, FaceTyped DEF exists
<1>10. FaceTypeOK'
  BY <1>7, <1>8, <1>9, FaceTypeMoves DEF FaceInv, FaceTypeOK
<1>11. EnrollmentsAddUp'
  BY <1>8 DEF FaceInv, EnrollmentsAddUp, Of
<1>12. RowHeld(r)'
  BY <1>5, <1>7, <1>9 DEF RowHeld
<1>13. StampInv'
  BY <1>5, <1>7, <1>8, StampsStay
<1>14. IsFiniteSet(gallery'.rows) /\ Cardinality(gallery'.rows) <= Cardinality(gallery.rows)
  BY <1>8, FS_CardinalityType DEF FaceInv
<1>15. QED
  BY <1>7, <1>8, <1>9, <1>10, <1>11, <1>12, <1>13, <1>14, FaceInvMoves

LEMMA CommitDeleteKeeps ==
  ASSUME FaceInv, NEW r \in FaceRequest, CommitDelete(r) PROVE FaceInv'
<1> DEFINE s == face[r].subject
           q == [FreshRequest EXCEPT !.at = "done"]
<1>1. face[r] \in RequestType /\ At(r, "deleting") /\ s \in Subject
  BY FaceTyped DEF CommitDelete, RequestType
<1>2. locked' = Rolled(r) /\ face' = Answered(r) /\ UNCHANGED <<sequence, cache>>
  BY DEF CommitDelete
<1>3. RequestMoves(r, q) /\ RowHeld(r)' /\ q.at = "done"
  BY <1>1, <1>2, AnsweredMoves DEF At
<1> HIDE DEF q
<1>4. CASE face[r].exists
  <2>1. /\ gallery' = [subjects |-> gallery.subjects \ {s},
                       refs |-> [gallery.refs EXCEPT ![s] = {}],
                       rows |-> gallery.rows \ Of(s)]
        /\ deleted' = deleted \cup Of(s)
    BY <1>4 DEF CommitDelete
  <2>2. locked[s] = r
    BY <1>1, <1>4 DEF FaceInv, RowHeld, At
  <2>3. \A t \in Subject : locked[t] \notin {r, NoRequest} =>
          locked'[t] = locked[t] /\ gallery'.refs[t] = gallery.refs[t]
    BY <1>2, <2>1, <2>2, RolledType, FaceTyped
  <2>4. Of(s) \subseteq gallery.rows
    BY DEF Of
  <2>5. gallery' \in [subjects : SUBSET Subject, refs : [Subject -> SUBSET FaceRequest],
                      rows : SUBSET Embedding]
        /\ deleted' \subseteq Embedding
    BY <1>1, <2>1, <2>4, FaceTyped DEF FaceInv, FaceTypeOK
  <2>6. FaceTypeOK'
    BY <1>2, <1>3, <2>5, RolledType, FaceTypeMoves DEF FaceInv, FaceTypeOK
  <2>7. EnrollmentsAddUp'
    <3> SUFFICES ASSUME NEW t \in Subject
                 PROVE  /\ {d.sample : d \in Of(t)'} = gallery'.refs[t]
                        /\ (t \in gallery'.subjects) = (Of(t)' # {})
      BY DEF EnrollmentsAddUp
    <3>1. {d.sample : d \in Of(t)} = gallery.refs[t]
          /\ (t \in gallery.subjects) = (Of(t) # {})
      BY DEF FaceInv, EnrollmentsAddUp
    <3>2. Of(t)' = IF t = s THEN {} ELSE Of(t)
      BY <2>1 DEF Of
    <3>3. gallery'.refs[t] = IF t = s THEN {} ELSE gallery.refs[t]
      BY <2>1, FaceTyped
    <3>4. (t \in gallery'.subjects) = (t # s /\ t \in gallery.subjects)
      BY <2>1
    <3>5. CASE t = s
      BY <3>2, <3>3, <3>4, <3>5
    <3>6. CASE t # s
      BY <3>1, <3>2, <3>3, <3>4, <3>6
    <3>7. QED
      BY <3>5, <3>6
  <2>8. StampInv'
    <3>1. deleted' = {} => gallery.rows \subseteq gallery'.rows
      BY <2>1
    <3>2. QED
      BY <1>2, <1>3, <2>1, <3>1, StampsStay
  <2>9. IsFiniteSet(gallery'.rows) /\ Cardinality(gallery'.rows) <= Cardinality(gallery.rows)
    BY <2>1, FS_Subset DEF FaceInv
  <2>10. QED
    BY <1>2, <1>3, <2>3, <2>6, <2>7, <2>8, <2>9, FaceInvMoves
<1>5. CASE ~face[r].exists
  <2>1. UNCHANGED <<gallery, deleted>>
    BY <1>5 DEF CommitDelete
  <2>2. EnrollmentsAddUp'
    BY <2>1 DEF FaceInv, EnrollmentsAddUp, Of
  <2>3. IsFiniteSet(gallery'.rows) /\ Cardinality(gallery'.rows) <= Cardinality(gallery.rows)
    BY <2>1, FS_CardinalityType DEF FaceInv
  <2>4. FaceTypeOK'
    BY <1>2, <1>3, <2>1, RolledType, FaceTypeMoves DEF FaceInv, FaceTypeOK
  <2>5. StampInv'
    BY <1>2, <1>3, <2>1, StampsStay
  <2>6. QED
    BY <1>2, <1>3, <2>1, <2>2, <2>3, <2>4, <2>5, RolledType, FaceInvMoves
<1>6. QED
  BY <1>4, <1>5

\* What reading the gallery comes to: nothing of it changes.
LEMMA ReaderKeeps ==
  ASSUME FaceInv, NEW r \in FaceRequest, NEW q, RequestMoves(r, q),
         q.at \in {"stamped", "read", "identified"},
         UNCHANGED <<gallery, locked, sequence, deleted>>,
         FaceTypeOK', deleted = {} => CacheCounted' /\ RequestCounted(r)'
  PROVE  FaceInv'
<1>1. EnrollmentsAddUp'
  BY DEF FaceInv, EnrollmentsAddUp, Of
<1>2. face' \in [FaceRequest -> RequestType] /\ face'[r] = q
      /\ \A p \in FaceRequest \ {r} : face'[p] = face[p]
  BY FaceTyped DEF RequestMoves
<1>3. RowHeld(r)'
  BY <1>2 DEF RowHeld
<1>4. StampInv'
  <2> SUFFICES ASSUME deleted = {}, NEW p \in FaceRequest
               PROVE  CacheCounted' /\ RequestCounted(p)'
    BY DEF StampInv
  <2>1. CASE p = r
    BY <2>1
  <2>2. CASE p # r
    <3>1. RequestCounted(p)
      BY DEF FaceInv, StampInv
    <3>2. QED
      BY <2>2, <3>1, <1>2 DEF RequestCounted, Counted, At
  <2>3. QED
    BY <2>1, <2>2
<1>5. IsFiniteSet(gallery'.rows) /\ Cardinality(gallery'.rows) <= Cardinality(gallery.rows)
  BY FS_CardinalityType DEF FaceInv
<1>6. QED
  BY <1>1, <1>3, <1>4, <1>5, FaceInvMoves

LEMMA IdentifyKeeps ==
  ASSUME FaceInv, NEW r \in FaceRequest, Identify(r) PROVE FaceInv'
<1> DEFINE hit == cache.known /\ cache.stamp = FaceStamp
           q == [face[r] EXCEPT !.at = IF hit THEN "identified" ELSE "stamped",
                                !.stamp = IF hit THEN <<0, 0>> ELSE FaceStamp,
                                !.rows = IF hit THEN cache.rows ELSE {},
                                !.before = gallery.rows]
<1>1. face[r] \in RequestType /\ At(r, "new")
  BY FaceTyped DEF Identify, Arrives
<1>2. face' = [face EXCEPT ![r].at = IF hit THEN "identified" ELSE "stamped",
                           ![r].stamp = IF hit THEN <<0, 0>> ELSE FaceStamp,
                           ![r].rows = IF hit THEN cache.rows ELSE {},
                           ![r].before = gallery.rows]
      /\ UNCHANGED <<gallery, locked, sequence, cache, deleted>>
  BY DEF Identify, ReadStamp
<1>3. FaceStamp \in FaceId \X FaceId /\ FaceStamp[1] = Cardinality(gallery.rows)
      /\ <<0, 0>> \in FaceId \X FaceId
  BY StampType, FaceAssumption DEF FaceInv, FaceId
<1>4. cache.rows \in SUBSET Embedding /\ gallery.rows \in SUBSET Embedding
  BY DEF FaceInv, FaceTypeOK
<1>5. /\ q \in RequestType /\ q.before = gallery.rows
      /\ hit => q.at = "identified" /\ q.rows = cache.rows
      /\ ~hit => q.at = "stamped" /\ q.stamp = FaceStamp
  BY <1>1, <1>3, <1>4 DEF RequestType
<1>6. face' = [face EXCEPT ![r] = q]
  BY <1>2, FaceTyped
<1> HIDE DEF q
<1>7. RequestMoves(r, q) /\ face'[r] = q
  <2>1. ~At(r, "done") /\ ~At(r, "written")
    BY <1>1 DEF At
  <2>2. QED
    BY <1>5, <1>6, <2>1, FaceTyped DEF RequestMoves
<1>8. FaceTypeOK'
  BY <1>2, <1>7, FaceTypeMoves DEF FaceInv, FaceTypeOK
<1>9. ASSUME deleted = {} PROVE CacheCounted' /\ RequestCounted(r)'
  <2>1. CacheCounted
    BY <1>9 DEF FaceInv, StampInv
  <2>2. CacheCounted'
    BY <1>2, <2>1 DEF CacheCounted, Counted
  <2>3. CASE hit
    <3>1. PICK S \in SUBSET cache.rows : Counted(cache.stamp, S)
      BY <2>1, <2>3 DEF CacheCounted
    <3>2. S \subseteq gallery.rows /\ Cardinality(S) = Cardinality(gallery.rows)
      BY <2>3, <3>1, <1>3 DEF Counted
    <3>3. S = gallery.rows
      BY <3>2, FS_Subset DEF FaceInv
    <3>4. gallery.rows \subseteq cache.rows
      BY <3>1, <3>3
    <3>5. QED
      BY <1>5, <1>7, <2>2, <2>3, <3>4 DEF RequestCounted, At
  <2>4. CASE ~hit
    <3>1. /\ face'[r].at = "stamped" /\ face'[r].before = gallery'.rows
          /\ face'[r].stamp[1] = Cardinality(gallery'.rows)
      BY <1>2, <1>3, <1>5, <1>7, <2>4
    <3>2. QED
      BY <2>2, <3>1 DEF RequestCounted, At, Counted
  <2>5. QED
    BY <2>3, <2>4
<1>10. q.at \in {"stamped", "read", "identified"}
  BY <1>5
<1>11. QED
  BY <1>2, <1>7, <1>8, <1>9, <1>10, ReaderKeeps

LEMMA ReadRowsKeeps ==
  ASSUME FaceInv, NEW r \in FaceRequest, ReadRows(r) PROVE FaceInv'
<1> DEFINE q == [face[r] EXCEPT !.at = "read", !.rows = gallery.rows]
<1>1. face[r] \in RequestType /\ At(r, "stamped")
  BY FaceTyped DEF ReadRows
<1>2. face' = [face EXCEPT ![r].at = "read", ![r].rows = gallery.rows]
      /\ UNCHANGED <<gallery, locked, sequence, cache, deleted>>
  BY DEF ReadRows
<1>3. q \in RequestType /\ q.at = "read" /\ q.rows = gallery.rows
      /\ q.before = face[r].before /\ q.stamp = face[r].stamp
  BY <1>1, FaceTyped DEF RequestType
<1>4. face' = [face EXCEPT ![r] = q]
  BY <1>2, FaceTyped
<1> HIDE DEF q
<1>5. RequestMoves(r, q) /\ face'[r] = q
  <2>1. ~At(r, "done") /\ ~At(r, "written")
    BY <1>1 DEF At
  <2>2. QED
    BY <1>3, <1>4, <2>1, FaceTyped DEF RequestMoves
<1>6. FaceTypeOK'
  BY <1>2, <1>5, FaceTypeMoves DEF FaceInv, FaceTypeOK
<1>7. ASSUME deleted = {} PROVE CacheCounted' /\ RequestCounted(r)'
  <2>1. CacheCounted /\ RequestCounted(r)
    BY <1>7 DEF FaceInv, StampInv
  <2>2. CacheCounted'
    BY <1>2, <2>1 DEF CacheCounted, Counted
  <2>3. Counted(face[r].stamp, face[r].before)
    BY <1>1, <2>1 DEF RequestCounted
  <2>4. QED
    BY <1>2, <1>3, <1>5, <2>2, <2>3 DEF RequestCounted, Counted, At
<1>8. QED
  BY <1>2, <1>3, <1>5, <1>6, <1>7, ReaderKeeps

LEMMA KeepMatrixKeeps ==
  ASSUME FaceInv, NEW r \in FaceRequest, KeepMatrix(r) PROVE FaceInv'
<1> DEFINE q == [face[r] EXCEPT !.at = "identified", !.stamp = <<0, 0>>]
<1>1. face[r] \in RequestType /\ At(r, "read")
  BY FaceTyped DEF KeepMatrix
<1>2. face' = [face EXCEPT ![r].at = "identified", ![r].stamp = <<0, 0>>]
      /\ cache' = [known |-> TRUE, stamp |-> face[r].stamp, rows |-> face[r].rows]
      /\ UNCHANGED <<gallery, locked, sequence, deleted>>
  BY DEF KeepMatrix
<1>3. <<0, 0>> \in FaceId \X FaceId
  BY FaceAssumption DEF FaceId
<1>4. q \in RequestType /\ q.at = "identified" /\ q.rows = face[r].rows
      /\ q.before = face[r].before
  BY <1>1, <1>3, FaceTyped DEF RequestType
<1>5. face' = [face EXCEPT ![r] = q]
  BY <1>2, FaceTyped
<1> HIDE DEF q
<1>6. RequestMoves(r, q) /\ face'[r] = q
  <2>1. ~At(r, "done") /\ ~At(r, "written")
    BY <1>1 DEF At
  <2>2. QED
    BY <1>4, <1>5, <2>1, FaceTyped DEF RequestMoves
<1>7. cache' \in [known : BOOLEAN, stamp : FaceId \X FaceId, rows : SUBSET Embedding]
  BY <1>1, <1>2 DEF RequestType
<1>8. FaceTypeOK'
  BY <1>2, <1>6, <1>7, FaceTypeMoves DEF FaceInv, FaceTypeOK
<1>9. ASSUME deleted = {} PROVE CacheCounted' /\ RequestCounted(r)'
  <2>1. RequestCounted(r)
    BY <1>9 DEF FaceInv, StampInv
  <2>2. Counted(face[r].stamp, face[r].before) /\ face[r].before \subseteq face[r].rows
    BY <1>1, <2>1 DEF RequestCounted
  <2>3. CacheCounted'
    BY <1>2, <2>2 DEF CacheCounted, Counted
  <2>4. QED
    BY <1>4, <1>6, <2>2, <2>3 DEF RequestCounted, At
<1>10. QED
  BY <1>2, <1>4, <1>6, <1>8, <1>9, ReaderKeeps

LEMMA FaceInvStep == FaceInv /\ [FaceNext]_faces => FaceInv'
<1> SUFFICES ASSUME FaceInv, [FaceNext]_faces PROVE FaceInv'
  OBVIOUS
<1>1. CASE FaceNext
  <2>1. PICK r \in FaceRequest :
          \/ Enroll(r) \/ WriteSample(r) \/ CommitSample(r)
          \/ DeleteFace(r) \/ CommitDelete(r) \/ RollBack(r)
          \/ Identify(r) \/ ReadRows(r) \/ KeepMatrix(r)
    BY <1>1 DEF FaceNext
  <2>2. QED
    BY <2>1, EnrollKeeps, WriteKeeps, CommitKeeps, DeleteKeeps, CommitDeleteKeeps,
       RollBackKeeps, IdentifyKeeps, ReadRowsKeeps, KeepMatrixKeeps
<1>2. CASE UNCHANGED faces
  <2>1. UNCHANGED gallery /\ UNCHANGED locked /\ UNCHANGED sequence /\ UNCHANGED cache
        /\ UNCHANGED face /\ UNCHANGED deleted
    BY <1>2 DEF faces
  <2>2. Done' = Done /\ Wrote' = Wrote
    BY <2>1 DEF Done, Wrote
  <2>3. FaceTypeOK' /\ EnrollmentsAddUp'
    BY <2>1 DEF FaceInv, FaceTypeOK, EnrollmentsAddUp, Of
  <2>4. \A r \in FaceRequest : RowHeld(r)'
    BY <2>1 DEF FaceInv, RowHeld
  <2>5. StampInv'
    BY <2>1 DEF FaceInv, StampInv, CacheCounted, RequestCounted, Counted, At
  <2>6. QED
    BY <2>1, <2>2, <2>3, <2>4, <2>5 DEF FaceInv
<1>3. QED
  BY <1>1, <1>2

LEMMA FaceInvariant == FaceSpec => []FaceInv
BY FaceInvInit, FaceInvStep, PTL DEF FaceSpec

\* Whatever requests enroll, delete, fail and identify at once: a subject's reference images
\* and embeddings agree; and if nothing was deleted, an identification misses no face
\* enrolled before it began. (After a deletion and a late commit the count and the greatest
\* id can be those of the rows that are cached, and the matrix can lack one.)
THEOREM FacesNeverLost == FaceSpec => [](FaceTypeOK /\ NoFaceIsLost)
<1>1. FaceInv => FaceTypeOK /\ NoFaceIsLost
  <2> SUFFICES ASSUME FaceInv PROVE FaceTypeOK /\ NoFaceIsLost
    OBVIOUS
  <2>1. FaceTypeOK /\ EnrollmentsAddUp
    BY DEF FaceInv
  <2>2. deleted = {} => \A r \in FaceRequest : RequestCounted(r)
    BY DEF FaceInv, StampInv
  <2>3. QED
    BY <2>1, <2>2 DEF NoFaceIsLost, RequestCounted
<1>2. QED
  BY <1>1, FaceInvariant, PTL
=============================================================================
