---------------------------- MODULE AccountsProofs ----------------------------
(***************************************************************************)
(* Proofs about Accounts, for any number of accounts and browsers and any  *)
(* lives and limits.  Each property has an invariant that a step keeps,    *)
(* proved action by action from TypeOK:                                    *)
(*                                                                         *)
(*   RevocationHolds  GrantsInv: a token names one session ever, so that   *)
(*                    current_user answers for the epoch in which the      *)
(*                    request was authenticated                            *)
(*   FactorHolds      SecondFactor itself                                  *)
(*   KeyHolds         KeyInv: all secrets wait for the last key made       *)
(*   CodesHold        CodeInv: a spent code is behind what accepts codes   *)
(*   MissesHold       PaceInv: the record of attempts bounds the misses    *)
(***************************************************************************)
EXTENDS Accounts, TLAPS

----------------------------------------------------------------------------
(* Types.                                                                  *)

LEMMA CountedType ==
  ASSUME now \in Nat, NEW row \in AttemptRows
  PROVE  Counted(row) \in AttemptRows
BY DEF Counted, AttemptRows

LEMMA NoAttemptsType == NoAttempts \in AttemptRows
BY DEF NoAttempts, AttemptRows

LEMMA CountType ==
  ASSUME TypeOK, NEW u, NEW kinds, Count(u, kinds)
  PROVE  attempts' \in [Users \X Kinds -> AttemptRows]
BY CountedType DEF Count, TypeOK

LEMMA ClearType ==
  ASSUME TypeOK, NEW u, NEW kinds, Clear(u, kinds)
  PROVE  /\ attempts' \in [Users \X Kinds -> AttemptRows]
         /\ misses' \in [Users \X Kinds -> AttemptRows]
BY NoAttemptsType DEF Clear, Cleared, TypeOK

LEMMA MissType ==
  ASSUME TypeOK, NEW u \in Users, NEW kind \in Kinds, Miss(u, kind)
  PROVE  misses' \in [Users \X Kinds -> AttemptRows]
<1>1. misses[<<u, kind>>] \in AttemptRows
  BY DEF TypeOK
<1> QED BY <1>1 DEF Miss, TypeOK, AttemptRows

LEMMA SessionsType ==
  ASSUME TypeOK, NEW kept \in SUBSET Sessions, NEW u \in Users,
         NEW b \in Browsers, NEW e \in Nat, NEW f \in BOOLEAN,
         IssueSession(kept, u, b, e, f)
  PROVE  /\ sessions' \subseteq Sessions
         /\ cookie' \in [Browsers -> Nat]
         /\ issued' \in Nat
BY LivesAssumption DEF IssueSession, NewSession, Unexpired, Sessions, TypeOK

LEMMA CodesType ==
  ASSUME TypeOK
  PROVE  /\ \A s \in Secrets, n \in Int : MatchStep(s, n) \subseteq Codes
         /\ \A n \in Nat : Batch(n) \subseteq Codes
         /\ \A u \in Users : \A c : Accepts(u, c) => c \in Codes
<1>1. ASSUME NEW s \in Secrets, NEW n \in Int PROVE MatchStep(s, n) \subseteq Codes
  BY DEF MatchStep, TotpCode, Codes, Secrets, TypeOK
<1>2. ASSUME NEW n \in Nat PROVE Batch(n) \subseteq Codes
  BY LivesAssumption DEF Batch, Codes
<1>3. ASSUME NEW u \in Users, NEW c, Accepts(u, c) PROVE c \in Codes
  BY <1>1, <1>3 DEF Accepts, TypeOK
<1> QED BY <1>1, <1>2, <1>3

LEMMA SpendType ==
  ASSUME TypeOK, NEW u \in Users, NEW c \in Codes, Spend(u, c)
  PROVE  /\ spent' \in [Users -> SUBSET Codes]
         /\ reused' \subseteq Codes
BY DEF Spend, TypeOK

LEMMA AcceptType ==
  ASSUME TypeOK, NEW u \in Users, NEW c, Accepts(u, c)
  PROVE  /\ c \in Codes
         /\ LastAfter(u, c) \in Int
<1>1. c \in Codes
  BY CodesType
<1> QED BY <1>1 DEF LastAfter, Codes, TypeOK

LEMMA CipherKeyType ==
  ASSUME TypeOK
  PROVE  CipherKey \in Nat
BY DEF CipherKey, TypeOK

LEMMA RenewType ==
  ASSUME TypeOK, NEW q \in requests, Renew(q)
  PROVE  /\ epoch' \in [Users -> Nat]
         /\ challenges' \subseteq Challenges
         /\ pendings' \subseteq Pendings
         /\ apiTokens' \in [Users -> SUBSET Nat]
         /\ attempts' \in [Users \X Kinds -> AttemptRows]
         /\ misses' \in [Users \X Kinds -> AttemptRows]
         /\ sessions' \subseteq Sessions
         /\ cookie' \in [Browsers -> Nat]
         /\ issued' \in Nat
<1>1. /\ q.user \in Users /\ q.browser \in Browsers /\ q.epoch \in Nat
      /\ q.token \in Nat /\ q.role \in Roles
  BY DEF TypeOK, AuthenticatedRequests
<1>2. Without(sessions, q.user) \in SUBSET Sessions
  BY DEF Without, TypeOK
<1>3. IssueSession(Without(sessions, q.user), q.user, q.browser, q.epoch + 1, TRUE)
  BY DEF Renew
<1>4. /\ sessions' \subseteq Sessions
      /\ cookie' \in [Browsers -> Nat]
      /\ issued' \in Nat
  <2>1. q.epoch + 1 \in Nat /\ TRUE \in BOOLEAN
    BY <1>1
  <2> QED BY <1>1, <1>2, <1>3, <2>1, SessionsType
<1>5. /\ attempts' \in [Users \X Kinds -> AttemptRows]
      /\ misses' \in [Users \X Kinds -> AttemptRows]
  BY ClearType DEF Renew
<1>6. epoch' \in [Users -> Nat]
  BY <1>1 DEF Renew, TypeOK
<1>7. /\ challenges' \subseteq Challenges
      /\ pendings' \subseteq Pendings
      /\ apiTokens' \in [Users -> SUBSET Nat]
  BY DEF Renew, Without, TypeOK
<1> QED BY <1>4, <1>5, <1>6, <1>7

LEMMA TypeInit == Init => TypeOK
BY AdminAssumption, NoAttemptsType DEF Init, TypeOK, Roles, Secrets, NoSecret,
   NoKey, NoToken, TornKey, Codes

LEMMA TypeLogin ==
  ASSUME TypeOK, NEW b \in Browsers, NEW u \in Users, Login(b, u)
  PROVE  TypeOK'
<1> USE DEF Login
<1>1. CASE LoginRefused(u)
  <2>1. attempts' \in [Users \X Kinds -> AttemptRows]
    BY <1>1, CountType DEF LoginRefused
  <2>2. misses' \in [Users \X Kinds -> AttemptRows]
    BY <1>1, MissType DEF LoginRefused, Kinds
  <2> QED BY <1>1, <2>1, <2>2 DEF LoginRefused, TypeOK, account, ghosts
<1>2. CASE LoginIssues(b, u)
  <2>1. /\ attempts' \in [Users \X Kinds -> AttemptRows]
        /\ misses' \in [Users \X Kinds -> AttemptRows]
    BY <1>2, ClearType DEF LoginIssues
  <2>2. /\ sessions' \subseteq Sessions
        /\ cookie' \in [Browsers -> Nat]
        /\ issued' \in Nat
    BY <1>2, SessionsType DEF LoginIssues, TypeOK
  <2> QED BY <1>2, <2>1, <2>2 DEF LoginIssues, TypeOK, account, ghosts
<1>3. CASE LoginChallenges(b, u)
  <2>1. /\ attempts' \in [Users \X Kinds -> AttemptRows]
        /\ misses' \in [Users \X Kinds -> AttemptRows]
    BY <1>3, ClearType DEF LoginChallenges
  <2>2. challenges' \subseteq Challenges
    BY <1>3, LivesAssumption DEF LoginChallenges, Unexpired, Without, Challenges, TypeOK
  <2> QED BY <1>3, <2>1, <2>2 DEF LoginChallenges, TypeOK, account, ghosts, NoToken
<1> QED BY <1>1, <1>2, <1>3

LEMMA TypeVerify ==
  ASSUME TypeOK, NEW b \in Browsers, Verify(b)
  PROVE  TypeOK'
<1>0. PICK c \in ChallengeOf(b) : \E code \in Submitted(c.user, secret[c.user]) :
        VerifyRefused(c.user, code) \/ VerifyAccepted(b, c, code)
  BY DEF Verify
<1>1. PICK code \in Submitted(c.user, secret[c.user]) :
        VerifyRefused(c.user, code) \/ VerifyAccepted(b, c, code)
  BY <1>0
<1>2. c.user \in Users /\ c.epoch \in Nat
  BY DEF ChallengeOf, Unexpired, Challenges, TypeOK
<1>3. UNCHANGED <<now, users, role, active, secret, pendings, apiTokens,
                  requests, served, key, secrets, keys, epoch>>
  BY DEF Verify
<1>4. CASE VerifyRefused(c.user, code)
  <2>1. attempts' \in [Users \X Kinds -> AttemptRows]
    BY <1>4, CountType DEF VerifyRefused
  <2>2. misses' \in [Users \X Kinds -> AttemptRows]
    BY <1>2, <1>4, MissType DEF VerifyRefused, Kinds
  <2> QED BY <1>3, <1>4, <2>1, <2>2 DEF VerifyRefused, TypeOK, ghosts
<1>5. CASE VerifyAccepted(b, c, code)
  <2>1. /\ attempts' \in [Users \X Kinds -> AttemptRows]
        /\ misses' \in [Users \X Kinds -> AttemptRows]
    BY <1>5, ClearType DEF VerifyAccepted
  <2>2. /\ sessions' \subseteq Sessions
        /\ cookie' \in [Browsers -> Nat]
        /\ issued' \in Nat
    BY <1>2, <1>5, SessionsType DEF VerifyAccepted, TypeOK
  <2>3. code \in Codes /\ LastAfter(c.user, code) \in Int
    BY <1>2, <1>5, AcceptType DEF VerifyAccepted
  <2>4. spent' \in [Users -> SUBSET Codes] /\ reused' \subseteq Codes
    BY <1>2, <1>5, <2>3, SpendType DEF VerifyAccepted
  <2>5. challenges' \subseteq Challenges
    BY <1>5 DEF VerifyAccepted, Without, TypeOK
  <2>6. last' \in [Users -> Int] /\ recovery' \in [Users -> SUBSET Codes]
    BY <1>5, <2>3 DEF VerifyAccepted, TypeOK
  <2>7. mfaCookie' \in [Browsers -> Users \cup {None}]
    BY <1>5 DEF VerifyAccepted, TypeOK
  <2> QED BY <1>3, <2>1, <2>2, <2>4, <2>5, <2>6, <2>7 DEF TypeOK
<1> QED BY <1>1, <1>4, <1>5

LEMMA TypeRequests ==
  ASSUME TypeOK, NEW b \in Browsers, NEW u \in Users,
         Authenticate(b) \/ AuthenticateToken(b, u)
  PROVE  TypeOK'
<1>1. requests' \subseteq AuthenticatedRequests /\ served' \in Nat
  BY DEF Authenticate, AuthenticateToken, AuthenticatedRequests, Sessions,
     NoToken, TypeOK
<1> QED BY <1>1 DEF Authenticate, AuthenticateToken, TypeOK, account, made, ghosts

LEMMA RequestType ==
  ASSUME TypeOK, NEW q \in requests
  PROVE  /\ q.id \in Nat /\ q.user \in Users /\ q.browser \in Browsers
         /\ q.epoch \in Nat /\ q.token \in Nat /\ q.role \in Roles
BY DEF TypeOK, AuthenticatedRequests

LEMMA TypeEnable ==
  ASSUME TypeOK, NEW q \in requests, Enable(q)
  PROVE  TypeOK'
<1>0. PICK p \in PendingOf(q) : \E code \in Submitted(q.user, p.secret) :
        EnableRefused(q, p, code) \/ EnableAccepted(q, p, code)
  BY DEF Enable
<1>1. PICK code \in Submitted(q.user, p.secret) :
        EnableRefused(q, p, code) \/ EnableAccepted(q, p, code)
  BY <1>0
<1>2. p.secret \in Secrets
  BY DEF PendingOf, Unexpired, Pendings, TypeOK
<1>3. /\ requests' \subseteq AuthenticatedRequests /\ UNCHANGED served
      /\ UNCHANGED <<now, users, role, active, mfaCookie, key, secrets, keys>>
  BY DEF Enable, Answered, TypeOK
<1>4. CASE EnableRefused(q, p, code)
  <2>1. /\ attempts' \in [Users \X Kinds -> AttemptRows]
        /\ misses' \in [Users \X Kinds -> AttemptRows]
    BY <1>4, CountType, MissType, RequestType DEF EnableRefused, Kinds
  <2> QED BY <1>3, <1>4, <2>1 DEF EnableRefused, TypeOK, ghosts
<1>5. CASE EnableAccepted(q, p, code)
  <2>1. code \in Codes /\ code.n \in Int
    BY <1>2, <1>5, CodesType DEF EnableAccepted, Codes
  <2>2. spent' \in [Users -> SUBSET Codes] /\ reused' \subseteq Codes
    BY <1>5, <2>1, SpendType, RequestType DEF EnableAccepted
  <2>3. Batch(epoch[q.user] + 1) \subseteq Codes
    BY CodesType, RequestType DEF TypeOK
  <2>4. /\ secret' \in [Users -> Secrets] /\ last' \in [Users -> Int]
        /\ recovery' \in [Users -> SUBSET Codes]
    BY <1>2, <1>5, <2>1, <2>3 DEF EnableAccepted, TypeOK
  <2>5. Renew(q)
    BY <1>5 DEF EnableAccepted
  <2> QED BY <1>3, <2>2, <2>4, <2>5, RenewType DEF TypeOK
<1> QED BY <1>1, <1>4, <1>5

LEMMA TypeManage ==
  ASSUME TypeOK, NEW q \in requests, Manage(q)
  PROVE  TypeOK'
<1>1. PICK code : ProofRefused(q, code) \/ Regenerate(q, code) \/ Disable(q, code)
  BY DEF Manage
<1>2. /\ requests' \subseteq AuthenticatedRequests /\ UNCHANGED served
      /\ UNCHANGED <<now, users, role, active, mfaCookie, key, secrets, keys>>
  BY DEF Manage, Answered, TypeOK
<1>3. CASE ProofRefused(q, code)
  <2>1. /\ attempts' \in [Users \X Kinds -> AttemptRows]
        /\ misses' \in [Users \X Kinds -> AttemptRows]
    BY <1>3, CountType, MissType, RequestType DEF ProofRefused, Kinds
  <2> QED BY <1>2, <1>3, <2>1 DEF ProofRefused, TypeOK, ghosts
<1>4. CASE Regenerate(q, code) \/ Disable(q, code)
  <2>1. Accepts(q.user, code) /\ Spend(q.user, code) /\ Renew(q)
    BY <1>4 DEF Regenerate, Disable
  <2>2. code \in Codes /\ LastAfter(q.user, code) \in Int
    BY <2>1, AcceptType, RequestType
  <2>3. spent' \in [Users -> SUBSET Codes] /\ reused' \subseteq Codes
    BY <2>1, <2>2, SpendType, RequestType
  <2>4. Batch(epoch[q.user] + 1) \subseteq Codes
    BY CodesType, RequestType DEF TypeOK
  <2>5. NoSecret \in Secrets
    BY DEF NoSecret, NoKey, Secrets
  <2>6. /\ secret' \in [Users -> Secrets]
        /\ last' \in [Users -> Int] /\ recovery' \in [Users -> SUBSET Codes]
    <3>1. CASE Regenerate(q, code)
      BY <3>1, <2>2, <2>4 DEF Regenerate, TypeOK
    <3>2. CASE Disable(q, code)
      <4>1. secret' \in [Users -> Secrets]
        BY <3>2, <2>5 DEF Disable, TypeOK
      <4>2. last' \in [Users -> Int]
        <5>1. last' = [last EXCEPT ![q.user] = -1]
          BY <3>2 DEF Disable
        <5>2. -1 \in Int
          OBVIOUS
        <5> QED BY <5>1, <5>2 DEF TypeOK
      <4>3. recovery' \in [Users -> SUBSET Codes]
        BY <3>2 DEF Disable, TypeOK
      <4> QED BY <4>1, <4>2, <4>3
    <3> QED BY <1>4, <3>1, <3>2
  <2> QED BY <1>2, <2>1, <2>3, <2>6, RenewType DEF TypeOK
<1> QED BY <1>1, <1>3, <1>4

LEMMA TypeSetup ==
  ASSUME TypeOK, NEW q \in requests, Setup(q) \/ SetupDies(q)
  PROVE  TypeOK'
<1>1. CipherKey \in Nat
  BY CipherKeyType
<1>2. CASE Setup(q)
  <2>1. attempts' \in [Users \X Kinds -> AttemptRows]
    BY <1>2, CountType DEF Setup
  <2> DEFINE new == [user |-> q.user,
                     secret |-> [id |-> secrets + 1, key |-> CipherKey],
                     token |-> q.token, expires |-> now + PendingLife,
                     epoch |-> q.epoch]
  <2>2. new \in Pendings
    BY <1>1, RequestType, LivesAssumption DEF Pendings, Secrets, TypeOK
  <2>3. pendings' \subseteq pendings \cup {new}
    BY <1>2 DEF Setup, Unexpired, Without
  <2>4. key' \in Nat /\ keys' \in Nat /\ secrets' \in Nat
    BY <1>1, <1>2 DEF Setup, TypeOK
  <2>5. /\ requests' \subseteq AuthenticatedRequests
        /\ UNCHANGED <<now, account, sessions, challenges, apiTokens, cookie,
                       mfaCookie, served, issued, epoch, ghosts, misses>>
    BY <1>2 DEF Setup, Answered, TypeOK
  <2> HIDE DEF new
  <2> QED BY <2>1, <2>2, <2>3, <2>4, <2>5 DEF TypeOK, account, ghosts
<1>3. CASE SetupDies(q)
  BY <1>1, <1>3 DEF SetupDies, TornKey, Answered, TypeOK, account, ghosts
<1> QED BY <1>2, <1>3

LEMMA TypeOthers ==
  ASSUME TypeOK, NEW q \in requests,
         \/ Dropped(q) \/ Logout(q) \/ PasswordRefused(q) \/ Cancel(q)
         \/ CreateToken(q) \/ RevokeToken(q)
  PROVE  TypeOK'
<1> USE RequestType DEF account, made, ghosts
<1>1. CASE Dropped(q)
  BY <1>1 DEF Dropped, Answered, TypeOK
<1>2. CASE Logout(q)
  BY <1>2 DEF Logout, Answered, NoToken, TypeOK
<1>3. CASE PasswordRefused(q)
  <2>1. /\ attempts' \in [Users \X Kinds -> AttemptRows]
        /\ misses' \in [Users \X Kinds -> AttemptRows]
    BY <1>3, CountType, MissType DEF PasswordRefused, Kinds
  <2> QED BY <1>3, <2>1 DEF PasswordRefused, Answered, TypeOK
<1>4. CASE Cancel(q)
  BY <1>4 DEF Cancel, Answered, TypeOK
<1>5. CASE CreateToken(q)
  BY <1>5 DEF CreateToken, Answered, TypeOK
<1>6. CASE RevokeToken(q)
  BY <1>6 DEF RevokeToken, Answered, TypeOK
<1> QED BY <1>1, <1>2, <1>3, <1>4, <1>5, <1>6

LEMMA TypeUsers ==
  ASSUME TypeOK, NEW q \in requests, NEW u \in Users, NEW r \in Roles,
         NEW a \in BOOLEAN, AddUser(q, u) \/ UpdateUser(q, u, r, a)
  PROVE  TypeOK'
<1> USE DEF account, made, ghosts
<1>1. CASE AddUser(q, u)
  BY <1>1 DEF AddUser, Answered, TypeOK
<1>2. CASE UpdateUser(q, u, r, a)
  BY <1>2 DEF UpdateUser, Answered, Without, TypeOK
<1> QED BY <1>1, <1>2

LEMMA TypeStep == TypeOK /\ [Next]_vars => TypeOK'
<1> SUFFICES ASSUME TypeOK, [Next]_vars PROVE TypeOK'
  OBVIOUS
<1>1. ASSUME NEW q \in requests, Handle(q) PROVE TypeOK'
  BY <1>1, TypeEnable, TypeManage, TypeSetup, TypeOthers, TypeUsers DEF Handle, Roles
<1>2. CASE Tick \/ MoveKey
  <2>1. now' \in Nat /\ key' \in Nat
    BY <1>2 DEF Tick, MoveKey, NoKey, TypeOK
  <2> QED BY <1>2, <2>1 DEF Tick, MoveKey, TypeOK, account, made, ghosts
<1>3. CASE UNCHANGED vars
  BY <1>3 DEF vars, account, made, ghosts, TypeOK
<1>4. ASSUME NEW b \in Browsers, NEW u \in Users,
             Login(b, u) \/ AuthenticateToken(b, u)
      PROVE  TypeOK'
  BY <1>4, TypeLogin, TypeRequests
<1>5. ASSUME NEW b \in Browsers, Verify(b) \/ Authenticate(b)
      PROVE  TypeOK'
  BY <1>5, TypeVerify, TypeRequests, AdminAssumption
<1> QED BY <1>1, <1>2, <1>3, <1>4, <1>5 DEF Next

\* Every variable keeps its type.
THEOREM Typed == Spec => []TypeOK
BY TypeInit, TypeStep, PTL DEF Spec

----------------------------------------------------------------------------
(* Revocation.                                                             *)

\* A token names at most one session ever: a request that carries it was
\* authenticated by that session.
GrantsInv ==
  /\ NothingOutlivesRevocation
  /\ \A s \in sessions : s.token \in 1..issued
  /\ \A s, t \in sessions : s.token = t.token => s = t
  /\ \A q \in requests : q.token \in 0..issued
  /\ \A q \in requests, s \in sessions : s.token = q.token => s.epoch = q.epoch

\* The rows of an account that is not revoked, or new ones with its epoch.
LEMMA GrantsKept ==
  ASSUME TypeOK, TypeOK', GrantsInv,
         issued' \in {issued, issued + 1}, requests' \subseteq requests,
         NEW n,
         \A s \in sessions' :
           \/ s \in sessions /\ epoch'[s.user] = epoch[s.user]
           \/ s = n /\ n.token = issued + 1 /\ issued' = issued + 1
              /\ n.epoch = epoch'[n.user],
         \A r \in challenges' : r.epoch = epoch'[r.user],
         \A r \in pendings' : r.epoch = epoch'[r.user],
         \A u \in Users : apiTokens'[u] \subseteq {epoch'[u]}
  PROVE  GrantsInv'
<1>1. \A s \in sessions' : s.epoch = epoch'[s.user] /\ s.token \in 1..issued'
  BY DEF GrantsInv, NothingOutlivesRevocation, TypeOK
<1>2. NothingOutlivesRevocation'
  BY <1>1 DEF NothingOutlivesRevocation
<1>3. \A q \in requests' : q.token \in 0..issued'
  BY DEF GrantsInv, TypeOK
<1>4. ASSUME NEW q \in requests', NEW s \in sessions', s.token = q.token
      PROVE  s.epoch = q.epoch
  <2>1. q.token \in 0..issued
    BY DEF GrantsInv
  <2>2. s \in sessions
    BY <1>4, <2>1 DEF TypeOK
  <2> QED BY <1>4, <2>2 DEF GrantsInv
<1>5. ASSUME NEW s \in sessions', NEW t \in sessions', s.token = t.token
      PROVE  s = t
  BY <1>5 DEF GrantsInv, TypeOK
<1> QED BY <1>1, <1>2, <1>3, <1>4, <1>5 DEF GrantsInv

\* No row is added, and no account revoked.
LEMMA GrantsShrink ==
  ASSUME TypeOK, TypeOK', GrantsInv, requests' \subseteq requests,
         UNCHANGED <<issued, epoch>>,
         sessions' \subseteq sessions, challenges' \subseteq challenges,
         pendings' \subseteq pendings,
         \A u \in Users : apiTokens'[u] \subseteq apiTokens[u] \cup {epoch[u]}
  PROVE  GrantsInv'
<1>1. \A r \in challenges' : r.epoch = epoch'[r.user]
  BY DEF GrantsInv, NothingOutlivesRevocation
<1>2. \A r \in pendings' : r.epoch = epoch'[r.user]
  BY DEF GrantsInv, NothingOutlivesRevocation
<1>3. \A u \in Users : apiTokens'[u] \subseteq {epoch'[u]}
  BY DEF GrantsInv, NothingOutlivesRevocation
<1> QED BY <1>1, <1>2, <1>3, GrantsKept

\* current_user answers for the epoch the request was authenticated in.
LEMMA CurrentEpoch ==
  ASSUME GrantsInv, NEW q \in requests, CurrentUser(q)
  PROVE  q.epoch = epoch[q.user]
BY DEF GrantsInv, NothingOutlivesRevocation, CurrentUser

LEMMA GrantsLogin ==
  ASSUME TypeOK, TypeOK', GrantsInv, NEW b \in Browsers, NEW u \in Users,
         Login(b, u)
  PROVE  GrantsInv'
<1>1. UNCHANGED <<pendings, apiTokens, requests, epoch>>
  BY DEF Login
<1>2. CASE LoginRefused(u)
  BY <1>1, <1>2, GrantsShrink DEF LoginRefused
<1>3. CASE LoginIssues(b, u)
  <2>1. IssueSession(sessions, u, b, epoch[u], FALSE) /\ UNCHANGED challenges
    BY <1>3 DEF LoginIssues
  <2> DEFINE n == NewSession(u, epoch[u], FALSE)
  <2>2. /\ sessions' \subseteq sessions \cup {n}
        /\ n.token = issued + 1 /\ issued' = issued + 1
        /\ n.user = u /\ n.epoch = epoch[u]
    BY <2>1 DEF IssueSession, NewSession, Unexpired
  <2> HIDE DEF n
  <2> QED BY <1>1, <2>1, <2>2, GrantsKept DEF GrantsInv, NothingOutlivesRevocation
<1>4. CASE LoginChallenges(b, u)
  <2>1. \A r \in challenges' : r.epoch = epoch'[r.user]
    BY <1>1, <1>4 DEF LoginChallenges, Unexpired, Without, GrantsInv,
       NothingOutlivesRevocation
  <2>2. sessions' \subseteq sessions /\ issued' = issued
    BY <1>4 DEF LoginChallenges
  <2> QED BY <1>1, <2>1, <2>2, GrantsKept DEF GrantsInv, NothingOutlivesRevocation
<1> QED BY <1>2, <1>3, <1>4 DEF Login

LEMMA GrantsVerify ==
  ASSUME TypeOK, TypeOK', GrantsInv, NEW b \in Browsers, Verify(b)
  PROVE  GrantsInv'
<1>0. PICK c \in ChallengeOf(b) : \E code \in Submitted(c.user, secret[c.user]) :
        VerifyRefused(c.user, code) \/ VerifyAccepted(b, c, code)
  BY DEF Verify
<1>1. PICK code \in Submitted(c.user, secret[c.user]) :
        VerifyRefused(c.user, code) \/ VerifyAccepted(b, c, code)
  BY <1>0
<1>2. UNCHANGED <<pendings, apiTokens, requests, epoch>>
  BY DEF Verify
<1>3. CASE VerifyRefused(c.user, code)
  BY <1>2, <1>3, GrantsShrink DEF VerifyRefused
<1>4. CASE VerifyAccepted(b, c, code)
  <2>1. c.epoch = epoch[c.user]
    BY DEF ChallengeOf, Unexpired, GrantsInv, NothingOutlivesRevocation
  <2>2. IssueSession(sessions, c.user, b, c.epoch, TRUE)
    BY <1>4 DEF VerifyAccepted
  <2>3. challenges' \subseteq challenges
    BY <1>4 DEF VerifyAccepted, Without
  <2> DEFINE n == NewSession(c.user, c.epoch, TRUE)
  <2>4. /\ sessions' \subseteq sessions \cup {n}
        /\ n.token = issued + 1 /\ issued' = issued + 1
        /\ n.user = c.user /\ n.epoch = epoch[c.user]
    BY <2>1, <2>2 DEF IssueSession, NewSession, Unexpired
  <2> HIDE DEF n
  <2> QED BY <1>2, <2>3, <2>4, GrantsKept DEF GrantsInv, NothingOutlivesRevocation
<1> QED BY <1>1, <1>3, <1>4

LEMMA GrantsRequests ==
  ASSUME TypeOK, TypeOK', GrantsInv, NEW b \in Browsers, NEW u \in Users,
         Authenticate(b) \/ AuthenticateToken(b, u)
  PROVE  GrantsInv'
<1>1. UNCHANGED <<sessions, challenges, pendings, apiTokens, issued, epoch>>
  BY DEF Authenticate, AuthenticateToken, made
<1>2. \A q \in requests' \ requests :
        \/ q.token = 0
        \/ \E s \in sessions : s.token = q.token /\ s.epoch = q.epoch
  BY DEF Authenticate, AuthenticateToken, NoToken
<1>3. requests' \subseteq AuthenticatedRequests
  BY DEF TypeOK
<1>4. \A q \in requests' : q.token \in 0..issued'
  BY <1>1, <1>2, <1>3 DEF GrantsInv, TypeOK
<1>5. ASSUME NEW q \in requests', NEW s \in sessions', s.token = q.token
      PROVE  s.epoch = q.epoch
  <2>1. CASE q \in requests
    BY <1>1, <1>5, <2>1 DEF GrantsInv
  <2>2. CASE q \notin requests
    BY <1>1, <1>2, <1>5, <2>2 DEF GrantsInv, TypeOK
  <2> QED BY <2>1, <2>2
<1> QED BY <1>1, <1>4, <1>5 DEF GrantsInv, NothingOutlivesRevocation

LEMMA GrantsRenew ==
  ASSUME TypeOK, TypeOK', GrantsInv, NEW q \in requests, CurrentUser(q),
         Renew(q), Answered(q)
  PROVE  GrantsInv'
<1>1. q.epoch = epoch[q.user] /\ q.user \in Users /\ q.epoch \in Nat
  BY CurrentEpoch, RequestType
<1>2. epoch' = [epoch EXCEPT ![q.user] = epoch[q.user] + 1]
  BY DEF Renew
<1> DEFINE n == NewSession(q.user, q.epoch + 1, TRUE)
<1>3. /\ sessions' \subseteq Without(sessions, q.user) \cup {n}
      /\ n.token = issued + 1 /\ issued' = issued + 1
      /\ n.user = q.user /\ n.epoch = q.epoch + 1
  BY DEF Renew, IssueSession, NewSession, Unexpired
<1> HIDE DEF n
<1>4. n.epoch = epoch'[n.user]
  BY <1>1, <1>2, <1>3 DEF TypeOK
<1>5. \A s \in sessions' : \/ s \in sessions /\ epoch'[s.user] = epoch[s.user]
                           \/ s = n
  BY <1>2, <1>3 DEF Without, Sessions, TypeOK
<1>6. \A r \in challenges' : r.epoch = epoch'[r.user]
  BY <1>2 DEF Renew, Without, Challenges, GrantsInv, NothingOutlivesRevocation, TypeOK
<1>7. \A r \in pendings' : r.epoch = epoch'[r.user]
  BY <1>2 DEF Renew, Without, Pendings, GrantsInv, NothingOutlivesRevocation, TypeOK
<1>8. \A u \in Users : apiTokens'[u] \subseteq {epoch'[u]}
  BY <1>2 DEF Renew, GrantsInv, NothingOutlivesRevocation, TypeOK
<1> QED BY <1>3, <1>4, <1>5, <1>6, <1>7, <1>8, GrantsKept DEF Answered

LEMMA GrantsEnable ==
  ASSUME TypeOK, TypeOK', GrantsInv, NEW q \in requests, Enable(q) \/ Manage(q)
  PROVE  GrantsInv'
<1>1. CurrentUser(q) /\ Answered(q)
  BY DEF Enable, Manage
<1>2. CASE Renew(q)
  BY <1>1, <1>2, GrantsRenew
<1>3. CASE \E p, code : EnableRefused(q, p, code)
  BY <1>1, <1>3, GrantsShrink DEF EnableRefused, Answered
<1>4. CASE \E code : ProofRefused(q, code)
  BY <1>1, <1>4, GrantsShrink DEF ProofRefused, Answered
<1> QED BY <1>2, <1>3, <1>4 DEF Enable, Manage, EnableAccepted, Regenerate, Disable

LEMMA GrantsSetup ==
  ASSUME TypeOK, TypeOK', GrantsInv, NEW q \in requests, Setup(q)
  PROVE  GrantsInv'
<1>1. q.epoch = epoch[q.user]
  BY CurrentEpoch DEF Setup, MaySetUp
<1>2. UNCHANGED <<sessions, challenges, apiTokens, issued, epoch>>
  BY DEF Setup
<1> DEFINE new == [user |-> q.user,
                   secret |-> [id |-> secrets + 1, key |-> CipherKey],
                   token |-> q.token, expires |-> now + PendingLife,
                   epoch |-> q.epoch]
<1>3. /\ pendings' \subseteq pendings \cup {new}
      /\ new.epoch = q.epoch /\ new.user = q.user
  BY DEF Setup, Unexpired, Without
<1> HIDE DEF new
<1>4. \A r \in pendings' : r.epoch = epoch'[r.user]
  BY <1>1, <1>2, <1>3 DEF GrantsInv, NothingOutlivesRevocation
<1> QED BY <1>2, <1>4, GrantsKept
        DEF Setup, Answered, GrantsInv, NothingOutlivesRevocation

LEMMA GrantsUpdate ==
  ASSUME TypeOK, TypeOK', GrantsInv, NEW q \in requests, NEW u \in Users,
         NEW r \in Roles, NEW a \in BOOLEAN, UpdateUser(q, u, r, a)
  PROVE  GrantsInv'
<1>1. epoch' = [epoch EXCEPT ![u] = epoch[u] + 1] /\ issued' = issued
  BY DEF UpdateUser, made
<1>2. \A s \in sessions' : s \in sessions /\ epoch'[s.user] = epoch[s.user]
  BY <1>1 DEF UpdateUser, Without, Sessions, TypeOK
<1>3. \A c \in challenges' : c.epoch = epoch'[c.user]
  BY <1>1 DEF UpdateUser, Without, Challenges, GrantsInv,
     NothingOutlivesRevocation, TypeOK
<1>4. \A p \in pendings' : p.epoch = epoch'[p.user]
  BY <1>1 DEF UpdateUser, Without, Pendings, GrantsInv,
     NothingOutlivesRevocation, TypeOK
<1>5. \A v \in Users : apiTokens'[v] \subseteq {epoch'[v]}
  <2>1. apiTokens' = [apiTokens EXCEPT ![u] = {}]
    BY DEF UpdateUser
  <2>2. ASSUME NEW v \in Users PROVE apiTokens'[v] \subseteq {epoch'[v]}
    BY <1>1, <2>1 DEF GrantsInv, NothingOutlivesRevocation, TypeOK
  <2> QED BY <2>2
<1> QED BY <1>1, <1>2, <1>3, <1>4, <1>5, GrantsKept DEF UpdateUser, Answered

LEMMA GrantsOthers ==
  ASSUME TypeOK, TypeOK', GrantsInv, NEW q \in requests, NEW u \in Users,
         \/ Dropped(q) \/ Logout(q) \/ PasswordRefused(q) \/ SetupDies(q)
         \/ Cancel(q) \/ CreateToken(q) \/ RevokeToken(q) \/ AddUser(q, u)
  PROVE  GrantsInv'
<1>1. requests' \subseteq requests /\ UNCHANGED <<issued, epoch>>
  BY DEF Dropped, Logout, PasswordRefused, SetupDies, Cancel, CreateToken,
     RevokeToken, AddUser, Answered, made
<1>2. /\ sessions' \subseteq sessions /\ challenges' \subseteq challenges
      /\ pendings' \subseteq pendings
  BY DEF Dropped, Logout, PasswordRefused, SetupDies, Cancel, CreateToken,
     RevokeToken, AddUser
<1>3. \A v \in Users : apiTokens'[v] \subseteq apiTokens[v] \cup {epoch[v]}
  <2>1. CASE CreateToken(q)
    BY <2>1, RequestType DEF CreateToken, TypeOK
  <2>2. CASE RevokeToken(q)
    BY <2>2, RequestType DEF RevokeToken, TypeOK
  <2>3. CASE apiTokens' = apiTokens
    BY <2>3
  <2> QED BY <2>1, <2>2, <2>3 DEF Dropped, Logout, PasswordRefused, SetupDies,
          Cancel, AddUser
<1> QED BY <1>1, <1>2, <1>3, GrantsShrink

LEMMA GrantsInit == Init => GrantsInv
BY DEF Init, GrantsInv, NothingOutlivesRevocation

LEMMA GrantsStep == TypeOK /\ TypeOK' /\ GrantsInv /\ [Next]_vars => GrantsInv'
<1> SUFFICES ASSUME TypeOK, TypeOK', GrantsInv, [Next]_vars PROVE GrantsInv'
  OBVIOUS
<1>1. ASSUME NEW q \in requests, Handle(q) PROVE GrantsInv'
  BY <1>1, GrantsEnable, GrantsSetup, GrantsOthers, GrantsUpdate, AdminAssumption
     DEF Handle
<1>2. CASE Tick \/ MoveKey
  BY <1>2, GrantsShrink DEF Tick, MoveKey, made
<1>3. CASE UNCHANGED vars
  BY <1>3, GrantsShrink DEF vars, made
<1>4. ASSUME NEW b \in Browsers, NEW u \in Users,
             Login(b, u) \/ AuthenticateToken(b, u)
      PROVE  GrantsInv'
  BY <1>4, GrantsLogin, GrantsRequests
<1>5. ASSUME NEW b \in Browsers, Verify(b) \/ Authenticate(b)
      PROVE  GrantsInv'
  BY <1>5, GrantsVerify, GrantsRequests, AdminAssumption
<1> QED BY <1>1, <1>2, <1>3, <1>4, <1>5 DEF Next

\* Nothing an account was granted before a revocation is found after it, also
\* when its request was authenticated before.
THEOREM RevocationHolds == Spec => []NothingOutlivesRevocation
<1>1. Init => TypeOK /\ GrantsInv
  BY TypeInit, GrantsInit
<1>2. (TypeOK /\ GrantsInv) /\ [Next]_vars => (TypeOK /\ GrantsInv)'
  BY TypeStep, GrantsStep
<1>3. TypeOK /\ GrantsInv => NothingOutlivesRevocation
  BY DEF GrantsInv
<1> QED BY <1>1, <1>2, <1>3, PTL DEF Spec

----------------------------------------------------------------------------
(* The second factor of sessions.                                          *)

LEMMA FactorKept ==
  ASSUME SecondFactor,
         \A s \in sessions' :
           \/ s.factor
           \/ secret'[s.user] = NoSecret
           \/ s \in sessions /\ secret'[s.user] = secret[s.user]
  PROVE  SecondFactor'
BY DEF SecondFactor

\* The handlers that change no secret and issue no session.
LEMMA FactorShrink ==
  ASSUME SecondFactor, sessions' \subseteq sessions, UNCHANGED secret
  PROVE  SecondFactor'
BY DEF SecondFactor

LEMMA FactorLogin ==
  ASSUME TypeOK, SecondFactor, NEW b \in Browsers, NEW u \in Users, Login(b, u)
  PROVE  SecondFactor'
<1>1. UNCHANGED secret
  BY DEF Login, account
<1>2. CASE LoginIssues(b, u)
  <2> DEFINE n == NewSession(u, epoch[u], FALSE)
  <2>1. sessions' \subseteq sessions \cup {n} /\ n.user = u
    BY <1>2 DEF LoginIssues, IssueSession, NewSession, Unexpired
  <2> HIDE DEF n
  <2>2. secret[u] = NoSecret
    BY <1>2 DEF LoginIssues
  <2> QED BY <1>1, <2>1, <2>2, FactorKept
<1>3. CASE LoginRefused(u) \/ LoginChallenges(b, u)
  BY <1>1, <1>3, FactorShrink DEF LoginRefused, LoginChallenges
<1> QED BY <1>2, <1>3 DEF Login

LEMMA FactorVerify ==
  ASSUME TypeOK, SecondFactor, NEW b \in Browsers, Verify(b)
  PROVE  SecondFactor'
<1>0. PICK c \in ChallengeOf(b) : \E code \in Submitted(c.user, secret[c.user]) :
        VerifyRefused(c.user, code) \/ VerifyAccepted(b, c, code)
  BY DEF Verify
<1>1. PICK code \in Submitted(c.user, secret[c.user]) :
        VerifyRefused(c.user, code) \/ VerifyAccepted(b, c, code)
  BY <1>0
<1>2. UNCHANGED secret
  BY DEF Verify
<1>3. CASE VerifyRefused(c.user, code)
  BY <1>2, <1>3, FactorShrink DEF VerifyRefused
<1>4. CASE VerifyAccepted(b, c, code)
  <2> DEFINE n == NewSession(c.user, c.epoch, TRUE)
  <2>1. sessions' \subseteq sessions \cup {n} /\ n.factor
    BY <1>4 DEF VerifyAccepted, IssueSession, NewSession, Unexpired
  <2> HIDE DEF n
  <2> QED BY <1>2, <2>1, FactorKept
<1> QED BY <1>1, <1>3, <1>4

LEMMA FactorRenew ==
  ASSUME TypeOK, SecondFactor, NEW q \in requests, Renew(q),
         \A u \in Users \ {q.user} : secret'[u] = secret[u]
  PROVE  SecondFactor'
<1> DEFINE n == NewSession(q.user, q.epoch + 1, TRUE)
<1>1. sessions' \subseteq Without(sessions, q.user) \cup {n} /\ n.factor
  BY DEF Renew, IssueSession, NewSession, Unexpired
<1> HIDE DEF n
<1>2. \A s \in Without(sessions, q.user) : s \in sessions /\ s.user \in Users \ {q.user}
  BY DEF Without, Sessions, TypeOK
<1> QED BY <1>1, <1>2, FactorKept

LEMMA FactorManage ==
  ASSUME TypeOK, SecondFactor, NEW q \in requests, Enable(q) \/ Manage(q)
  PROVE  SecondFactor'
<1>1. CASE \E p, code : EnableRefused(q, p, code)
  BY <1>1, FactorShrink DEF EnableRefused
<1>2. CASE \E code : ProofRefused(q, code)
  BY <1>2, FactorShrink DEF ProofRefused
<1>3. CASE \E p, code : EnableAccepted(q, p, code)
  BY <1>3, FactorRenew, RequestType DEF EnableAccepted, TypeOK
<1>4. CASE \E code : Regenerate(q, code)
  BY <1>4, FactorRenew DEF Regenerate
<1>5. CASE \E code : Disable(q, code)
  BY <1>5, FactorRenew, RequestType DEF Disable, TypeOK
<1> QED BY <1>1, <1>2, <1>3, <1>4, <1>5 DEF Enable, Manage

LEMMA FactorStep == TypeOK /\ SecondFactor /\ [Next]_vars => SecondFactor'
<1> SUFFICES ASSUME TypeOK, SecondFactor, [Next]_vars PROVE SecondFactor'
  OBVIOUS
<1>1. ASSUME NEW q \in requests, NEW u \in Users, NEW r \in Roles,
             NEW a \in BOOLEAN,
             \/ Dropped(q) \/ Logout(q) \/ PasswordRefused(q) \/ Setup(q)
             \/ SetupDies(q) \/ Cancel(q) \/ CreateToken(q) \/ RevokeToken(q)
             \/ AddUser(q, u) \/ UpdateUser(q, u, r, a)
      PROVE  SecondFactor'
  <2>1. sessions' \subseteq sessions /\ UNCHANGED secret
    BY <1>1 DEF Dropped, Logout, PasswordRefused, Setup, SetupDies, Cancel,
       CreateToken, RevokeToken, AddUser, UpdateUser, Without, account
  <2> QED BY <2>1, FactorShrink
<1>2. ASSUME NEW q \in requests, Handle(q) PROVE SecondFactor'
  BY <1>1, <1>2, FactorManage, AdminAssumption DEF Handle, Roles
<1>3. CASE Tick \/ MoveKey \/ UNCHANGED vars
  BY <1>3, FactorShrink DEF Tick, MoveKey, vars, account
<1>4. ASSUME NEW b \in Browsers, NEW u \in Users,
             Authenticate(b) \/ AuthenticateToken(b, u)
      PROVE  SecondFactor'
  BY <1>4, FactorShrink DEF Authenticate, AuthenticateToken, account
<1> QED BY <1>2, <1>3, <1>4, FactorLogin, FactorVerify, AdminAssumption DEF Next

\* No session opened by a password alone is left once an account has a second
\* factor, and none is opened.
THEOREM FactorHolds == Spec => []SecondFactor
<1>1. Init => TypeOK /\ SecondFactor
  BY TypeInit DEF Init, SecondFactor
<1>2. (TypeOK /\ SecondFactor) /\ [Next]_vars => (TypeOK /\ SecondFactor)'
  BY TypeStep, FactorStep
<1> QED BY <1>1, <1>2, PTL DEF Spec

----------------------------------------------------------------------------
(* The key.                                                                *)

\* Every secret waits for the last key made; it is that of an account that
\* exists, so that cipher sees it.
KeyInv ==
  /\ key \in {NoKey, TornKey, keys} /\ keys >= TornKey
  /\ \A u \in Users : secret[u] = NoSecret \/ (u \in users /\ secret[u].key = keys)
  /\ \A p \in pendings : p.secret.key = keys
  /\ \A s \in sessions : s.user \in users

LEMMA KeyShrink ==
  ASSUME TypeOK, KeyInv, UNCHANGED <<key, keys, secret>>,
         users \subseteq users', pendings' \subseteq pendings,
         \A s \in sessions' : s \in sessions \/ s.user \in users
  PROVE  KeyInv'
BY DEF KeyInv

LEMMA KeyLogin ==
  ASSUME TypeOK, KeyInv, NEW b \in Browsers, NEW u \in Users, Login(b, u)
  PROVE  KeyInv'
<1>1. UNCHANGED <<key, keys, secret, users, pendings>>
  BY DEF Login, account
<1>2. CASE LoginIssues(b, u)
  <2> DEFINE n == NewSession(u, epoch[u], FALSE)
  <2>1. sessions' \subseteq sessions \cup {n} /\ n.user = u /\ u \in users
    BY <1>2 DEF LoginIssues, IssueSession, NewSession, Unexpired
  <2> HIDE DEF n
  <2> QED BY <1>1, <2>1, KeyShrink
<1>3. CASE LoginRefused(u) \/ LoginChallenges(b, u)
  BY <1>1, <1>3, KeyShrink DEF LoginRefused, LoginChallenges
<1> QED BY <1>2, <1>3 DEF Login

LEMMA KeyVerify ==
  ASSUME TypeOK, KeyInv, NEW b \in Browsers, Verify(b)
  PROVE  KeyInv'
<1>0. PICK c \in ChallengeOf(b) : \E code \in Submitted(c.user, secret[c.user]) :
        /\ secret[c.user] # NoSecret
        /\ VerifyRefused(c.user, code) \/ VerifyAccepted(b, c, code)
  BY DEF Verify
<1>1. PICK code \in Submitted(c.user, secret[c.user]) :
        /\ secret[c.user] # NoSecret
        /\ VerifyRefused(c.user, code) \/ VerifyAccepted(b, c, code)
  BY <1>0
<1>2. UNCHANGED <<key, keys, secret, users, pendings>>
  BY DEF Verify
<1>3. c.user \in users
  BY <1>1 DEF KeyInv, ChallengeOf, Unexpired, Challenges, TypeOK
<1>4. CASE VerifyRefused(c.user, code)
  BY <1>2, <1>4, KeyShrink DEF VerifyRefused
<1>5. CASE VerifyAccepted(b, c, code)
  <2> DEFINE n == NewSession(c.user, c.epoch, TRUE)
  <2>1. sessions' \subseteq sessions \cup {n} /\ n.user = c.user
    BY <1>5 DEF VerifyAccepted, IssueSession, NewSession, Unexpired
  <2> HIDE DEF n
  <2> QED BY <1>2, <1>3, <2>1, KeyShrink
<1> QED BY <1>1, <1>4, <1>5

LEMMA KeyRenew ==
  ASSUME TypeOK, KeyInv, NEW q \in requests, CurrentUser(q), Renew(q),
         UNCHANGED <<key, keys, users>>,
         \A u \in Users : \/ secret'[u] \in {secret[u], NoSecret}
                          \/ u = q.user /\ secret'[u].key = keys
  PROVE  KeyInv'
<1> DEFINE n == NewSession(q.user, q.epoch + 1, TRUE)
<1>1. sessions' \subseteq sessions \cup {n} /\ n.user = q.user
  BY DEF Renew, IssueSession, NewSession, Unexpired, Without
<1> HIDE DEF n
<1>2. q.user \in users
  BY DEF CurrentUser, KeyInv
<1>3. pendings' \subseteq pendings
  BY DEF Renew, Without
<1>4. \A u \in Users :
        secret'[u] = NoSecret \/ (u \in users' /\ secret'[u].key = keys')
  <2>1. ASSUME NEW u \in Users
        PROVE  secret'[u] = NoSecret \/ (u \in users /\ secret'[u].key = keys)
    <3>1. CASE secret'[u] = secret[u]
      BY <3>1 DEF KeyInv
    <3>2. CASE u = q.user /\ secret'[u].key = keys
      BY <1>2, <3>2
    <3> QED BY <3>1, <3>2
  <2> QED BY <2>1
<1>5. \A s \in sessions' : s.user \in users'
  BY <1>1, <1>2 DEF KeyInv
<1> QED BY <1>3, <1>4, <1>5 DEF KeyInv

LEMMA KeyManage ==
  ASSUME TypeOK, KeyInv, NEW q \in requests, Enable(q) \/ Manage(q)
  PROVE  KeyInv'
<1>1. UNCHANGED <<key, keys, users>> /\ CurrentUser(q)
  BY DEF Enable, Manage
<1>2. CASE \E p, code : EnableRefused(q, p, code)
  BY <1>1, <1>2, KeyShrink DEF EnableRefused
<1>3. CASE \E code : ProofRefused(q, code)
  BY <1>1, <1>3, KeyShrink DEF ProofRefused
<1>4. CASE \E p \in PendingOf(q) : \E code : EnableAccepted(q, p, code)
  <2>1. PICK p \in PendingOf(q) : /\ Renew(q)
                                 /\ secret' = [secret EXCEPT ![q.user] = p.secret]
    BY <1>4 DEF EnableAccepted
  <2>2. p.secret.key = keys
    BY DEF PendingOf, Unexpired, KeyInv
  <2> QED BY <1>1, <2>1, <2>2, KeyRenew, RequestType DEF TypeOK
<1>5. CASE \E code : Regenerate(q, code)
  BY <1>1, <1>5, KeyRenew DEF Regenerate
<1>6. CASE \E code : Disable(q, code)
  BY <1>1, <1>6, KeyRenew, RequestType DEF Disable, TypeOK
<1> QED BY <1>2, <1>3, <1>4, <1>5, <1>6 DEF Enable, Manage

\* cipher makes a key only when no secret waits for an older one.
LEMMA KeySetup ==
  ASSUME TypeOK, KeyInv, NEW q \in requests, Setup(q) \/ SetupDies(q)
  PROVE  KeyInv'
<1>1. CipherKey # key => /\ CipherKey = keys + 1 /\ pendings = {} /\ key = NoKey
                         /\ \A u \in Users : secret[u] = NoSecret
  BY DEF CipherKey, KeyInv, TypeOK
<1>2. UNCHANGED <<secret, users, sessions>>
  BY DEF Setup, SetupDies, account
<1>3. CASE Setup(q)
  <2> DEFINE new == [user |-> q.user,
                     secret |-> [id |-> secrets + 1, key |-> CipherKey],
                     token |-> q.token, expires |-> now + PendingLife,
                     epoch |-> q.epoch]
  <2>1. pendings' \subseteq pendings \cup {new} /\ new.secret.key = CipherKey
    BY <1>3 DEF Setup, Unexpired, Without
  <2> HIDE DEF new
  <2>2. keys' = CipherKey /\ key' = CipherKey
    BY <1>1, <1>3 DEF Setup, KeyInv, NoKey, TornKey, TypeOK
  <2>3. keys' >= TornKey
    BY <1>3, <2>2, CipherKeyType DEF Setup, TornKey
  <2>4. \A p \in pendings : p.secret.key = keys'
    BY <1>1, <1>3, <2>2 DEF Setup, KeyInv, NoKey, TornKey, TypeOK
  <2>5. \A u \in Users : secret[u] = NoSecret \/ (u \in users /\ secret[u].key = keys')
    <3>1. CASE CipherKey # key
      <4>1. ASSUME NEW u \in Users PROVE secret[u] = NoSecret
        BY <1>1, <3>1
      <4> QED BY <4>1
    <3>2. CASE CipherKey = key
      <4>1. key = keys
        BY <1>3, <3>2 DEF Setup, KeyInv, NoKey, TornKey, TypeOK
      <4> QED BY <2>2, <3>2, <4>1 DEF KeyInv
    <3> QED BY <3>1, <3>2
  <2> QED BY <1>2, <2>1, <2>2, <2>3, <2>4, <2>5 DEF KeyInv
<1>4. CASE SetupDies(q)
  <2>1. /\ pendings' = {} /\ \A u \in Users : secret'[u] = NoSecret
        /\ key' \in {TornKey, keys + 1}
        /\ keys' = IF key' = TornKey THEN keys ELSE key'
    BY <1>1, <1>4 DEF SetupDies, account
  <2>2. key' \in {NoKey, TornKey, keys'} /\ keys' >= TornKey
    BY <2>1 DEF KeyInv, TornKey, TypeOK
  <2> QED BY <1>2, <2>1, <2>2 DEF KeyInv
<1> QED BY <1>3, <1>4

LEMMA KeyStep == TypeOK /\ KeyInv /\ [Next]_vars => KeyInv'
<1> SUFFICES ASSUME TypeOK, KeyInv, [Next]_vars PROVE KeyInv'
  OBVIOUS
<1>1. ASSUME NEW q \in requests, NEW u \in Users, NEW r \in Roles,
             NEW a \in BOOLEAN,
             \/ Dropped(q) \/ Logout(q) \/ PasswordRefused(q) \/ Cancel(q)
             \/ CreateToken(q) \/ RevokeToken(q) \/ AddUser(q, u)
             \/ UpdateUser(q, u, r, a)
      PROVE  KeyInv'
  <2>1. /\ sessions' \subseteq sessions /\ pendings' \subseteq pendings
        /\ users \subseteq users' /\ UNCHANGED <<key, keys, secret>>
    BY <1>1 DEF Dropped, Logout, PasswordRefused, Cancel, CreateToken,
       RevokeToken, AddUser, UpdateUser, Without, account, made
  <2> QED BY <2>1, KeyShrink
<1>2. ASSUME NEW q \in requests, Handle(q) PROVE KeyInv'
  BY <1>1, <1>2, KeyManage, KeySetup, AdminAssumption DEF Handle, Roles
<1>3. CASE MoveKey
  BY <1>3 DEF MoveKey, KeyInv, account, made
<1>4. CASE Tick \/ UNCHANGED vars
  BY <1>4, KeyShrink DEF Tick, vars, account, made
<1>5. ASSUME NEW b \in Browsers, NEW u \in Users,
             Authenticate(b) \/ AuthenticateToken(b, u)
      PROVE  KeyInv'
  BY <1>5, KeyShrink DEF Authenticate, AuthenticateToken, account, made
<1> QED BY <1>2, <1>3, <1>4, <1>5, KeyLogin, KeyVerify, AdminAssumption DEF Next

\* A key in place decrypts every secret kept, whatever was lost, put back, or
\* left by a process that died.
THEOREM KeyHolds == Spec => []KeyKeepsFactors
<1>1. Init => TypeOK /\ KeyInv
  <2>1. Init => KeyInv
    <3> SUFFICES ASSUME Init PROVE KeyInv
      OBVIOUS
    <3>1. key \in {NoKey, TornKey, keys} /\ keys >= TornKey
      BY DEF Init, TornKey
    <3>2. \A u \in Users : secret[u] = NoSecret
      BY DEF Init
    <3>3. pendings = {} /\ sessions = {}
      BY DEF Init
    <3> QED BY <3>1, <3>2, <3>3 DEF KeyInv
  <2> QED BY <2>1, TypeInit
<1>2. (TypeOK /\ KeyInv) /\ [Next]_vars => (TypeOK /\ KeyInv)'
  BY TypeStep, KeyStep
<1>3. TypeOK /\ KeyInv => KeyKeepsFactors
  BY DEF KeyInv, KeyKeepsFactors, NoKey, TornKey, TypeOK
<1> QED BY <1>1, <1>2, <1>3, PTL DEF Spec

----------------------------------------------------------------------------
(* Codes.                                                                  *)

\* A code spent is behind what accepts codes: the last step of its secret, the
\* batches replaced, and the secrets still being enrolled.
CodeInv ==
  /\ reused = {}
  /\ \A u \in Users : secret[u] = NoSecret \/ secret[u].id \in 1..secrets
  /\ \A u \in Users : \A c \in recovery[u] : c.kind = "recovery" /\ c.from <= epoch[u]
  /\ \A u \in Users : \A c \in spent[u] :
       /\ c.kind = "totp" => c.from \in 1..secrets
       /\ c.kind = "totp" /\ c.from = secret[u].id => c.n <= last[u]
       /\ c.kind = "recovery" => c.from <= epoch[u] /\ c \notin recovery[u]
  /\ \A p \in pendings :
       /\ secret[p.user] = NoSecret
       /\ p.secret.id \in 1..secrets
       /\ \A c \in spent[p.user] : c.kind = "totp" => c.from # p.secret.id

\* The handlers that accept no code.
LEMMA CodesKept ==
  ASSUME TypeOK, TypeOK', CodeInv, UNCHANGED <<secret, last, recovery, ghosts>>,
         secrets' >= secrets, \A u \in Users : epoch'[u] >= epoch[u],
         pendings' \subseteq pendings
  PROVE  CodeInv'
<1>1. UNCHANGED <<secret, last, recovery, spent, reused>>
  BY DEF ghosts
<1>2. \A u \in Users : secret'[u] = NoSecret \/ secret'[u].id \in 1..secrets'
  BY <1>1 DEF CodeInv, TypeOK, Secrets
<1>3. \A u \in Users : \A c \in recovery'[u] :
        c.kind = "recovery" /\ c.from <= epoch'[u]
  BY <1>1 DEF CodeInv, TypeOK, Codes
<1>4. \A u \in Users : \A c \in spent'[u] :
       /\ c.kind = "totp" => c.from \in 1..secrets'
       /\ c.kind = "totp" /\ c.from = secret'[u].id => c.n <= last'[u]
       /\ c.kind = "recovery" => c.from <= epoch'[u] /\ c \notin recovery'[u]
  BY <1>1 DEF CodeInv, TypeOK, Codes
<1>5. \A p \in pendings' :
       /\ secret'[p.user] = NoSecret
       /\ p.secret.id \in 1..secrets'
       /\ \A c \in spent'[p.user] : c.kind = "totp" => c.from # p.secret.id
  BY <1>1 DEF CodeInv, TypeOK
<1> QED BY <1>1, <1>2, <1>3, <1>4, <1>5 DEF CodeInv

\* An accepted code is a new one; a code of the secret is the last of it.
LEMMA AcceptedIsNew ==
  ASSUME TypeOK, CodeInv, NEW u \in Users, NEW c, Accepts(u, c)
  PROVE  /\ c \notin spent[u] /\ c \in Codes
         /\ \/ c.kind = "recovery" /\ c \in recovery[u]
            \/ c.kind = "totp" /\ c.from = secret[u].id /\ c.n > last[u]
               /\ c \notin recovery[u]
<1>1. c \in Codes
  BY AcceptType
<1>2. CASE c \in recovery[u]
  BY <1>1, <1>2 DEF CodeInv
<1>3. CASE c \notin recovery[u] /\ c \in MatchStep(secret[u], last[u])
  <2>1. c.kind = "totp" /\ c.from = secret[u].id /\ c.n > last[u]
    BY <1>3 DEF MatchStep, TotpCode, TypeOK
  <2>2. c \notin spent[u]
    BY <1>1, <2>1 DEF CodeInv, TypeOK, Codes
  <2> QED BY <1>1, <1>3, <2>1, <2>2
<1> QED BY <1>2, <1>3 DEF Accepts

\* What a request that had a code accepted for u may leave.
LEMMA CodesSpent ==
  ASSUME TypeOK, TypeOK', CodeInv, NEW u \in Users, NEW c,
         c \notin spent[u], Spend(u, c), UNCHANGED secrets,
         \A v \in Users : epoch'[v] >= epoch[v],
         \A v \in Users \ {u} : /\ secret'[v] = secret[v] /\ last'[v] = last[v]
                                /\ recovery'[v] = recovery[v],
         secret'[u] = NoSecret \/ secret'[u].id \in 1..secrets,
         \A d \in recovery'[u] : d.kind = "recovery" /\ d.from <= epoch'[u],
         \A d \in spent'[u] :
           /\ d.kind = "totp" => d.from \in 1..secrets
           /\ d.kind = "totp" /\ d.from = secret'[u].id => d.n <= last'[u]
           /\ d.kind = "recovery" => d.from <= epoch'[u] /\ d \notin recovery'[u],
         \A p \in pendings' : p \in pendings /\ p.user # u
  PROVE  CodeInv'
<1>1. reused' = {}
  BY DEF Spend, CodeInv
<1>2. \A v \in Users \ {u} : spent'[v] = spent[v]
  BY DEF Spend, TypeOK
<1>3. \A v \in Users : secret'[v] = NoSecret \/ secret'[v].id \in 1..secrets'
  BY DEF CodeInv
<1>4. \A v \in Users : \A d \in recovery'[v] :
        d.kind = "recovery" /\ d.from <= epoch'[v]
  <2>1. ASSUME NEW v \in Users \ {u}, NEW d \in recovery'[v]
        PROVE  d.kind = "recovery" /\ d.from <= epoch'[v]
    BY <2>1 DEF CodeInv, TypeOK, Codes
  <2> QED BY <2>1
<1>5. \A v \in Users : \A d \in spent'[v] :
        /\ d.kind = "totp" => d.from \in 1..secrets'
        /\ d.kind = "totp" /\ d.from = secret'[v].id => d.n <= last'[v]
        /\ d.kind = "recovery" => d.from <= epoch'[v] /\ d \notin recovery'[v]
  <2>1. ASSUME NEW v \in Users \ {u}, NEW d \in spent'[v]
        PROVE  /\ d.kind = "totp" => d.from \in 1..secrets
               /\ d.kind = "totp" /\ d.from = secret'[v].id => d.n <= last'[v]
               /\ d.kind = "recovery" => d.from <= epoch'[v] /\ d \notin recovery'[v]
    BY <1>2, <2>1 DEF CodeInv, TypeOK, Codes
  <2> QED BY <2>1
<1>6. \A p \in pendings' :
        /\ secret'[p.user] = NoSecret
        /\ p.secret.id \in 1..secrets'
        /\ \A d \in spent'[p.user] : d.kind = "totp" => d.from # p.secret.id
  BY <1>2 DEF CodeInv, TypeOK, Pendings
<1> QED BY <1>1, <1>3, <1>4, <1>5, <1>6 DEF CodeInv

LEMMA CodesVerify ==
  ASSUME TypeOK, TypeOK', CodeInv, NEW b \in Browsers, Verify(b)
  PROVE  CodeInv'
<1>0. PICK c \in ChallengeOf(b) : \E code \in Submitted(c.user, secret[c.user]) :
        /\ secret[c.user] # NoSecret
        /\ VerifyRefused(c.user, code) \/ VerifyAccepted(b, c, code)
  BY DEF Verify
<1>1. PICK code \in Submitted(c.user, secret[c.user]) :
        /\ secret[c.user] # NoSecret
        /\ VerifyRefused(c.user, code) \/ VerifyAccepted(b, c, code)
  BY <1>0
<1>2. c.user \in Users
  BY DEF ChallengeOf, Unexpired, Challenges, TypeOK
<1>3. UNCHANGED <<secret, pendings, secrets, epoch>>
  BY DEF Verify
<1>4. CASE VerifyRefused(c.user, code)
  BY <1>3, <1>4, CodesKept DEF VerifyRefused, TypeOK
<1>5. CASE VerifyAccepted(b, c, code)
  <2> DEFINE u == c.user
  <2>1. /\ Accepts(u, code) /\ Spend(u, code)
        /\ last' = [last EXCEPT ![u] = LastAfter(u, code)]
        /\ recovery' = [recovery EXCEPT ![u] = recovery[u] \ {code}]
    BY <1>5 DEF VerifyAccepted
  <2> HIDE DEF u
  <2>2. u \in Users
    BY <1>2 DEF u
  <2>3. /\ code \notin spent[u] /\ code \in Codes
        /\ \/ code.kind = "recovery" /\ code \in recovery[u]
           \/ /\ code.kind = "totp" /\ code.from = secret[u].id
              /\ code.n > last[u] /\ code \notin recovery[u]
    BY <2>1, <2>2, AcceptedIsNew
  <2>4. last'[u] >= last[u] /\ (code.kind = "totp" => last'[u] = code.n)
    BY <2>1, <2>2, <2>3 DEF LastAfter, TypeOK, Codes
  <2>5. spent'[u] = spent[u] \cup {code}
    BY <2>1, <2>2 DEF Spend, TypeOK
  <2>6. secret[u] # NoSecret
    BY <1>1 DEF u
  <2>7. secret[u].id \in 1..secrets
    BY <2>2, <2>6 DEF CodeInv
  <2>8. \A d \in spent'[u] :
           /\ d.kind = "totp" => d.from \in 1..secrets
           /\ d.kind = "totp" /\ d.from = secret'[u].id => d.n <= last'[u]
           /\ d.kind = "recovery" => d.from <= epoch'[u] /\ d \notin recovery'[u]
    <3>1. ASSUME NEW d \in spent[u]
          PROVE  /\ d.kind = "totp" => d.from \in 1..secrets
                 /\ d.kind = "totp" /\ d.from = secret'[u].id => d.n <= last'[u]
                 /\ d.kind = "recovery" => d.from <= epoch'[u] /\ d \notin recovery'[u]
      BY <1>3, <2>1, <2>2, <2>4 DEF CodeInv, TypeOK, Codes
    <3>2. /\ code.kind = "totp" => code.from \in 1..secrets
          /\ code.kind = "totp" /\ code.from = secret'[u].id => code.n <= last'[u]
          /\ code.kind = "recovery" => code.from <= epoch'[u] /\ code \notin recovery'[u]
      BY <1>3, <2>1, <2>2, <2>3, <2>4, <2>7 DEF CodeInv, TypeOK, Codes
    <3> QED
      BY <1>3, <2>5, <3>1, <3>2
  <2>9. \A p \in pendings' : p \in pendings /\ p.user # u
    BY <1>3, <2>6 DEF CodeInv
  <2>10. \A d \in recovery'[u] : d.kind = "recovery" /\ d.from <= epoch'[u]
    BY <1>3, <2>1, <2>2 DEF CodeInv, TypeOK
  <2>11. \A v \in Users \ {u} : /\ secret'[v] = secret[v] /\ last'[v] = last[v]
                                /\ recovery'[v] = recovery[v]
    BY <1>3, <2>1 DEF TypeOK
  <2>12. secret'[u].id \in 1..secrets /\ \A v \in Users : epoch'[v] >= epoch[v]
    BY <1>3, <2>2, <2>7 DEF TypeOK
  <2> QED BY <1>3, <2>1, <2>2, <2>3, <2>8, <2>9, <2>10, <2>11, <2>12, CodesSpent
<1> QED BY <1>1, <1>4, <1>5

\* The last proof of a factor in enable, regenerate and disable: all that was
\* granted goes, and the codes to come are of another batch.
LEMMA CodesRenew ==
  ASSUME TypeOK, TypeOK', CodeInv, NEW q \in requests, Renew(q), NEW c \in Codes,
         c \notin spent[q.user], Spend(q.user, c), UNCHANGED secrets,
         \A v \in Users \ {q.user} :
           secret'[v] = secret[v] /\ last'[v] = last[v] /\ recovery'[v] = recovery[v],
         secret'[q.user] = NoSecret \/ secret'[q.user].id \in 1..secrets,
         recovery'[q.user] \in {{}, Batch(epoch[q.user] + 1)},
         c.kind = "totp" => c.from \in 1..secrets,
         c.kind = "totp" /\ c.from = secret'[q.user].id => c.n <= last'[q.user],
         c.kind = "recovery" => c.from <= epoch[q.user],
         \A d \in spent[q.user] :
           d.kind = "totp" /\ d.from = secret'[q.user].id => d.n <= last'[q.user]
  PROVE  CodeInv'
<1> DEFINE u == q.user
<1>1. u \in Users
  BY RequestType
<1>2. epoch' = [epoch EXCEPT ![u] = epoch[u] + 1]
  BY DEF Renew
<1>3. epoch'[u] = epoch[u] + 1 /\ \A v \in Users : epoch'[v] >= epoch[v]
  BY <1>1, <1>2 DEF TypeOK
<1>4. \A d \in recovery'[u] : d.kind = "recovery" /\ d.from = epoch[u] + 1
  BY DEF Batch
<1>5. spent'[u] = spent[u] \cup {c}
  BY <1>1 DEF Spend, TypeOK
<1>6. \A d \in spent'[u] :
        /\ d.kind = "totp" => d.from \in 1..secrets
        /\ d.kind = "totp" /\ d.from = secret'[u].id => d.n <= last'[u]
        /\ d.kind = "recovery" => d.from <= epoch[u]
  BY <1>1, <1>5 DEF CodeInv, TypeOK
<1>7. \A d \in spent'[u] : d.kind = "recovery" => d.from <= epoch'[u] /\ d \notin recovery'[u]
  BY <1>1, <1>3, <1>4, <1>6 DEF TypeOK, Codes
<1>8. \A p \in pendings' : p \in pendings /\ p.user # u
  BY DEF Renew, Without
<1>9. \A d \in recovery'[u] : d.kind = "recovery" /\ d.from <= epoch'[u]
  BY <1>1, <1>3, <1>4 DEF TypeOK
<1> QED BY <1>1, <1>3, <1>6, <1>7, <1>8, <1>9, CodesSpent

LEMMA CodesEnable ==
  ASSUME TypeOK, TypeOK', CodeInv, NEW q \in requests, Enable(q)
  PROVE  CodeInv'
<1>0. PICK p \in PendingOf(q) : \E c \in Submitted(q.user, p.secret) :
        EnableRefused(q, p, c) \/ EnableAccepted(q, p, c)
  BY DEF Enable
<1>1. PICK c \in Submitted(q.user, p.secret) :
        EnableRefused(q, p, c) \/ EnableAccepted(q, p, c)
  BY <1>0
<1>2. UNCHANGED secrets /\ q.user \in Users
  BY RequestType DEF Enable
<1>3. CASE EnableRefused(q, p, c)
  BY <1>2, <1>3, CodesKept DEF EnableRefused, TypeOK
<1>4. CASE EnableAccepted(q, p, c)
  <2>1. p \in pendings /\ p.user = q.user /\ p.secret \in Secrets
    BY DEF PendingOf, Unexpired, Pendings, TypeOK
  <2>2. c \in Codes /\ c.kind = "totp" /\ c.from = p.secret.id
    BY <1>4, <2>1, CodesType DEF EnableAccepted, MatchStep, TotpCode
  <2>3. /\ Renew(q) /\ Spend(q.user, c)
        /\ secret' = [secret EXCEPT ![q.user] = p.secret]
        /\ last' = [last EXCEPT ![q.user] = c.n]
        /\ recovery' = [recovery EXCEPT ![q.user] = Batch(epoch[q.user] + 1)]
    BY <1>4 DEF EnableAccepted
  <2>4. /\ p.secret.id \in 1..secrets
        /\ \A d \in spent[q.user] : d.kind = "totp" => d.from # p.secret.id
    BY <2>1 DEF CodeInv
  <2>5. c \notin spent[q.user]
    BY <2>2, <2>4
  <2>6. /\ secret'[q.user] = p.secret /\ last'[q.user] = c.n
        /\ recovery'[q.user] = Batch(epoch[q.user] + 1)
        /\ \A v \in Users \ {q.user} :
             secret'[v] = secret[v] /\ last'[v] = last[v] /\ recovery'[v] = recovery[v]
    BY <1>2, <2>3 DEF TypeOK
  <2>7. c.n <= last'[q.user]
    BY <2>2, <2>6 DEF Codes
  <2> QED BY <1>2, <2>2, <2>3, <2>4, <2>5, <2>6, <2>7, CodesRenew
<1> QED BY <1>1, <1>3, <1>4

LEMMA CodesManage ==
  ASSUME TypeOK, TypeOK', CodeInv, NEW q \in requests, Manage(q)
  PROVE  CodeInv'
<1>1. PICK c : ProofRefused(q, c) \/ Regenerate(q, c) \/ Disable(q, c)
  BY DEF Manage
<1>2. UNCHANGED secrets /\ q.user \in Users /\ secret[q.user] # NoSecret
  BY RequestType DEF Manage
<1>3. secret[q.user].id \in 1..secrets
  BY <1>2 DEF CodeInv
<1>4. CASE ProofRefused(q, c)
  BY <1>2, <1>4, CodesKept DEF ProofRefused, TypeOK
<1>5. CASE Regenerate(q, c) \/ Disable(q, c)
  <2>1. Accepts(q.user, c) /\ Spend(q.user, c) /\ Renew(q)
    BY <1>5 DEF Regenerate, Disable
  <2>2. /\ c \notin spent[q.user] /\ c \in Codes
        /\ \/ c.kind = "recovery" /\ c \in recovery[q.user]
           \/ /\ c.kind = "totp" /\ c.from = secret[q.user].id
              /\ c.n > last[q.user] /\ c \notin recovery[q.user]
    BY <1>2, <2>1, AcceptedIsNew
  <2>3. /\ c.kind = "totp" => c.from \in 1..secrets
        /\ c.kind = "recovery" => c.from <= epoch[q.user]
    BY <1>2, <1>3, <2>2 DEF CodeInv
  <2>4. \A d \in spent[q.user] : d.kind = "totp" => d.from \in 1..secrets
    BY <1>2 DEF CodeInv
  <2>5. CASE Regenerate(q, c)
    <3>1. /\ UNCHANGED secret
          /\ last'[q.user] = LastAfter(q.user, c)
          /\ recovery'[q.user] = Batch(epoch[q.user] + 1)
          /\ \A v \in Users \ {q.user} :
               last'[v] = last[v] /\ recovery'[v] = recovery[v]
      BY <1>2, <2>5 DEF Regenerate, TypeOK
    <3>2. last'[q.user] >= last[q.user] /\ (c.kind = "totp" => last'[q.user] = c.n)
      BY <1>2, <2>2, <3>1 DEF LastAfter, TypeOK, Codes
    <3>3. c.kind = "totp" /\ c.from = secret'[q.user].id => c.n <= last'[q.user]
      BY <2>2, <3>2 DEF Codes
    <3>4. \A d \in spent[q.user] :
            d.kind = "totp" /\ d.from = secret'[q.user].id => d.n <= last'[q.user]
      BY <1>2, <3>1, <3>2 DEF CodeInv, TypeOK, Codes
    <3> QED BY <1>2, <1>3, <2>1, <2>2, <2>3, <3>1, <3>3, <3>4, CodesRenew
  <2>6. CASE Disable(q, c)
    <3>1. /\ secret'[q.user] = NoSecret /\ recovery'[q.user] = {}
          /\ \A v \in Users \ {q.user} :
               secret'[v] = secret[v] /\ last'[v] = last[v] /\ recovery'[v] = recovery[v]
      BY <1>2, <2>6 DEF Disable, TypeOK
    <3>2. secret'[q.user].id = 0
      BY <3>1 DEF NoSecret
    <3>3. \A d \in spent[q.user] : ~(d.kind = "totp" /\ d.from = secret'[q.user].id)
      BY <2>4, <3>2
    <3>4. ~(c.kind = "totp" /\ c.from = secret'[q.user].id)
      BY <2>3, <3>2
    <3> QED BY <1>2, <2>1, <2>2, <2>3, <3>1, <3>3, <3>4, CodesRenew
  <2> QED BY <1>5, <2>5, <2>6
<1> QED BY <1>1, <1>4, <1>5

\* A new enrolment has a secret no code was accepted for.
LEMMA CodesSetup ==
  ASSUME TypeOK, TypeOK', CodeInv, NEW q \in requests, Setup(q)
  PROVE  CodeInv'
<1>1. /\ UNCHANGED <<secret, last, recovery, spent, reused, epoch>>
      /\ secret[q.user] = NoSecret /\ secrets' = secrets + 1 /\ q.user \in Users
  BY RequestType DEF Setup, MaySetUp, account, ghosts
<1> DEFINE new == [user |-> q.user,
                   secret |-> [id |-> secrets + 1, key |-> CipherKey],
                   token |-> q.token, expires |-> now + PendingLife,
                   epoch |-> q.epoch]
<1>2. /\ pendings' \subseteq pendings \cup {new}
      /\ new.user = q.user /\ new.secret.id = secrets + 1
  BY DEF Setup, Unexpired, Without
<1> HIDE DEF new
<1>3. \A u \in Users : secret'[u] = NoSecret \/ secret'[u].id \in 1..secrets'
  BY <1>1 DEF CodeInv, TypeOK
<1>4. \A u \in Users : \A c \in spent'[u] :
       /\ c.kind = "totp" => c.from \in 1..secrets'
       /\ c.kind = "totp" /\ c.from = secret'[u].id => c.n <= last'[u]
       /\ c.kind = "recovery" => c.from <= epoch'[u] /\ c \notin recovery'[u]
  BY <1>1 DEF CodeInv, TypeOK, Codes
<1>5. ASSUME NEW p \in pendings'
      PROVE  /\ secret'[p.user] = NoSecret
             /\ p.secret.id \in 1..secrets'
             /\ \A c \in spent'[p.user] : c.kind = "totp" => c.from # p.secret.id
  <2>1. CASE p \in pendings
    BY <1>1, <2>1 DEF CodeInv, TypeOK
  <2>2. CASE p = new
    <3>1. \A c \in spent[q.user] : c.kind = "totp" => c.from # secrets + 1
      BY <1>1 DEF CodeInv, TypeOK
    <3>2. secrets + 1 \in 1..secrets'
      BY <1>1 DEF TypeOK
    <3> QED BY <1>1, <1>2, <2>2, <3>1, <3>2
  <2> QED BY <1>2, <2>1, <2>2
<1> QED BY <1>1, <1>3, <1>4, <1>5 DEF CodeInv

LEMMA CodesStep == TypeOK /\ TypeOK' /\ CodeInv /\ [Next]_vars => CodeInv'
<1> SUFFICES ASSUME TypeOK, TypeOK', CodeInv, [Next]_vars PROVE CodeInv'
  OBVIOUS
<1>1. ASSUME NEW q \in requests, NEW u \in Users, NEW r \in Roles,
             NEW a \in BOOLEAN,
             \/ Dropped(q) \/ Logout(q) \/ PasswordRefused(q) \/ SetupDies(q)
             \/ Cancel(q) \/ CreateToken(q) \/ RevokeToken(q) \/ AddUser(q, u)
             \/ UpdateUser(q, u, r, a)
      PROVE  CodeInv'
  <2>1. /\ pendings' \subseteq pendings /\ UNCHANGED <<secret, last, recovery, ghosts>>
        /\ secrets' = secrets
    BY <1>1 DEF Dropped, Logout, PasswordRefused, SetupDies, Cancel, CreateToken,
       RevokeToken, AddUser, UpdateUser, Without, account, made
  <2>2. \A v \in Users : epoch'[v] >= epoch[v]
    BY <1>1 DEF Dropped, Logout, PasswordRefused, SetupDies, Cancel, CreateToken,
       RevokeToken, AddUser, UpdateUser, TypeOK
  <2> QED BY <2>1, <2>2, CodesKept DEF TypeOK
<1>2. ASSUME NEW q \in requests, Handle(q) PROVE CodeInv'
  BY <1>1, <1>2, CodesEnable, CodesManage, CodesSetup, AdminAssumption
     DEF Handle, Roles
<1>3. CASE Tick \/ MoveKey \/ UNCHANGED vars
  BY <1>3, CodesKept DEF Tick, MoveKey, vars, account, made, TypeOK
<1>4. ASSUME NEW b \in Browsers, NEW u \in Users,
             Login(b, u) \/ Authenticate(b) \/ AuthenticateToken(b, u)
      PROVE  CodeInv'
  BY <1>4, CodesKept DEF Login, Authenticate, AuthenticateToken, account, made, TypeOK
<1> QED BY <1>2, <1>3, <1>4, CodesVerify, AdminAssumption DEF Next

\* A code is accepted once, whatever it is sent to and however many requests
\* send it.
THEOREM CodesHold == Spec => []NoCodeWorksTwice
<1>1. Init => TypeOK /\ CodeInv
  BY TypeInit DEF Init, CodeInv
<1>2. (TypeOK /\ CodeInv) /\ [Next]_vars => (TypeOK /\ CodeInv)'
  BY TypeStep, CodesStep
<1>3. TypeOK /\ CodeInv => NoCodeWorksTwice
  BY DEF CodeInv, NoCodeWorksTwice
<1> QED BY <1>1, <1>2, <1>3, PTL DEF Spec

----------------------------------------------------------------------------
(* The pace of misses.                                                     *)

\* What the rows a of attempts and m of misses say to each other for a limit
\* l: k whole windows of attempts passed since the first miss, or since shortly
\* before it, in a window that also counts an attempt that was no miss.
Whole(a, m, l, k) ==
  m.count <= k * l + a.count /\ a.window - m.window >= k * Window
Begun(a, m, l, k) ==
  m.count + 1 <= k * l + a.count /\ a.window - m.window + Window > k * Window

\* Both rows at time t.
Paced(a, m, t, l) ==
  /\ a.count <= l /\ a.window <= t /\ m.window <= t
  /\ m.count > 0 => a.count > 0
  /\ \E k \in Nat : Whole(a, m, l, k) \/ Begun(a, m, l, k)

PaceInv ==
  \A p \in Users \X Kinds : Paced(attempts[p], misses[p], now, Limit(p[2]))

Missed(row) ==
  IF row.count = 0 THEN [count |-> 1, window |-> now]
                   ELSE [count |-> row.count + 1, window |-> row.window]

LEMMA Distributes ==
  ASSUME NEW k \in Nat, NEW x \in Nat
  PROVE  (k + 1) * x = k * x + x
OBVIOUS

LEMMA Times ==
  ASSUME NEW j \in Nat, NEW k \in Nat, NEW x \in Nat, j <= k
  PROVE  j * x <= k * x
<1>1. PICK d \in Nat : k = j + d
  <2>1. k - j \in Nat /\ k = j + (k - j)
    OBVIOUS
  <2> QED BY <2>1
<1>2. (j + d) * x = j * x + d * x
  OBVIOUS
<1>3. j * x \in Nat /\ d * x \in Nat
  OBVIOUS
<1> QED BY <1>1, <1>2, <1>3

LEMMA LimitType == \A kind \in Kinds : Limit(kind) \in Nat \ {0}
BY LimitsAssumption DEF Kinds, Limit

LEMMA WholeZero ==
  ASSUME NEW a \in AttemptRows, NEW m \in AttemptRows, NEW l \in Nat,
         m.count <= a.count, m.window <= a.window
  PROVE  Whole(a, m, l, 0)
<1>1. 0 * l = 0 /\ 0 * Window = 0
  BY LimitsAssumption
<1> QED BY <1>1 DEF Whole, AttemptRows

LEMMA BegunZero ==
  ASSUME NEW a \in AttemptRows, NEW m \in AttemptRows, NEW l \in Nat,
         m.count + 1 <= a.count, m.window < a.window + Window
  PROVE  Begun(a, m, l, 0)
<1>1. 0 * l = 0 /\ 0 * Window = 0
  BY LimitsAssumption
<1> QED BY <1>1, LimitsAssumption DEF Begun, AttemptRows

\* A new window, n being m or one miss more.
LEMMA NextWindow ==
  ASSUME NEW a \in AttemptRows, NEW m \in AttemptRows, NEW b \in AttemptRows,
         NEW n \in AttemptRows, NEW l \in Nat, NEW k \in Nat, a.count <= l,
         b.count = 1, b.window >= a.window + Window,
         n.count <= m.count + 1, n.window = m.window
  PROVE  /\ Whole(a, m, l, k) => Whole(b, n, l, k + 1)
         /\ Begun(a, m, l, k) => Begun(b, n, l, k + 1)
<1>1. (k + 1) * l = k * l + l /\ (k + 1) * Window = k * Window + Window
  BY Distributes, LimitsAssumption
<1>2. k * l \in Nat /\ k * Window \in Nat /\ Window \in Nat
  BY LimitsAssumption
<1>3. /\ a.count \in Nat /\ a.window \in Nat /\ m.count \in Nat /\ m.window \in Nat
      /\ b.window \in Nat /\ n.count \in Nat
  BY DEF AttemptRows
<1>4. Whole(a, m, l, k) => Whole(b, n, l, k + 1)
  BY <1>1, <1>2, <1>3 DEF Whole
<1>5. Begun(a, m, l, k) => Begun(b, n, l, k + 1)
  BY <1>1, <1>2, <1>3 DEF Begun
<1> QED BY <1>4, <1>5

LEMMA SameWindow ==
  ASSUME NEW a \in AttemptRows, NEW m \in AttemptRows, NEW b \in AttemptRows,
         NEW n \in AttemptRows, NEW l \in Nat, NEW k \in Nat,
         b.count = a.count + 1, b.window = a.window,
         n.count <= m.count + 1, n.window = m.window
  PROVE  /\ Whole(a, m, l, k) => Whole(b, n, l, k)
         /\ Begun(a, m, l, k) => Begun(b, n, l, k)
<1>1. k * l \in Nat /\ k * Window \in Nat
  BY LimitsAssumption
<1>2. /\ a.count \in Nat /\ a.window \in Nat /\ m.count \in Nat /\ m.window \in Nat
      /\ n.count \in Nat
  BY DEF AttemptRows
<1> QED BY <1>1, <1>2 DEF Whole, Begun

\* One more attempt, within the limit.
LEMMA PacedCount ==
  ASSUME now \in Nat, NEW a \in AttemptRows, NEW m \in AttemptRows,
         NEW l \in Nat \ {0}, Paced(a, m, now, l),
         a.count < l \/ now - a.window >= Window,
         NEW n \in {m, Missed(m)}
  PROVE  Paced(Counted(a), n, now, l)
<1> DEFINE b == Counted(a)
<1>1. b \in AttemptRows /\ n \in AttemptRows
  BY CountedType DEF AttemptRows, Missed
<1>2. a.count <= l /\ a.window <= now /\ m.window <= now /\ (m.count > 0 => a.count > 0)
  BY DEF Paced
<1>3. n.window <= now /\ n.count <= m.count + 1 /\ (m.count # 0 => n.window = m.window)
  BY <1>2 DEF Missed, AttemptRows
<1>4. b.count <= l /\ b.window <= now /\ b.count > 0
  BY <1>2 DEF Counted, AttemptRows
<1>5. PICK k \in Nat : Whole(a, m, l, k) \/ Begun(a, m, l, k)
  BY DEF Paced
<1>6. \E j \in Nat : Whole(b, n, l, j) \/ Begun(b, n, l, j)
  <2>1. CASE a.count = 0 \/ now - a.window >= Window
    <3>1. b.count = 1 /\ b.window = now
      BY <2>1 DEF Counted
    <3>2. CASE m.count = 0
      <4>1. Whole(b, n, l, 0)
        BY <1>1, <1>3, <3>1, <3>2, WholeZero
      <4> QED BY <4>1
    <3>3. CASE m.count # 0
      <4>1. b.window >= a.window + Window
        BY <1>2, <2>1, <3>1, <3>3, LimitsAssumption DEF AttemptRows
      <4>2. k + 1 \in Nat /\ l \in Nat /\ n.window = m.window
        BY <1>3, <3>3
      <4>3. Whole(b, n, l, k + 1) \/ Begun(b, n, l, k + 1)
        BY <1>1, <1>2, <1>3, <1>5, <3>1, <4>1, <4>2, NextWindow
      <4> QED BY <4>2, <4>3
    <3> QED BY <3>2, <3>3
  <2>2. CASE ~(a.count = 0 \/ now - a.window >= Window)
    <3>1. b.count = a.count + 1 /\ b.window = a.window
      BY <2>2 DEF Counted
    <3>2. CASE n.window = m.window
      <4>1. Whole(b, n, l, k) \/ Begun(b, n, l, k)
        BY <1>1, <1>3, <1>5, <3>1, <3>2, SameWindow
      <4> QED BY <4>1
    <3>3. CASE n.window # m.window
      <4>1. n.count = 1 /\ n.window = now
        BY <3>3 DEF Missed
      <4>2. n.count + 1 <= b.count /\ n.window < b.window + Window
        BY <2>2, <3>1, <4>1, LimitsAssumption DEF AttemptRows
      <4>3. Begun(b, n, l, 0)
        BY <1>1, <4>2, BegunZero
      <4> QED BY <4>3
    <3> QED BY <3>2, <3>3
  <2> QED BY <2>1, <2>2
<1> HIDE DEF b
<1>7. Paced(b, n, now, l)
  BY <1>2, <1>3, <1>4, <1>6 DEF Paced
<1> QED BY <1>7 DEF b

\* Time passes.
LEMMA PacedLater ==
  ASSUME NEW a \in AttemptRows, NEW m \in AttemptRows, NEW l \in Nat,
         NEW s \in Nat, NEW t \in Nat, s <= t, Paced(a, m, s, l)
  PROVE  Paced(a, m, t, l)
BY DEF Paced, AttemptRows

LEMMA PacedNone ==
  ASSUME NEW t \in Nat, NEW l \in Nat \ {0}
  PROVE  Paced(NoAttempts, NoAttempts, t, l)
<1>1. Whole(NoAttempts, NoAttempts, l, 0)
  BY NoAttemptsType, WholeZero DEF NoAttempts
<1> QED BY <1>1 DEF Paced, NoAttempts

\* The bound on misses is what the rows say.
LEMMA PaceBound == TypeOK /\ PaceInv => MissesBounded
<1> SUFFICES ASSUME TypeOK, PaceInv, NEW p \in Users \X Kinds, NEW n \in 1..now + 1,
                    now - misses[p].window < n * Window
             PROVE  misses[p].count < (n + 1) * Limit(p[2])
  BY DEF MissesBounded
<1> DEFINE a == attempts[p]  m == misses[p]  l == Limit(p[2])
<1>1. /\ a \in AttemptRows /\ m \in AttemptRows /\ l \in Nat \ {0}
      /\ Paced(a, m, now, l) /\ now \in Nat /\ n \in Nat /\ n > 0
      /\ Window \in Nat \ {0} /\ now - m.window < n * Window
  BY LimitType, LimitsAssumption DEF PaceInv, TypeOK
<1> HIDE DEF a, m, l
<1>2. /\ a.count \in Nat /\ a.window \in Nat /\ m.count \in Nat /\ m.window \in Nat
      /\ a.count <= l /\ a.window <= now
  BY <1>1 DEF AttemptRows, Paced
<1>3. (n + 1) * l = n * l + l
  BY <1>1, Distributes
<1>4. ASSUME NEW k \in Nat, Whole(a, m, l, k)
      PROVE  m.count < (n + 1) * l
  <2> USE DEF Whole
  <2>1. k * Window < n * Window
    <3>1. k * Window \in Nat /\ n * Window \in Nat
      BY <1>1
    <3> QED BY <1>1, <1>2, <1>4, <3>1
  <2>2. k <= n
    <3>1. SUFFICES ASSUME k > n PROVE FALSE
      BY <1>1
    <3>2. n * Window <= k * Window
      BY <1>1, <3>1, Times
    <3>3. k * Window \in Nat /\ n * Window \in Nat
      BY <1>1
    <3> QED BY <2>1, <3>2, <3>3
  <2>3. k # n
    <3>1. SUFFICES ASSUME k = n PROVE FALSE
      OBVIOUS
    <3>2. k * Window = n * Window /\ n * Window \in Nat
      BY <1>1, <3>1
    <3> QED BY <2>1, <3>2
  <2>4. (k + 1) * l <= n * l /\ (k + 1) * l = k * l + l
    BY <1>1, <2>2, <2>3, Times, Distributes
  <2>5. k * l \in Nat /\ n * l \in Nat
    BY <1>1
  <2> QED BY <1>1, <1>2, <1>3, <1>4, <2>4, <2>5
<1>5. ASSUME NEW k \in Nat, Begun(a, m, l, k)
      PROVE  m.count < (n + 1) * l
  <2> USE DEF Begun
  <2>1. k * Window < (n + 1) * Window
    <3>1. k * Window \in Nat /\ n * Window \in Nat
      BY <1>1
    <3>2. (n + 1) * Window = n * Window + Window
      BY <1>1, Distributes
    <3> QED BY <1>1, <1>2, <1>5, <3>1, <3>2
  <2>2. k <= n
    <3>1. SUFFICES ASSUME k > n PROVE FALSE
      BY <1>1
    <3>2. (n + 1) * Window <= k * Window
      BY <1>1, <3>1, Times
    <3>3. k * Window \in Nat /\ (n + 1) * Window \in Nat
      BY <1>1
    <3> QED BY <2>1, <3>2, <3>3
  <2>3. k * l <= n * l
    BY <1>1, <2>2, Times
  <2>4. k * l \in Nat /\ n * l \in Nat
    BY <1>1
  <2> QED BY <1>1, <1>2, <1>3, <1>5, <2>3, <2>4
<1>6. m.count < (n + 1) * l
  BY <1>1, <1>4, <1>5 DEF Paced
<1> QED BY <1>6 DEF m, l

\* What a step does to the two rows of an account and a kind.
RowStep(p) ==
  \/ attempts'[p] = attempts[p] /\ misses'[p] = misses[p]
  \/ attempts'[p] = NoAttempts /\ misses'[p] = NoAttempts
  \/ /\ ~Throttled(p[1], p[2])
     /\ attempts'[p] = Counted(attempts[p])
     /\ misses'[p] \in {misses[p], Missed(misses[p])}

LEMMA PaceKept ==
  ASSUME TypeOK, PaceInv, UNCHANGED now, \A p \in Users \X Kinds : RowStep(p)
  PROVE  PaceInv'
<1> SUFFICES ASSUME NEW p \in Users \X Kinds
             PROVE  Paced(attempts'[p], misses'[p], now, Limit(p[2]))
  BY DEF PaceInv
<1>1. /\ attempts[p] \in AttemptRows /\ misses[p] \in AttemptRows /\ now \in Nat
      /\ Limit(p[2]) \in Nat \ {0} /\ Paced(attempts[p], misses[p], now, Limit(p[2]))
  BY LimitType DEF TypeOK, PaceInv
<1>2. CASE attempts'[p] = attempts[p] /\ misses'[p] = misses[p]
  BY <1>1, <1>2
<1>3. CASE attempts'[p] = NoAttempts /\ misses'[p] = NoAttempts
  BY <1>1, <1>3, PacedNone
<1>4. CASE /\ ~Throttled(p[1], p[2])
           /\ attempts'[p] = Counted(attempts[p])
           /\ misses'[p] \in {misses[p], Missed(misses[p])}
  <2>1. p = <<p[1], p[2]>>
    OBVIOUS
  <2>2. attempts[p].count < Limit(p[2]) \/ now - attempts[p].window >= Window
    BY <1>1, <1>4, <2>1, LimitsAssumption DEF Throttled, AttemptRows
  <2> QED BY <1>1, <1>4, <2>2, PacedCount
<1> QED BY <1>2, <1>3, <1>4 DEF RowStep

LEMMA PaceSame ==
  ASSUME TypeOK, PaceInv, UNCHANGED <<now, attempts, misses>>
  PROVE  PaceInv'
BY PaceKept DEF RowStep

LEMMA PaceClear ==
  ASSUME TypeOK, PaceInv, NEW u, NEW kinds, Clear(u, kinds), UNCHANGED now
  PROVE  PaceInv'
<1>1. ASSUME NEW p \in Users \X Kinds PROVE RowStep(p)
  BY DEF Clear, Cleared, RowStep
<1> QED BY <1>1, PaceKept

\* An attempt counted for kinds that are not throttled, and the miss it was.
LEMMA PaceMiss ==
  ASSUME TypeOK, PaceInv, NEW u \in Users, NEW kinds \in SUBSET Kinds,
         NEW kind \in kinds, \A k \in kinds : ~Throttled(u, k),
         Count(u, kinds), Miss(u, kind) \/ UNCHANGED misses, UNCHANGED now
  PROVE  PaceInv'
<1>1. ASSUME NEW p \in Users \X Kinds PROVE RowStep(p)
  <2>1. p = <<p[1], p[2]>>
    OBVIOUS
  <2>2. misses'[p] = misses[p] \/ (p = <<u, kind>> /\ misses'[p] = Missed(misses[p]))
    BY <2>1 DEF Miss, Missed, TypeOK
  <2>3. CASE p[1] = u /\ p[2] \in kinds
    BY <2>2, <2>3 DEF Count, RowStep
  <2>4. CASE ~(p[1] = u /\ p[2] \in kinds)
    <3>1. p # <<u, kind>>
      BY <2>4
    <3> QED BY <2>2, <2>4, <3>1 DEF Count, RowStep
  <2> QED BY <2>3, <2>4
<1> QED BY <1>1, PaceKept

LEMMA PaceLogin ==
  ASSUME TypeOK, PaceInv, NEW b \in Browsers, NEW u \in Users, Login(b, u)
  PROVE  PaceInv'
<1>1. UNCHANGED now /\ ~Throttled(u, "login")
  BY DEF Login
<1>2. CASE LoginRefused(u)
  <2>1. {"login"} \in SUBSET Kinds /\ "login" \in {"login"}
    BY DEF Kinds
  <2> QED BY <1>1, <1>2, <2>1, PaceMiss DEF LoginRefused
<1>3. CASE LoginIssues(b, u) \/ LoginChallenges(b, u)
  BY <1>1, <1>3, PaceClear DEF LoginIssues, LoginChallenges
<1> QED BY <1>2, <1>3 DEF Login

LEMMA PaceVerify ==
  ASSUME TypeOK, PaceInv, NEW b \in Browsers, Verify(b)
  PROVE  PaceInv'
<1>0. PICK c \in ChallengeOf(b) : \E code \in Submitted(c.user, secret[c.user]) :
        /\ ~Throttled(c.user, "mfa")
        /\ VerifyRefused(c.user, code) \/ VerifyAccepted(b, c, code)
  BY DEF Verify
<1>1. PICK code \in Submitted(c.user, secret[c.user]) :
        /\ ~Throttled(c.user, "mfa")
        /\ VerifyRefused(c.user, code) \/ VerifyAccepted(b, c, code)
  BY <1>0
<1>2. UNCHANGED now /\ c.user \in Users
  BY DEF Verify, ChallengeOf, Unexpired, Challenges, TypeOK
<1>3. CASE VerifyRefused(c.user, code)
  <2>1. {"mfa"} \in SUBSET Kinds /\ "mfa" \in {"mfa"}
    BY DEF Kinds
  <2> QED BY <1>1, <1>2, <1>3, <2>1, PaceMiss DEF VerifyRefused
<1>4. CASE VerifyAccepted(b, c, code)
  BY <1>2, <1>4, PaceClear DEF VerifyAccepted
<1> QED BY <1>1, <1>3, <1>4

LEMMA PaceHandle ==
  ASSUME TypeOK, PaceInv, NEW q \in requests,
         \/ PasswordRefused(q) \/ Setup(q) \/ Enable(q) \/ Manage(q)
  PROVE  PaceInv'
<1>1. /\ {"manage"} \in SUBSET Kinds /\ "manage" \in {"manage"}
      /\ {"mfa"} \in SUBSET Kinds /\ "mfa" \in {"mfa"}
      /\ {"manage", "mfa"} \in SUBSET Kinds /\ "mfa" \in {"manage", "mfa"}
      /\ q.user \in Users
  BY RequestType DEF Kinds
<1>2. CASE PasswordRefused(q)
  BY <1>1, <1>2, PaceMiss DEF PasswordRefused
<1>3. CASE Setup(q)
  BY <1>1, <1>3, PaceMiss DEF Setup, MaySetUp
<1>4. CASE Enable(q)
  <2>1. UNCHANGED now /\ ~Throttled(q.user, "mfa")
    BY <1>4 DEF Enable
  <2>2. PICK p, c : EnableRefused(q, p, c) \/ EnableAccepted(q, p, c)
    BY <1>4 DEF Enable
  <2>3. CASE EnableRefused(q, p, c)
    BY <1>1, <2>1, <2>3, PaceMiss DEF EnableRefused
  <2>4. CASE EnableAccepted(q, p, c)
    BY <2>1, <2>4, PaceClear DEF EnableAccepted, Renew
  <2> QED BY <2>2, <2>3, <2>4
<1>5. CASE Manage(q)
  <2>1. UNCHANGED now /\ ~Throttled(q.user, "manage") /\ ~Throttled(q.user, "mfa")
    BY <1>5 DEF Manage
  <2>2. PICK c : ProofRefused(q, c) \/ Regenerate(q, c) \/ Disable(q, c)
    BY <1>5 DEF Manage
  <2>3. CASE ProofRefused(q, c)
    BY <1>1, <2>1, <2>3, PaceMiss DEF ProofRefused
  <2>4. CASE Regenerate(q, c) \/ Disable(q, c)
    BY <2>1, <2>4, PaceClear DEF Regenerate, Disable, Renew
  <2> QED BY <2>2, <2>3, <2>4
<1> QED BY <1>2, <1>3, <1>4, <1>5

LEMMA PaceTick ==
  ASSUME TypeOK, PaceInv, Tick
  PROVE  PaceInv'
<1> SUFFICES ASSUME NEW p \in Users \X Kinds
             PROVE  Paced(attempts'[p], misses'[p], now', Limit(p[2]))
  BY DEF PaceInv
<1>1. /\ attempts[p] \in AttemptRows /\ misses[p] \in AttemptRows
      /\ now \in Nat /\ now' \in Nat /\ now <= now' /\ Limit(p[2]) \in Nat
      /\ UNCHANGED <<attempts, misses>>
  BY LimitType DEF Tick, TypeOK
<1> QED BY <1>1, PacedLater DEF PaceInv

LEMMA PaceStep == TypeOK /\ PaceInv /\ [Next]_vars => PaceInv'
<1> SUFFICES ASSUME TypeOK, PaceInv, [Next]_vars PROVE PaceInv'
  OBVIOUS
<1>1. ASSUME NEW q \in requests, NEW u \in Users, NEW r \in Roles,
             NEW a \in BOOLEAN,
             \/ Dropped(q) \/ Logout(q) \/ SetupDies(q) \/ Cancel(q)
             \/ CreateToken(q) \/ RevokeToken(q) \/ AddUser(q, u)
             \/ UpdateUser(q, u, r, a)
      PROVE  PaceInv'
  <2>1. UNCHANGED <<now, attempts, misses>>
    BY <1>1 DEF Dropped, Logout, SetupDies, Cancel, CreateToken, RevokeToken,
       AddUser, UpdateUser
  <2> QED BY <2>1, PaceSame
<1>2. ASSUME NEW q \in requests, Handle(q) PROVE PaceInv'
  BY <1>1, <1>2, PaceHandle, AdminAssumption DEF Handle, Roles
<1>3. CASE MoveKey \/ UNCHANGED vars
  BY <1>3, PaceSame DEF MoveKey, vars
<1>4. ASSUME NEW b \in Browsers, NEW u \in Users,
             Authenticate(b) \/ AuthenticateToken(b, u)
      PROVE  PaceInv'
  BY <1>4, PaceSame DEF Authenticate, AuthenticateToken
<1> QED BY <1>2, <1>3, <1>4, PaceLogin, PaceVerify, PaceTick, AdminAssumption
        DEF Next

\* No more than Limit wrong passwords or codes per window reach an account,
\* but for the window that had begun before the first of them.
THEOREM MissesHold == Spec => []MissesBounded
<1>1. Init => TypeOK /\ PaceInv
  <2>1. Init => PaceInv
    BY LimitType, PacedNone DEF Init, PaceInv
  <2> QED BY <2>1, TypeInit
<1>2. (TypeOK /\ PaceInv) /\ [Next]_vars => (TypeOK /\ PaceInv)'
  BY TypeStep, PaceStep
<1>3. TypeOK /\ PaceInv => MissesBounded
  BY PaceBound
<1> QED BY <1>1, <1>2, <1>3, PTL DEF Spec
=============================================================================
