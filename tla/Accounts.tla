------------------------------- MODULE Accounts -------------------------------
(***************************************************************************)
(* Accounts of the workspace (backend/investigation/auth.py, mfa.py,       *)
(* tokens.py and the /auth and /users routes of api.py): passwords, the    *)
(* optional second factor with its enrolment, challenges, recovery codes   *)
(* and encryption key, sessions, API tokens, and the records that limit    *)
(* attempts.                                                               *)
(*                                                                         *)
(* A request is authenticated in a transaction of its own (require_user);  *)
(* its handler runs in a later one.  In between, the account may be        *)
(* changed, disabled or signed out by another request, which is why the    *)
(* handlers of mfa.py look the session up again under the write lock.      *)
(*                                                                         *)
(* Time is counted in TOTP steps of 30 seconds.  Tables are sets of rows.  *)
(* A code names what produced it (a secret and a step, or a batch of       *)
(* recovery codes and a number in it): equal digits by chance are left     *)
(* out, and so are the limit of 300 requests per minute and a key given in *)
(* the environment.                                                        *)
(***************************************************************************)
EXTENDS Integers

CONSTANTS
  Users,          \* accounts that exist or may be added
  Admin,          \* the account made by create_admin
  Browsers,       \* cookie jars
  None,           \* no cookie
  RecoveryCodes,  \* size of a batch: 10
  SessionLife, ChallengeLife, PendingLife,  \* 28,800, 300 and 600 seconds
  Window,                                   \* 900 seconds
  LoginLimit, ManageLimit, FactorLimit,     \* 10, 5 and 5 attempts
  MaxNow, MaxRequests, MaxSessions, MaxSecrets, MaxKeys, MaxRevocations, MaxMisses  \* bounds

ASSUME AdminAssumption == Admin \in Users
ASSUME NoneAssumption == None \notin Users
ASSUME LivesAssumption ==
  /\ SessionLife \in Nat /\ ChallengeLife \in Nat /\ PendingLife \in Nat
  /\ RecoveryCodes \in Nat
ASSUME LimitsAssumption ==
  /\ Window \in Nat \ {0}
  /\ LoginLimit \in Nat \ {0} /\ ManageLimit \in Nat \ {0}
  /\ FactorLimit \in Nat \ {0}
ASSUME BoundsAssumption ==
  /\ MaxNow \in Nat /\ MaxRequests \in Nat /\ MaxSessions \in Nat
  /\ MaxSecrets \in Nat
  /\ MaxKeys \in Nat /\ MaxRevocations \in Nat /\ MaxMisses \in Nat

VARIABLES
  now,         \* int(time.time()) // 30
  users,       \* accounts with a row in users, and four of its columns:
  role, active, secret, last,
  recovery,    \* mfa_recovery: the unused codes of each account
  sessions, challenges, pendings,  \* sessions, mfa_challenges, mfa_pending
  apiTokens,   \* api_tokens: for each account, when its tokens were written
  attempts,    \* login_attempts, by account and kind
  cookie,      \* eml_session of each browser
  mfaCookie,   \* eml_mfa of each browser: the account it was begun for
  requests,    \* what require_user returned to the handlers under way
  key,         \* the file .mfa.key
  served, issued, secrets, keys,  \* authenticated requests, and the session
               \* tokens, secrets and keys generated so far
  epoch,       \* history: how often revoke_auth ran for the account
  spent,       \* history: the codes accepted for the account
  reused,      \* history: those accepted again
  misses       \* history: what was refused since the last success

account == <<users, role, active, secret, last, recovery>>
made == <<issued, secrets, keys>>
ghosts == <<spent, reused>>
vars == <<now, account, sessions, challenges, pendings, apiTokens, attempts,
          cookie, mfaCookie, requests, served, key, made, epoch, ghosts, misses>>

Roles == {"admin", "analyst", "viewer"}
Kinds == {"login", "manage", "mfa"}
Limit(kind) == CASE kind = "login" -> LoginLimit
                 [] kind = "manage" -> ManageLimit
                 [] kind = "mfa" -> FactorLimit

NoKey == 0
TornKey == 1   \* created, and nothing written into it
NoToken == 0   \* no cookie
NoSecret == [id |-> 0, key |-> NoKey]
Secrets == [id : Nat, key : Nat]
Codes == [kind : {"totp", "recovery", "other"}, from : Nat, n : Int]
TotpCode(s, step) == [kind |-> "totp", from |-> s.id, n |-> step]
Batch(number) ==
  {[kind |-> "recovery", from |-> number, n |-> i] : i \in 1..RecoveryCodes}
WrongCode == [kind |-> "other", from |-> 0, n |-> 0]

\* factor: history, whether a second factor was asked for; epoch: the
\* revocations that had happened when what grants the row was checked.
Sessions == [token : Nat, user : Users, expires : Nat, epoch : Nat,
             factor : BOOLEAN]
Challenges == [user : Users, browser : Browsers, expires : Nat, epoch : Nat]
Pendings == [user : Users, secret : Secrets, token : Nat, expires : Nat,
             epoch : Nat]
AuthenticatedRequests ==
  [id : Nat, browser : Browsers, user : Users, role : Roles,
   token : Nat, epoch : Nat]

AttemptRows == [count : Nat, window : Nat]
NoAttempts == [count |-> 0, window |-> 0]

Init ==
  /\ now = 1
  /\ users = {Admin}
  /\ role = [u \in Users |-> IF u = Admin THEN "admin" ELSE "analyst"]
  /\ active = [u \in Users |-> TRUE]
  /\ secret = [u \in Users |-> NoSecret]
  /\ last = [u \in Users |-> -1]
  /\ recovery = [u \in Users |-> {}]
  /\ sessions = {} /\ challenges = {} /\ pendings = {}
  /\ apiTokens = [u \in Users |-> {}]
  /\ attempts = [p \in Users \X Kinds |-> NoAttempts]
  /\ cookie = [b \in Browsers |-> NoToken]
  /\ mfaCookie = [b \in Browsers |-> None]
  /\ requests = {}
  /\ key = NoKey
  /\ served = 0 /\ issued = 0 /\ secrets = 0 /\ keys = TornKey
  /\ epoch = [u \in Users |-> 0]
  /\ spent = [u \in Users |-> {}]
  /\ reused = {}
  /\ misses = [p \in Users \X Kinds |-> NoAttempts]

----------------------------------------------------------------------------
(* Attempts.                                                               *)

Throttled(u, kind) ==
  /\ attempts[<<u, kind>>].count >= Limit(kind)
  /\ now - attempts[<<u, kind>>].window < Window

\* throttle, when it does not refuse.
Counted(row) ==
  IF row.count = 0 \/ now - row.window >= Window
  THEN [count |-> 1, window |-> now]
  ELSE [count |-> row.count + 1, window |-> row.window]

Count(u, kinds) ==
  attempts' = [p \in Users \X Kinds |->
                 IF p[1] = u /\ p[2] \in kinds THEN Counted(attempts[p])
                                               ELSE attempts[p]]
Cleared(rows, u, kinds) ==
  [p \in Users \X Kinds |->
     IF p[1] = u /\ p[2] \in kinds THEN NoAttempts ELSE rows[p]]

\* DELETE FROM login_attempts, in login and in clear_attempts.
Clear(u, kinds) ==
  /\ attempts' = Cleared(attempts, u, kinds)
  /\ misses' = Cleared(misses, u, kinds)

Miss(u, kind) ==
  /\ misses[<<u, "login">>].count + misses[<<u, "manage">>].count
       + misses[<<u, "mfa">>].count < MaxMisses
  /\ misses' =
       [misses EXCEPT ![<<u, kind>>] =
          IF @.count = 0 THEN [count |-> 1, window |-> now]
                         ELSE [count |-> @.count + 1, window |-> @.window]]

----------------------------------------------------------------------------
(* Second factors.                                                         *)

\* A faulty match_step, with no regard for the last step accepted.
MatchAnyStep(s, after) == {TotpCode(s, step) : step \in now - 1 .. now + 1}

\* match_step: the steps around now that are later than the last accepted.
MatchStep(s, after) ==
  {TotpCode(s, step) : step \in {n \in now - 1 .. now + 1 : n > after}}

\* decrypt; fails (503, all rolled back) with another key or none.
Decrypts(s) == key = s.key /\ key > TornKey

\* consume_factor: a recovery code needs no key.
Accepts(u, code) ==
  \/ code \in recovery[u]
  \/ Decrypts(secret[u]) /\ code \in MatchStep(secret[u], last[u])
Refuses(u, code) ==
  /\ code \notin recovery[u]
  /\ Decrypts(secret[u])
  /\ code \notin MatchStep(secret[u], last[u])
LastAfter(u, code) == IF code \in recovery[u] THEN last[u] ELSE code.n

\* What clients submit: a code of the moment, a used one, a recovery code.
Submitted(u, s) ==
  {WrongCode} \cup spent[u] \cup recovery[u]
    \cup {TotpCode(s, step) : step \in now - 1 .. now + 1}

Spend(u, code) ==
  /\ spent' = [spent EXCEPT ![u] = @ \cup {code}]
  /\ reused' = reused \cup ({code} \cap spent[u])

\* A faulty cipher, which makes a key whenever there is none.
KeyOnDemand == IF key = NoKey THEN keys + 1 ELSE key

\* cipher: the key that is used, made now if nothing needs an older one.
CipherKey ==
  IF /\ key = NoKey
     /\ pendings = {}
     /\ \A u \in users : secret[u] = NoSecret
  THEN keys + 1 ELSE key

----------------------------------------------------------------------------
(* Sessions.                                                               *)

Without(rows, u) == {r \in rows : r.user # u}
Unexpired(rows) == {r \in rows : r.expires > now}

NewSession(u, e, factor) ==
  [token |-> issued + 1, user |-> u, expires |-> now + SessionLife,
   epoch |-> e, factor |-> factor]

\* issue_session, on the rows kept.
IssueSession(kept, u, b, e, factor) ==
  /\ issued < MaxSessions
  /\ issued' = issued + 1
  /\ sessions' = Unexpired(kept) \cup {NewSession(u, e, factor)}
  /\ cookie' = [cookie EXCEPT ![b] = issued + 1]

\* require_user, for a cookie.
Authenticate(b) ==
  /\ served < MaxRequests /\ served' = served + 1
  /\ \E s \in sessions :
       /\ s.token = cookie[b] /\ s.expires > now
       /\ active[s.user]
       /\ requests' = requests \cup
            {[id |-> served + 1, browser |-> b, user |-> s.user, role |-> role[s.user],
              token |-> s.token, epoch |-> s.epoch]}
  /\ UNCHANGED <<now, account, sessions, challenges, pendings, apiTokens,
                 attempts, cookie, mfaCookie, key, made, epoch,
                 ghosts, misses>>

\* require_user, for the header of an API token: no cookie comes with it.
AuthenticateToken(b, u) ==
  /\ served < MaxRequests /\ served' = served + 1
  /\ apiTokens[u] # {} /\ active[u]
  /\ requests' = requests \cup
       {[id |-> served + 1, browser |-> b, user |-> u, role |-> role[u],
         token |-> NoToken, epoch |-> epoch[u]]}
  /\ UNCHANGED <<now, account, sessions, challenges, pendings, apiTokens,
                 attempts, cookie, mfaCookie, key, made, epoch,
                 ghosts, misses>>

\* A faulty current_user, which trusts what require_user saw.
CurrentAccount(q) == active[q.user] /\ q.token # NoToken

\* current_user, under the write lock.
CurrentUser(q) ==
  /\ active[q.user]
  /\ \E s \in sessions :
       s.token = q.token /\ s.user = q.user /\ s.expires > now

Answered(q) == requests' = requests \ {q} /\ UNCHANGED served

\* A request that is refused before any write, or whose process dies: the
\* transaction is rolled back.
Dropped(q) ==
  /\ Answered(q)
  /\ UNCHANGED <<now, account, sessions, challenges, pendings, apiTokens,
                 attempts, cookie, mfaCookie, key, made, epoch,
                 ghosts, misses>>

----------------------------------------------------------------------------
(* Signing in and out.                                                     *)

\* A wrong password or a disabled account: the attempt is committed.
LoginRefused(u) ==
  /\ Count(u, {"login"})
  /\ Miss(u, "login")
  /\ UNCHANGED <<sessions, challenges, cookie, mfaCookie, issued>>

LoginIssues(b, u) ==
  /\ u \in users /\ active[u] /\ secret[u] = NoSecret
  /\ Clear(u, {"login"})
  /\ IssueSession(sessions, u, b, epoch[u], FALSE)
  /\ UNCHANGED <<challenges, mfaCookie>>

\* A faulty begin_challenge, which forgives refused codes.
LoginForgives(b, u) ==
  /\ u \in users /\ active[u] /\ secret[u] # NoSecret
  /\ attempts' = Cleared(attempts, u, {"login", "mfa"})
  /\ misses' = Cleared(misses, u, {"login"})
  /\ challenges' = Unexpired(Without(challenges, u)) \cup
       {[user |-> u, browser |-> b, expires |-> now + ChallengeLife,
         epoch |-> epoch[u]]}
  /\ sessions' = {s \in sessions : s.token # cookie[b]}
  /\ cookie' = [cookie EXCEPT ![b] = NoToken]
  /\ mfaCookie' = [mfaCookie EXCEPT ![b] = u]
  /\ UNCHANGED issued

\* begin_challenge: one for the account, and this browser's session ends.
LoginChallenges(b, u) ==
  /\ u \in users /\ active[u] /\ secret[u] # NoSecret
  /\ Clear(u, {"login"})
  /\ challenges' = Unexpired(Without(challenges, u)) \cup
       {[user |-> u, browser |-> b, expires |-> now + ChallengeLife,
         epoch |-> epoch[u]]}
  /\ sessions' = {s \in sessions : s.token # cookie[b]}
  /\ cookie' = [cookie EXCEPT ![b] = NoToken]
  /\ mfaCookie' = [mfaCookie EXCEPT ![b] = u]
  /\ UNCHANGED issued

Login(b, u) ==
  /\ ~Throttled(u, "login")
  /\ LoginRefused(u) \/ LoginIssues(b, u) \/ LoginChallenges(b, u)
  /\ UNCHANGED <<now, account, pendings, apiTokens, requests, served, key,
                 secrets, keys, epoch, ghosts>>

\* The challenge the cookie of browser b names.
ChallengeOf(b) ==
  {c \in Unexpired(challenges) : c.browser = b /\ c.user = mfaCookie[b]}

VerifyRefused(u, code) ==
  /\ Refuses(u, code)
  /\ Count(u, {"mfa"})
  /\ Miss(u, "mfa")
  /\ UNCHANGED <<last, recovery, sessions, challenges, cookie, mfaCookie,
                 issued, ghosts>>

VerifyAccepted(b, c, code) ==
  /\ Accepts(c.user, code)
  /\ last' = [last EXCEPT ![c.user] = LastAfter(c.user, code)]
  /\ recovery' = [recovery EXCEPT ![c.user] = @ \ {code}]
  /\ Spend(c.user, code)
  /\ challenges' = Without(challenges, c.user)
  /\ Clear(c.user, {"manage", "mfa"})
  /\ IssueSession(sessions, c.user, b, c.epoch, TRUE)
  /\ mfaCookie' = [mfaCookie EXCEPT ![b] = None]

Verify(b) ==
  /\ \E c \in ChallengeOf(b) :
       /\ active[c.user] /\ secret[c.user] # NoSecret
       /\ ~Throttled(c.user, "mfa")
       /\ \E code \in Submitted(c.user, secret[c.user]) :
            VerifyRefused(c.user, code) \/ VerifyAccepted(b, c, code)
  /\ UNCHANGED <<now, users, role, active, secret, pendings, apiTokens,
                 requests, served, key, secrets, keys, epoch>>

Logout(q) ==
  /\ Answered(q)
  /\ sessions' = {s \in sessions : s.token # q.token}
  /\ cookie' = [cookie EXCEPT ![q.browser] =
                  IF q.token = NoToken THEN @ ELSE NoToken]
  /\ UNCHANGED <<now, account, challenges, pendings, apiTokens, attempts,
                 mfaCookie, key, made, epoch, ghosts, misses>>

----------------------------------------------------------------------------
(* Enrolling and managing the second factor.                               *)

\* check_password in setup, and in check_proof before all else.
PasswordRefused(q) ==
  /\ CurrentUser(q)
  /\ ~Throttled(q.user, "manage")
  /\ Count(q.user, {"manage"})
  /\ Miss(q.user, "manage")
  /\ Answered(q)
  /\ UNCHANGED <<now, account, sessions, challenges, pendings, apiTokens,
                 cookie, mfaCookie, key, made, epoch, ghosts>>

MaySetUp(q) ==
  /\ CurrentUser(q)
  /\ secret[q.user] = NoSecret
  /\ ~Throttled(q.user, "manage")

\* The password was right: the attempt stays counted.
Setup(q) ==
  /\ MaySetUp(q)
  /\ CipherKey > TornKey
  /\ secrets < MaxSecrets
  /\ Count(q.user, {"manage"})
  /\ key' = CipherKey
  /\ keys' = IF key = CipherKey THEN keys ELSE CipherKey
  /\ secrets' = secrets + 1
  /\ pendings' = Unexpired(Without(pendings, q.user)) \cup
       {[user |-> q.user, secret |-> [id |-> secrets + 1, key |-> CipherKey],
         token |-> q.token, expires |-> now + PendingLife, epoch |-> q.epoch]}
  /\ Answered(q)
  /\ UNCHANGED <<now, account, sessions, challenges, apiTokens, cookie,
                 mfaCookie, issued, epoch, ghosts, misses>>

\* The process dies in setup: the transaction is rolled back, not the file.
SetupDies(q) ==
  /\ MaySetUp(q)
  /\ key = NoKey /\ CipherKey # key
  /\ keys < MaxKeys
  /\ key' \in {TornKey, CipherKey}
  /\ keys' = IF key' = TornKey THEN keys ELSE key'
  /\ Answered(q)
  /\ UNCHANGED <<now, account, sessions, challenges, pendings, apiTokens,
                 attempts, cookie, mfaCookie, issued, secrets, epoch, ghosts, misses>>

\* A faulty enable, regenerate or disable, which keeps the other sessions.
RenewAndKeep(q) ==
  /\ epoch[q.user] < MaxRevocations
  /\ UNCHANGED epoch
  /\ challenges' = Without(challenges, q.user)
  /\ pendings' = Without(pendings, q.user)
  /\ apiTokens' = [apiTokens EXCEPT ![q.user] = {}]
  /\ Clear(q.user, {"manage", "mfa"})
  /\ IssueSession(sessions, q.user, q.browser, q.epoch, TRUE)

\* revoke_auth, clear_attempts and issue_session at the end of enable,
\* regenerate and disable.
Renew(q) ==
  /\ epoch[q.user] < MaxRevocations
  /\ epoch' = [epoch EXCEPT ![q.user] = @ + 1]
  /\ challenges' = Without(challenges, q.user)
  /\ pendings' = Without(pendings, q.user)
  /\ apiTokens' = [apiTokens EXCEPT ![q.user] = {}]
  /\ Clear(q.user, {"manage", "mfa"})
  /\ IssueSession(Without(sessions, q.user), q.user, q.browser, q.epoch + 1,
                  TRUE)

PendingOf(q) ==
  {p \in Unexpired(pendings) : p.user = q.user /\ p.token = q.token}

EnableRefused(q, p, code) ==
  /\ code \notin MatchStep(p.secret, -1)
  /\ Count(q.user, {"mfa"})
  /\ Miss(q.user, "mfa")
  /\ UNCHANGED <<secret, last, recovery, sessions, challenges, pendings,
                 apiTokens, cookie, issued, epoch, ghosts>>

EnableAccepted(q, p, code) ==
  /\ code \in MatchStep(p.secret, -1)
  /\ secret' = [secret EXCEPT ![q.user] = p.secret]
  /\ last' = [last EXCEPT ![q.user] = code.n]
  /\ recovery' = [recovery EXCEPT ![q.user] = Batch(epoch[q.user] + 1)]
  /\ Spend(q.user, code)
  /\ Renew(q)

Enable(q) ==
  /\ CurrentUser(q)
  /\ secret[q.user] = NoSecret
  /\ ~Throttled(q.user, "mfa")
  /\ \E p \in PendingOf(q) :
       /\ Decrypts(p.secret)
       /\ \E code \in Submitted(q.user, p.secret) :
            EnableRefused(q, p, code) \/ EnableAccepted(q, p, code)
  /\ Answered(q)
  /\ UNCHANGED <<now, users, role, active, mfaCookie, key, secrets, keys>>

Cancel(q) ==
  /\ pendings' = {p \in pendings : p.user # q.user \/ p.token # q.token}
  /\ Answered(q)
  /\ UNCHANGED <<now, account, sessions, challenges, apiTokens, attempts,
                 cookie, mfaCookie, key, made, epoch, ghosts, misses>>

\* check_proof in regenerate and disable, once the password was right.
ProofRefused(q, code) ==
  /\ Refuses(q.user, code)
  /\ Count(q.user, {"manage", "mfa"})
  /\ Miss(q.user, "mfa")
  /\ UNCHANGED <<secret, last, recovery, sessions, challenges, pendings,
                 apiTokens, cookie, issued, epoch, ghosts>>

Regenerate(q, code) ==
  /\ Accepts(q.user, code)
  /\ last' = [last EXCEPT ![q.user] = LastAfter(q.user, code)]
  /\ recovery' = [recovery EXCEPT ![q.user] = Batch(epoch[q.user] + 1)]
  /\ Spend(q.user, code)
  /\ Renew(q)
  /\ UNCHANGED secret

Disable(q, code) ==
  /\ Accepts(q.user, code)
  /\ secret' = [secret EXCEPT ![q.user] = NoSecret]
  /\ last' = [last EXCEPT ![q.user] = -1]
  /\ recovery' = [recovery EXCEPT ![q.user] = {}]
  /\ Spend(q.user, code)
  /\ Renew(q)

Manage(q) ==
  /\ CurrentUser(q)
  /\ secret[q.user] # NoSecret
  /\ ~Throttled(q.user, "manage") /\ ~Throttled(q.user, "mfa")
  /\ \E code \in Submitted(q.user, secret[q.user]) :
       ProofRefused(q, code) \/ Regenerate(q, code) \/ Disable(q, code)
  /\ Answered(q)
  /\ UNCHANGED <<now, users, role, active, mfaCookie, key, secrets, keys>>

----------------------------------------------------------------------------
(* Accounts and API tokens.  These handlers trust what require_user read.  *)

AddUser(q, u) ==
  /\ q.role = "admin" /\ u \notin users
  /\ users' = users \cup {u}
  /\ \E r \in Roles : role' = [role EXCEPT ![u] = r]
  /\ Answered(q)
  /\ UNCHANGED <<now, active, secret, last, recovery, sessions, challenges,
                 pendings, apiTokens, attempts, cookie, mfaCookie, key, made, epoch, ghosts, misses>>

\* Also the reset of a password, which leaves the second factor.
UpdateUser(q, u, r, a) ==
  /\ q.role = "admin" /\ u \in users
  /\ u = q.user => a /\ r = "admin"
  /\ epoch[u] < MaxRevocations
  /\ role' = [role EXCEPT ![u] = r]
  /\ active' = [active EXCEPT ![u] = a]
  /\ epoch' = [epoch EXCEPT ![u] = @ + 1]
  /\ sessions' = Without(sessions, u)
  /\ challenges' = Without(challenges, u)
  /\ pendings' = Without(pendings, u)
  /\ apiTokens' = [apiTokens EXCEPT ![u] = {}]
  /\ Answered(q)
  /\ UNCHANGED <<now, users, secret, last, recovery, attempts, cookie,
                 mfaCookie, key, made, ghosts, misses>>

CreateToken(q) ==
  /\ q.role \in {"admin", "analyst"} /\ q.token # NoToken
  /\ apiTokens' = [apiTokens EXCEPT ![q.user] = @ \cup {epoch[q.user]}]
  /\ Answered(q)
  /\ UNCHANGED <<now, account, sessions, challenges, pendings, attempts,
                 cookie, mfaCookie, key, made, epoch, ghosts, misses>>

\* Also what the expiry of a token does, after one to 365 days.
RevokeToken(q) ==
  /\ \E e \in apiTokens[q.user] :
       apiTokens' = [apiTokens EXCEPT ![q.user] = @ \ {e}]
  /\ Answered(q)
  /\ UNCHANGED <<now, account, sessions, challenges, pendings, attempts,
                 cookie, mfaCookie, key, made, epoch, ghosts, misses>>

----------------------------------------------------------------------------
(* Time, and the operator of the installation (external).                  *)

Tick ==
  /\ now < MaxNow
  /\ now' = now + 1
  /\ UNCHANGED <<account, sessions, challenges, pendings, apiTokens, attempts,
                 cookie, mfaCookie, requests, served, key, made, epoch,
                 ghosts, misses>>

\* The file is removed, or the last key is put back from its copy.
MoveKey ==
  /\ \/ key # NoKey /\ key' = NoKey
     \/ key = NoKey /\ keys > TornKey /\ key' = keys
  /\ UNCHANGED <<now, account, sessions, challenges, pendings, apiTokens,
                 attempts, cookie, mfaCookie, requests, served, made, epoch,
                 ghosts, misses>>

Handle(q) ==
  \/ Dropped(q) \/ Logout(q) \/ PasswordRefused(q)
  \/ Setup(q) \/ SetupDies(q) \/ Enable(q) \/ Cancel(q) \/ Manage(q)
  \/ CreateToken(q) \/ RevokeToken(q)
  \/ \E u \in Users : AddUser(q, u)
  \/ \E u \in Users, r \in Roles, a \in BOOLEAN : UpdateUser(q, u, r, a)

Next ==
  \/ \E b \in Browsers, u \in Users : Login(b, u)
  \/ \E b \in Browsers : Verify(b)
  \/ \E b \in Browsers : Authenticate(b)
  \/ \E b \in Browsers, u \in Users : AuthenticateToken(b, u)
  \/ \E q \in requests : Handle(q)
  \/ Tick
  \/ MoveKey

Spec == Init /\ [][Next]_vars

----------------------------------------------------------------------------
(* Properties.                                                             *)

TypeOK ==
  /\ now \in Nat
  /\ users \subseteq Users
  /\ role \in [Users -> Roles] /\ active \in [Users -> BOOLEAN]
  /\ secret \in [Users -> Secrets] /\ last \in [Users -> Int]
  /\ recovery \in [Users -> SUBSET Codes]
  /\ sessions \subseteq Sessions
  /\ challenges \subseteq Challenges
  /\ pendings \subseteq Pendings
  /\ apiTokens \in [Users -> SUBSET Nat]
  /\ attempts \in [Users \X Kinds -> AttemptRows]
  /\ cookie \in [Browsers -> Nat]
  /\ mfaCookie \in [Browsers -> Users \cup {None}]
  /\ requests \subseteq AuthenticatedRequests
  /\ key \in Nat /\ served \in Nat /\ issued \in Nat /\ secrets \in Nat /\ keys \in Nat
  /\ epoch \in [Users -> Nat]
  /\ spent \in [Users -> SUBSET Codes]
  /\ reused \subseteq Codes
  /\ misses \in [Users \X Kinds -> AttemptRows]

\* A code is accepted once, whichever of verify, enable, regenerate and
\* disable it is sent to, by however many requests: "Les codes deja acceptes
\* sont refuses" (README.md, section on the second factor).
NoCodeWorksTwice == reused = {}

\* While an account has a second factor, each of its sessions came from a
\* step that asked for one; those opened by a password alone are gone: "A
\* correct password is only a first step, never a full session" (login).
SecondFactor ==
  \A s \in sessions : secret[s.user] # NoSecret => s.factor

\* What was granted before the authentication of an account was revoked (a
\* second factor set, replaced or removed, an account changed) does not come
\* back as a session, a challenge or an enrolment, also when a request
\* authenticated before is handled after.  An API token found in the table was
\* written since.
NothingOutlivesRevocation ==
  /\ \A r \in sessions \cup challenges \cup pendings : r.epoch = epoch[r.user]
  /\ \A u \in Users : apiTokens[u] \subseteq {epoch[u]}

\* Wrong passwords and codes are bounded by Limit per window since the last
\* success, across browsers, endpoints, restarted logins and new enrolments
\* ("Failed attempts must survive the HTTP error", "Do not clear enrollment
\* failures by issuing a new seed").  A window may have begun, with a success
\* that counts, just before the first of them: hence n + 1.
MissesBounded ==
  \A p \in Users \X Kinds : \A n \in 1..now + 1 :
    now - misses[p].window < n * Window
      => misses[p].count < (n + 1) * Limit(p[2])

\* A key in place is the one that encrypted every secret kept: none is made
\* while a secret waits for one that is missing, or after a torn file.
KeyKeepsFactors ==
  key > TornKey =>
    /\ \A u \in Users : secret[u] = NoSecret \/ secret[u].key = key
    /\ \A p \in pendings : p.secret.key = key
=============================================================================
