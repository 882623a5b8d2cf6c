------------------------------- MODULE Accounts -------------------------------
(***************************************************************************)
(* Console accounts: bootstrap, login, sessions, API tokens, user          *)
(* administration, audit and settings (console-api middleware.rs,          *)
(* routes/auth.rs, users.rs, tokens.rs, settings.rs; console-core          *)
(* bootstrap.rs, authenticator.rs, authorizer.rs, rate_limit.rs, audit.rs, *)
(* settings.rs; the console-db queries under them).                        *)
(*                                                                         *)
(* A handler awaits the database between its check and its write, so the   *)
(* requests of two clients interleave statement by statement.  Rows that   *)
(* have expired or were revoked are not in the tables of the model: no     *)
(* query returns them.                                                     *)
(***************************************************************************)
EXTENDS Naturals, FiniteSets, FiniteSetsExt

CONSTANTS
  UserIds,         \* ids of users; a username is its id
  Clients,         \* browsers and scripts, all behind one address
  Admins,          \* the administrators of the initial states
  MaxPerAccount,   \* MAX_FAILED_PER_ACCOUNT
  MaxPerIp,        \* MAX_FAILED_PER_IP
  MaxCalls,        \* requests
  SettingKeys,     \* settings keys
  KnownKeys        \* those of known_keys(), all of type String here

ASSUME AccountsAssumption ==
  /\ Admins \subseteq UserIds /\ KnownKeys \subseteq SettingKeys /\ IsFiniteSet(Clients)
  /\ MaxPerAccount \in Nat \ {0} /\ MaxPerIp \in Nat \ {0}

VARIABLES
  users,       \* the users table
  logins,      \* user_sessions: set of [id, user]
  tokens,      \* api_tokens: set of [id, user]
  cred,        \* what a client sends: [Clients -> [kind, id]]
  run,         \* [Clients -> the handler's state]
  attempts,    \* failed login_attempts of the window: set of [user, n], n the order
  done,        \* history: the mutations committed
  audit,       \* the audit log: set of <<op, target>>
  calls,
  boot,        \* main.rs: [at, file, crashed, rotated]
  setting      \* the settings table: [SettingKeys -> a value or absent]

accountVars == <<users, logins, tokens, cred, run, attempts, done, audit, calls>>
bootVars == <<boot, setting>>

Roles == {"viewer", "operator", "admin"}

Absent == [here |-> FALSE, role |-> "viewer", disabled |-> FALSE, pending |-> FALSE, password |-> 0]

Anyone == CHOOSE u \in UserIds : TRUE

NoCall == [at |-> "idle", op |-> "none", actor |-> Anyone, target |-> Anyone, arg |-> 0, counted |-> 0, id |-> 0]

\* count_active_admins
ActiveAdmins(t) == {u \in UserIds : t[u].here /\ t[u].role = "admin" /\ ~t[u].disabled}

-----------------------------------------------------------------------------
(* Who is calling, and what a role may do                                  *)

\* authenticate_bearer, authenticate_cookie and, for change_password, the
\* variant that lets a pending password change pass: bearer first, and only a
\* cookie is asked for the rotation.
Authenticates(c, op) ==
  LET rows == {r \in IF cred[c].kind = "bearer" THEN tokens ELSE logins : r.id = cred[c].id}
  IN  {r.user : r \in {r \in rows :
         /\ cred[c].kind # "none" /\ users[r.user].here /\ ~users[r.user].disabled
         /\ op = "change_password" => cred[c].kind = "cookie"
         /\ cred[c].kind = "cookie" /\ op # "change_password" => ~users[r.user].pending}}

Everyone == {"list_own_tokens", "whoami"}
OperatorOps == {"create_token", "revoke_own"}
AdminOps == {"create_user", "set_role", "disable", "enable", "reset_password", "unlock", "revoke_any"}

\* is_allowed; authorize_owned chooses between revoke_own and revoke_any.
IsAllowed(role, op) ==
  \/ op \in Everyone \cup {"logout", "change_password"}
  \/ op \in OperatorOps /\ role \in {"operator", "admin"}
  \/ op \in AdminOps /\ role = "admin"

\* The role is the one read when the request came in.
StartCall(c) ==
  /\ run[c].at = "idle" /\ calls < MaxCalls /\ calls' = calls + 1
  /\ \E op \in (AdminOps \cup OperatorOps \cup {"logout", "change_password"}), target \in UserIds :
       \E u \in Authenticates(c, op) :
         /\ IsAllowed(users[u].role, op)
         /\ op \in {"create_token", "revoke_own", "logout", "change_password"} => target = u
         /\ op \in {"set_role", "disable", "unlock"} => users[target].here
         /\ \E arg \in IF op = "set_role" THEN 0..1 ELSE {0} :
              run' = [run EXCEPT ![c] = [at |-> IF op \in {"set_role", "disable"} THEN "guard"
                                               ELSE IF op = "change_password" THEN "verify" ELSE "write",
                                         op |-> op, actor |-> u, target |-> target, arg |-> arg, counted |-> 0, id |-> calls + 1]]
  /\ UNCHANGED <<users, logins, tokens, cred, attempts, done, audit, bootVars>>

\* The role a role change writes.
NewRole(arg) == IF arg = 0 THEN "operator" ELSE "admin"

\* A plausible bug: off by one.
Mutant_OneMayGo(count) == count < 1

\* LAST_ADMIN: refuse when this would be the only active administrator.
LastAdmin(count) == count <= 1

\* update_user reads the target and counts the administrators; the count is
\* not kept up to date until the write.
GuardAdmins(c) ==
  /\ run[c].at = "guard"
  /\ LET t == users[run[c].target]
         removes == t.role = "admin" /\ (run[c].op = "disable" \/ NewRole(run[c].arg) # "admin")
         count == Cardinality(ActiveAdmins(users))
     IN  run' = [run EXCEPT ![c] = IF removes /\ LastAdmin(count) THEN NoCall
                                   ELSE [@ EXCEPT !.at = "write", !.counted = IF removes THEN count ELSE 0]]
  /\ UNCHANGED <<users, logins, tokens, cred, attempts, done, audit, calls, bootVars>>

\* change_password verifies the current password (client input, right or
\* wrong) and the strength of the new one.
VerifyPassword(c) ==
  /\ run[c].at = "verify"
  /\ run' \in {[run EXCEPT ![c] = NoCall], [run EXCEPT ![c].at = "write"]}
  /\ UNCHANGED <<users, logins, tokens, cred, attempts, done, audit, calls, bootVars>>

\* The row the write changes.
Written(r) ==
  LET u == users[r.target]
  IN  CASE r.op = "create_user" -> IF u.here THEN u ELSE [Absent EXCEPT !.here = TRUE, !.role = "operator"]
        [] r.op = "set_role" -> [u EXCEPT !.role = NewRole(r.arg)]
        [] r.op = "disable" -> [u EXCEPT !.disabled = TRUE]
        [] r.op = "enable" -> [u EXCEPT !.disabled = FALSE]
        [] r.op = "reset_password" -> [u EXCEPT !.pending = TRUE]
        [] r.op = "change_password" -> [u EXCEPT !.pending = FALSE, !.password = 1]
        [] OTHER -> u

\* The username is unique: a second insert fails, and is not audited.
Refused(r) == r.op = "create_user" /\ users[r.target].here

\* A plausible bug: the entry is written whatever the statement returned.
Mutant_AuditRefusals(r) == "audit"

\* unlock_user writes no audit entry.
AfterWrite(r) == IF Refused(r) \/ r.op = "unlock" THEN "idle" ELSE "audit"

\* The statement of each handler.  A disabled user keeps its sessions and
\* tokens: it is the authenticator that refuses them.
WriteAccount(c) ==
  /\ run[c].at = "write"
  /\ LET r == run[c]
     IN  /\ users' = [users EXCEPT ![r.target] = IF users[r.target].here \/ r.op = "create_user" THEN Written(r) ELSE @]
         /\ logins' = IF r.op = "logout" THEN {l \in logins : l.user # r.actor} ELSE logins
         /\ \/ r.op = "create_token" /\ tokens' = tokens \cup {[id |-> r.id, user |-> r.actor]}
            \/ r.op \in {"revoke_own", "revoke_any"}
               /\ \E t \in tokens : (r.op = "revoke_own" => t.user = r.actor) /\ tokens' = tokens \ {t}
            \/ r.op \in {"revoke_own", "revoke_any"} /\ tokens' = tokens
            \/ r.op \notin {"create_token", "revoke_own", "revoke_any"} /\ tokens' = tokens
         /\ cred' = IF r.op = "create_token" /\ cred[c].kind = "cookie"
                    THEN [cred EXCEPT ![c] = [kind |-> "bearer", id |-> r.id]] ELSE cred
         /\ attempts' = IF r.op = "unlock" THEN {a \in attempts : a.user # r.target} ELSE attempts
         /\ done' = IF Refused(r) THEN done ELSE done \cup {<<r.op, r.target>>}
         /\ run' = [run EXCEPT ![c] = IF AfterWrite(r) = "audit" THEN [@ EXCEPT !.at = "audit"] ELSE NoCall]
  /\ UNCHANGED <<audit, calls, bootVars>>

\* log_audit(...).await.ok(): a failure is swallowed.
LogAudit(c) ==
  /\ run[c].at = "audit"
  /\ audit' \in {audit, audit \cup {<<run[c].op, run[c].target>>}}
  /\ run' = [run EXCEPT ![c] = NoCall]
  /\ UNCHANGED <<users, logins, tokens, cred, attempts, done, calls, bootVars>>

-----------------------------------------------------------------------------
(* Login                                                                   *)

\* A plausible bug: the limit itself still passes.
Mutant_LimitPasses(byIp, byAccount) == byIp <= MaxPerIp /\ byAccount <= MaxPerAccount

\* check_login_rate_limit
WithinLimits(byIp, byAccount) == byIp < MaxPerIp /\ byAccount < MaxPerAccount

\* count_failed_by_username; all clients share the address.
FailedBy(u) == Cardinality({a \in attempts : a.user = u})
FailedByIp == Cardinality(attempts)

StartLogin(c) ==
  /\ run[c].at = "idle" /\ calls < MaxCalls /\ calls' = calls + 1
  /\ \E u \in UserIds, right \in {0, 1} :
       /\ WithinLimits(FailedByIp, FailedBy(u))
       /\ run' = [run EXCEPT ![c] = [NoCall EXCEPT !.at = "lookup", !.op = "login", !.target = u, !.arg = right,
                                               !.id = calls + 1]]
  /\ UNCHANGED <<users, logins, tokens, cred, attempts, done, audit, bootVars>>

\* Unknown, disabled and wrong password look the same and count the same.
Lookup(c) ==
  /\ run[c].at = "lookup"
  /\ LET u == users[run[c].target]
     IN  run' = [run EXCEPT ![c].at = IF u.here /\ ~u.disabled /\ run[c].arg = 1 THEN "rotate" ELSE "fail"]
  /\ UNCHANGED <<users, logins, tokens, cred, attempts, done, audit, calls, bootVars>>

\* record_login_attempt(.., false)
RecordFailed(c) ==
  /\ run[c].at = "fail"
  /\ attempts' = attempts \cup {[user |-> run[c].target, n |-> 1 + Max({0} \cup {a.n : a \in attempts})]}
  /\ run' = [run EXCEPT ![c] = NoCall]
  /\ UNCHANGED <<users, logins, tokens, cred, done, audit, calls, bootVars>>

\* A plausible bug: only the caller's own session is replaced.
Mutant_KeepOthers(u) == logins

\* delete_user_sessions
Rotated(u) == {l \in logins : l.user # u}

RotateSessions(c) ==
  /\ run[c].at = "rotate"
  /\ logins' = Rotated(run[c].target)
  /\ run' = [run EXCEPT ![c].at = "session"]
  /\ UNCHANGED <<users, tokens, cred, attempts, done, audit, calls, bootVars>>

InsertSession(c) ==
  /\ run[c].at = "session"
  /\ logins' = logins \cup {[id |-> run[c].id, user |-> run[c].target]}
  /\ cred' = [cred EXCEPT ![c] = [kind |-> "cookie", id |-> run[c].id]]
  /\ done' = done \cup {<<"login", run[c].target>>}
  /\ run' = [run EXCEPT ![c].at = "audit"]
  /\ UNCHANGED <<users, tokens, attempts, audit, calls, bootVars>>

\* Time passes: a session expires, the window moves past the oldest failure.
ExpireSession ==
  /\ \E l \in logins : logins' = logins \ {l}
  /\ UNCHANGED <<users, tokens, cred, run, attempts, done, audit, calls, bootVars>>

WindowMoves ==
  /\ \E old \in attempts : (\A a \in attempts : old.n <= a.n) /\ attempts' = attempts \ {old}
  /\ UNCHANGED <<users, logins, tokens, cred, run, done, audit, calls, bootVars>>

\* signedIn: the clients that hold the cookie of an administrator.
AccountsInit(signedIn, as) ==
  /\ users = [u \in UserIds |-> IF u \in Admins THEN [Absent EXCEPT !.here = TRUE, !.role = "admin"] ELSE Absent]
  /\ logins = {[id |-> c, user |-> as[c]] : c \in signedIn} /\ tokens = {}
  /\ cred = [c \in Clients |-> IF c \in signedIn THEN [kind |-> "cookie", id |-> c] ELSE [kind |-> "none", id |-> 0]]
  /\ run = [c \in Clients |-> NoCall] /\ attempts = {}
  /\ done = {} /\ audit = {} /\ calls = 0

LoginNext ==
  \/ \E c \in Clients : StartLogin(c) \/ Lookup(c) \/ RecordFailed(c) \/ RotateSessions(c) \/ InsertSession(c)
  \/ ExpireSession \/ WindowMoves

CallNext ==
  \E c \in Clients : StartCall(c) \/ GuardAdmins(c) \/ VerifyPassword(c) \/ WriteAccount(c) \/ LogAudit(c)

-----------------------------------------------------------------------------
(* The first start, and the settings                                       *)

\* A credential the administrator chose.
Own == 100

\* A plausible bug: a credential is made and written on every start until the
\* first rotation.
Mutant_EveryStart == boot.pending

\* bootstrap_if_needed: the users table is empty.
NeedsBootstrap == ~boot.here

StartServe ==
  /\ boot.at = "down" /\ boot.made < MaxCalls
  /\ boot' = IF NeedsBootstrap
             THEN [boot EXCEPT !.at = "inserted", !.here = TRUE, !.pending = TRUE, !.made = @ + 1,
                               !.password = IF boot.here THEN @ ELSE boot.made + 1]
             ELSE [boot EXCEPT !.at = "serving", !.made = @ + 1]
  /\ UNCHANGED <<accountVars, setting>>

\* write_bootstrap_token; an error ends the process.
WriteToken ==
  /\ boot.at = "inserted"
  /\ boot' \in {[boot EXCEPT !.at = "serving", !.file = boot.made],
                [boot EXCEPT !.at = "down", !.lost = TRUE]}
  /\ UNCHANGED <<accountVars, setting>>

EndServe ==
  /\ boot.at # "down"
  /\ boot' = [boot EXCEPT !.at = "down", !.lost = @ \/ boot.at = "inserted"]
  /\ UNCHANGED <<accountVars, setting>>

\* The administrator logs in with the credential and changes it; a later
\* reset_password only sets the flag.
RotatePassword ==
  /\ boot.at = "serving" /\ boot.pending
  /\ boot.password \in {boot.file, Own}
  /\ boot' = [boot EXCEPT !.pending = FALSE, !.password = Own]
  /\ UNCHANGED <<accountVars, setting>>

ResetAdmin ==
  /\ boot.at = "serving" /\ ~boot.pending
  /\ boot' = [boot EXCEPT !.pending = TRUE]
  /\ UNCHANGED <<accountVars, setting>>

\* bootstrap_state: the token is shown while no administrator has rotated.
ShownToken == IF boot.pending /\ boot.file # 0 THEN {boot.file} ELSE {}

\* settings::get
GetSetting(k) ==
  IF setting[k] # "absent" THEN {<<k, setting[k], "database">>}
  ELSE {<<kk, "string", "default">> : kk \in KnownKeys \cap {k}}

\* A plausible bug: every default is appended.
Mutant_AllDefaults ==
  {<<k, setting[k], "database">> : k \in {k \in SettingKeys : setting[k] # "absent"}}
    \cup {<<k, "string", "default">> : k \in KnownKeys}

\* settings::get_all: the rows, then the defaults of the keys not seen.
GetAllSettings ==
  LET stored == {k \in SettingKeys : setting[k] # "absent"}
  IN  {<<k, setting[k], "database">> : k \in stored} \cup {<<k, "string", "default">> : k \in KnownKeys \ stored}

\* settings::set validates the type of a known key; delete resets it.
SetSetting ==
  /\ \E k \in SettingKeys, v \in {"string", "integer"} :
       /\ k \in KnownKeys => v = "string"
       /\ setting' = [setting EXCEPT ![k] = v]
  /\ UNCHANGED <<accountVars, boot>>

DeleteSetting ==
  /\ \E k \in SettingKeys : setting[k] # "absent" /\ setting' = [setting EXCEPT ![k] = "absent"]
  /\ UNCHANGED <<accountVars, boot>>

BootInit ==
  /\ boot = [at |-> "down", here |-> FALSE, pending |-> FALSE, password |-> 0, file |-> 0, lost |-> FALSE, made |-> 0]
  /\ setting = [k \in SettingKeys |-> "absent"]

BootNext ==
  StartServe \/ WriteToken \/ EndServe \/ RotatePassword \/ ResetAdmin \/ SetSetting \/ DeleteSetting

AccountsSpec ==
  /\ BootInit
  /\ \E signedIn \in SUBSET Clients : \E as \in [signedIn -> Admins] : AccountsInit(signedIn, as)
  /\ [][LoginNext \/ CallNext \/ BootNext]_<<accountVars, bootVars>>

-----------------------------------------------------------------------------
(* Properties                                                              *)

\* update_user: the last active administrator is removed only by a request
\* whose count another request has made stale, never by one that ran alone.
LastAdminNeedsARace ==
  [][ActiveAdmins(users) # {} /\ ActiveAdmins(users') = {} =>
       \E c \in Clients : run[c].at = "write" /\ run[c].counted # Cardinality(ActiveAdmins(users))]_users

\* The message of LAST_ADMIN: "Cannot remove the only admin account".
AnAdminRemains == ActiveAdmins(users) # {}

\* login rotates: however often a user logs in, it has at most one session per
\* login that was under way at the same time.
SessionsBounded == \A u \in UserIds : Cardinality({l \in logins : l.user = u}) <= Cardinality(Clients)

\* The lockout holds under concurrent logins up to the requests that had
\* already passed the check.
LockoutHolds ==
  /\ \A u \in UserIds : FailedBy(u) <= MaxPerAccount + Cardinality(Clients) - 1
  /\ FailedByIp <= MaxPerIp + Cardinality(Clients) - 1

\* Every entry of the audit log is of a mutation that was committed, however
\* requests overlap; the converse does not hold, since the log is best effort.
AuditedWasDone == audit \subseteq done

\* Until the administrator's first rotation the credential on disk is the one
\* that logs in, over every restart; unless the first start ended between the
\* row and the file.
TokenOpensTheDoor ==
  boot.at = "serving" /\ boot.password # Own /\ ~boot.lost => boot.file = boot.password /\ ShownToken = {boot.password}

\* GET /settings and GET /settings/{key} tell the same story.
SettingsAgree == GetAllSettings = UNION {GetSetting(k) : k \in SettingKeys}

\* Logins, lockout, audit, the bootstrap credential and the settings under
\* overlapping requests and restarts.
AccountsSound ==
  /\ SessionsBounded /\ LockoutHolds /\ AuditedWasDone
  /\ TokenOpensTheDoor /\ SettingsAgree
=============================================================================
