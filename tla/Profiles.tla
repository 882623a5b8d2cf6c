------------------------------- MODULE Profiles -------------------------------
(***************************************************************************)
(* Agent profiles and the session configurations that pin them             *)
(* (console-api routes/profiles.rs and sessions.rs, console-db             *)
(* queries/profiles.rs, sessions.rs and session_assignments.rs).           *)
(*                                                                         *)
(* Every statement is a transaction of its own: a handler reads the        *)
(* current version, checks, marks the old versions as not current and      *)
(* inserts the new one, and other handlers run in between.                 *)
(***************************************************************************)
EXTENDS Naturals, FiniteSets

CONSTANTS
  Handlers,      \* requests the server runs at a time
  Pids,          \* profile ids
  Owners,        \* users that are not administrators
  Contents,      \* a profile's content: here its name
  MaxVersions,   \* versions of one profile
  MaxRequests,   \* profile requests
  Slots,         \* slots of the session's assignments
  MaxSettings    \* requests that configure the session

VARIABLES
  rows,      \* the profiles table: set of Row
  req,       \* [Handlers -> a handler's state]
  requests,
  sess,      \* the session: [state, config]
  assigned,  \* the session_assignments table: [Slots -> [pid, ver] or unassigned]
  setter,    \* a running set_assignments or update_session
  launch,    \* the launch request: the assignments it validated and started
  settings

profileVars == <<rows, req, requests>>
configVars == <<sess, assigned, setter, launch, settings>>

Row(p, v, name, owner) == [pid |-> p, ver |-> v, name |-> name, owner |-> owner, current |-> TRUE, deleted |-> FALSE]

NoRow == Row(CHOOSE p \in Pids : TRUE, 0, CHOOSE c \in Contents : TRUE, CHOOSE o \in Owners : TRUE)

Idle == [at |-> "idle", op |-> "none", old |-> NoRow, new |-> NoRow]

\* get_current
Current(p) == {r \in rows : r.pid = p /\ r.current /\ ~r.deleted}

\* get_version: deleted versions too.
Version(p, v) == {r \in rows : r.pid = p /\ r.ver = v}

\* name_exists_for_user
NameTaken(name, owner, except) ==
  \E r \in rows : r.name = name /\ r.owner = owner /\ r.current /\ ~r.deleted /\ r.pid \notin except

-----------------------------------------------------------------------------
(* The profile handlers                                                    *)

\* A fresh uuid.
Unused(p) == (\A r \in rows : r.pid # p) /\ \A g \in Handlers : req[g].at # "idle" => req[g].new.pid # p

\* create_profile and import_profile: a new id, version 1, validated first.
StartCreate(h) ==
  /\ req[h].at = "idle" /\ requests < MaxRequests
  /\ \E p \in Pids, name \in Contents, o \in Owners :
       /\ Unused(p)
       /\ req' = [req EXCEPT ![h] = [at |-> "check", op |-> "create", old |-> NoRow, new |-> Row(p, 1, name, o)]]
  /\ requests' = requests + 1 /\ UNCHANGED <<rows, configVars>>

\* clone_profile: the current version under another name; the copy is the
\* caller's, whoever owns the source.
StartClone(h) ==
  /\ req[h].at = "idle" /\ requests < MaxRequests
  /\ \E p \in Pids, o \in Owners, source \in rows :
       /\ Unused(p) /\ source \in Current(source.pid)
       /\ \E copy \in Contents \ {source.name} :
            req' = [req EXCEPT ![h] = [at |-> "check", op |-> "create", old |-> source, new |-> Row(p, 1, copy, o)]]
  /\ requests' = requests + 1 /\ UNCHANGED <<rows, configVars>>

\* A plausible bug: the number is taken when the row is written.
Mutant_NextFree(r) == 1 + Cardinality({q \in rows : q.pid = r.pid})

\* The version a handler writes was computed from the version it read.
NewVersion(r) == r.ver

\* update_profile reads the current version (the writer is its owner or an
\* administrator) and keeps the owner.
StartUpdate(h) ==
  /\ req[h].at = "idle" /\ requests < MaxRequests
  /\ \E cur \in rows, name \in Contents :
       /\ cur \in Current(cur.pid) /\ cur.ver < MaxVersions
       /\ req' = [req EXCEPT ![h] = [at |-> "check", op |-> "update", old |-> cur,
                                     new |-> Row(cur.pid, cur.ver + 1, name, cur.owner)]]
  /\ requests' = requests + 1 /\ UNCHANGED <<rows, configVars>>

\* rollback: the content of an older version becomes the newest one, without
\* validating it again.
StartRollback(h) ==
  /\ req[h].at = "idle" /\ requests < MaxRequests
  /\ \E cur \in rows, target \in rows :
       /\ cur \in Current(cur.pid) /\ cur.ver < MaxVersions /\ target.pid = cur.pid
       /\ req' = [req EXCEPT ![h] = [at |-> "unset", op |-> "rollback", old |-> cur,
                                     new |-> Row(cur.pid, cur.ver + 1, target.name, cur.owner)]]
  /\ requests' = requests + 1 /\ UNCHANGED <<rows, configVars>>

StartDelete(h) ==
  /\ req[h].at = "idle" /\ requests < MaxRequests
  /\ \E cur \in rows :
       /\ cur \in Current(cur.pid)
       /\ req' = [req EXCEPT ![h] = [at |-> "delete", op |-> "delete", old |-> cur, new |-> cur]]
  /\ requests' = requests + 1 /\ UNCHANGED <<rows, configVars>>

\* validate_profile's last check.
CheckName(h) ==
  /\ req[h].at = "check"
  /\ LET new == req[h].new
     IN  req' = [req EXCEPT ![h] =
            IF NameTaken(new.name, new.owner, IF req[h].op = "update" THEN {new.pid} ELSE {})
            THEN Idle ELSE [@ EXCEPT !.at = IF req[h].op = "create" THEN "insert" ELSE "unset"]]
  /\ UNCHANGED <<rows, requests, configVars>>

\* create_new_version, first statement.
UnsetCurrent(h) ==
  /\ req[h].at = "unset"
  /\ rows' = {IF r.pid = req[h].new.pid THEN [r EXCEPT !.current = FALSE] ELSE r : r \in rows}
  /\ req' = [req EXCEPT ![h].at = "insert"]
  /\ UNCHANGED <<requests, configVars>>

\* A plausible bug: INSERT OR REPLACE.
Mutant_Replace(new) == {r \in rows : ~(r.pid = new.pid /\ r.ver = new.ver)} \cup {new}

\* insert_profile: the primary key (id, version) refuses a second row.
Inserted(new) == IF \E r \in rows : r.pid = new.pid /\ r.ver = new.ver THEN rows ELSE rows \cup {new}

\* The statement may also fail, or the process end before it.
InsertRow(h) ==
  /\ req[h].at = "insert"
  /\ rows' \in {rows, Inserted([req[h].new EXCEPT !.ver = NewVersion(req[h].new)])}
  /\ req' = [req EXCEPT ![h] = Idle]
  /\ UNCHANGED <<requests, configVars>>

\* soft_delete: all versions there are at this moment.
SoftDelete(h) ==
  /\ req[h].at = "delete"
  /\ rows' = {IF r.pid = req[h].new.pid THEN [r EXCEPT !.deleted = TRUE] ELSE r : r \in rows}
  /\ req' = [req EXCEPT ![h] = Idle]
  /\ UNCHANGED <<requests, configVars>>

ProfilesInit ==
  rows = {} /\ req = [h \in Handlers |-> Idle] /\ requests = 0

ProfilesNext ==
  \E h \in Handlers :
    \/ StartCreate(h) \/ StartClone(h) \/ StartUpdate(h) \/ StartRollback(h) \/ StartDelete(h)
    \/ CheckName(h) \/ UnsetCurrent(h) \/ InsertRow(h) \/ SoftDelete(h)

-----------------------------------------------------------------------------
(* Configuring a session                                                   *)

Unassigned == [pid |-> NoRow.pid, ver |-> 0]

Pins == {[pid |-> p, ver |-> v] : p \in Pids, v \in 1..MaxVersions}

SetterIdle == [at |-> "idle", want |-> [s \in Slots |-> Unassigned], left |-> {}]

\* set_assignments and update_session read the row and look at its state; the
\* versions are pinned here.
StartSetting ==
  /\ setter.at = "idle" /\ settings < MaxSettings /\ settings' = settings + 1
  /\ sess.state = "configuring"
  /\ \/ \E want \in [Slots -> Pins] : setter' = [at |-> "delete", want |-> want, left |-> Slots]
     \/ setter' = [SetterIdle EXCEPT !.at = "patch"]
  /\ UNCHANGED <<profileVars, sess, assigned, launch>>

\* replace_assignments: one DELETE, then an INSERT per row, none of which looks
\* at the session's state.
DeleteAssignments ==
  /\ setter.at = "delete"
  /\ assigned' = [s \in Slots |-> Unassigned] /\ setter' = [setter EXCEPT !.at = "insert"]
  /\ UNCHANGED <<profileVars, sess, launch, settings>>

InsertAssignment ==
  /\ setter.at = "insert"
  /\ \E s \in setter.left :
       /\ assigned' = [assigned EXCEPT ![s] = setter.want[s]]
       /\ setter' = IF setter.left = {s} THEN SetterIdle ELSE [setter EXCEPT !.left = @ \ {s}]
  /\ UNCHANGED <<profileVars, sess, launch, settings>>

\* A plausible bug: the statement trusts the state the handler has read.
Mutant_PatchAnyway == TRUE

\* UPDATE ... WHERE id = ? AND state = 'configuring'
PatchApplies == sess.state = "configuring"

PatchSession ==
  /\ setter.at = "patch"
  /\ sess' = IF PatchApplies THEN [sess EXCEPT !.config = @ + 1] ELSE sess
  /\ setter' = SetterIdle
  /\ UNCHANGED <<profileVars, assigned, launch, settings>>

\* launch_session reads the row, whose configuration it will validate.
StartLaunch ==
  /\ launch.at = "idle" /\ sess.state = "configuring"
  /\ launch' = [launch EXCEPT !.at = "read"]
  /\ UNCHANGED <<profileVars, sess, assigned, setter, settings>>

\* configuring to validating; the launch's configuration is the row's from here.
ClaimLaunch ==
  /\ launch.at = "read"
  /\ sess' = [sess EXCEPT !.state = "validating"]
  /\ launch' = [launch EXCEPT !.at = "claimed", !.config = sess.config]
  /\ UNCHANGED <<profileVars, assigned, setter, settings>>

\* validate_session looks at the assignments of the moment.
ValidateLaunch ==
  /\ launch.at = "claimed"
  /\ launch' = [launch EXCEPT !.at = IF \E s \in Slots : assigned[s] = Unassigned THEN "refused" ELSE "validated",
                              !.validated = assigned]
  /\ UNCHANGED <<profileVars, sess, assigned, setter, settings>>

\* To launching, or back to configuring.
TakeLaunch ==
  /\ launch.at \in {"validated", "refused"}
  /\ sess' = [sess EXCEPT !.state = IF launch.at = "validated" THEN "launching" ELSE "configuring"]
  /\ launch' = [launch EXCEPT !.at = IF @ = "validated" THEN "taken" ELSE "idle"]
  /\ UNCHANGED <<profileVars, assigned, setter, settings>>

\* The launcher reads the assignments again and starts what it finds.
Dispatch ==
  /\ launch.at = "taken"
  /\ launch' = [launch EXCEPT !.at = "started", !.started = assigned]
  /\ sess' = [sess EXCEPT !.state = "active"]
  /\ UNCHANGED <<profileVars, assigned, setter, settings>>

ConfigInit ==
  /\ sess = [state |-> "configuring", config |-> 0]
  /\ assigned = [s \in Slots |-> Unassigned] /\ setter = SetterIdle /\ settings = 0
  /\ launch = [at |-> "idle", validated |-> assigned, started |-> assigned, config |-> 0]

ConfigNext ==
  \/ StartSetting \/ DeleteAssignments \/ InsertAssignment \/ PatchSession
  \/ StartLaunch \/ ClaimLaunch \/ ValidateLaunch \/ TakeLaunch \/ Dispatch

\* The two sides share no table; the requests of both interleave.
ProfilesSpec ==
  ProfilesInit /\ ConfigInit /\ [][ProfilesNext \/ ConfigNext]_<<profileVars, configVars>>

-----------------------------------------------------------------------------
(* Properties                                                              *)

\* However updates, rollbacks and deletes interleave, a profile never has two
\* current versions: get_current, which takes the first it finds, is
\* unambiguous.
OneCurrent == \A r, q \in rows : r.pid = q.pid /\ r.current /\ q.current => r = q

KeepsVersions ==
  \A r \in rows : \E q \in rows' : q.pid = r.pid /\ q.ver = r.ver /\ q.name = r.name /\ q.owner = r.owner

\* Versions are append-only: once written, the content of a version a session
\* may have pinned never changes, only its flags do, and none disappears.
VersionsAppendOnly == [][KeepsVersions]_rows

\* The configuration a session was launched with is the one it keeps: an
\* update that read `configuring' and is late changes nothing.
ConfigFrozen == sess.state # "configuring" => sess.config = launch.config

\* "Create a new version: ... Must be called within a transaction": a profile
\* that was created and not deleted has a current version whenever no handler
\* is between the two statements.
AlwaysCurrent ==
  (\A h \in Handlers : req[h].at # "insert") =>
    \A r \in rows : ~r.deleted => Current(r.pid) # {}

\* "Soft-delete a profile (all versions)": a deleted profile has no current
\* version again.
DeletedStaysDeleted == \A r, q \in rows : r.pid = q.pid /\ r.deleted => ~(q.current /\ ~q.deleted)

\* "Assignments can only be set in configuring state": what the launcher starts
\* is what was validated, and the rows stay so.
AssignmentsFrozen ==
  launch.at = "started" => launch.started = launch.validated /\ assigned = launch.started

\* Profile versions and session configurations under overlapping handlers.
ProfilesSound == [](OneCurrent /\ ConfigFrozen) /\ VersionsAppendOnly
=============================================================================
