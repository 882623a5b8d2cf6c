------------------------- MODULE ConsoleDataProofs --------------------------
(***************************************************************************)
(* What the Console keeps in its database and in memory, for any number of *)
(* handlers that interleave statement by statement: profile versions and   *)
(* session configurations, accounts, and the taxonomy registry with its    *)
(* search.                                                                 *)
(*                                                                         *)
(* That a profile never has two current versions does not follow from the  *)
(* two statements of create_new_version alone, which are no transaction.   *)
(* It rests on the primary key: a handler that is about to insert version  *)
(* v has seen v - 1, the versions of a profile have no gaps, so whoever    *)
(* made a version current after this handler's first statement wrote       *)
(* version v itself, and the insert is refused.                            *)
(*                                                                         *)
(* The bounds of the accounts count what is in a table together with the   *)
(* requests that have passed a check and will still add to it.             *)
(*                                                                         *)
(* A search sorts what it found by a strict total order, so the entry at a *)
(* rank is the one with that many better ones; an index that is served is  *)
(* the one built from the verticals registered then, and a pinned role is  *)
(* the one of the pinned version.                                          *)
(***************************************************************************)
EXTENDS Profiles, Accounts, Catalog, FiniteSetTheorems, WellFoundedInduction, TLAPS

Rows == [pid : Pids, ver : Nat, name : Contents, owner : Owners, current : BOOLEAN, deleted : BOOLEAN]

HasVersion(p, v) == \E r \in rows : r.pid = p /\ r.ver = v

\* The primary key, and no gap below a version.
TableInv ==
  /\ rows \subseteq Rows
  /\ \A r, q \in rows : r.pid = q.pid /\ r.ver = q.ver => r = q
  /\ \A r \in rows : \A v \in 1..r.ver : HasVersion(r.pid, v)

\* A handler that creates holds an id no row and no other request has.
CreateInv(h) ==
  req[h].op = "create" =>
    /\ req[h].at \in {"check", "insert"} /\ req[h].new.ver = 1
    /\ \A r \in rows : r.pid # req[h].new.pid
    /\ \A g \in Handlers \ {h} : req[g].at # "idle" => req[g].new.pid # req[h].new.pid

\* A handler that writes a new version has read the one before it.
SuccessorInv(h) ==
  req[h].op \in {"update", "rollback"} =>
    /\ req[h].at \in {"check", "unset", "insert"}
    /\ req[h].new.ver > 0 /\ HasVersion(req[h].new.pid, req[h].new.ver - 1)
    /\ req[h].at = "insert" /\ ~HasVersion(req[h].new.pid, req[h].new.ver) =>
         \A r \in rows : r.pid = req[h].new.pid => ~r.current

\* What a handler in progress is about to write.
HandlerInv(h) ==
  req[h].at # "idle" =>
    /\ req[h].new \in Rows
    /\ req[h].op \in {"create", "update", "rollback", "delete"}
    /\ req[h].op = "delete" => req[h].at = "delete" /\ \E r \in rows : r.pid = req[h].new.pid
    /\ CreateInv(h) /\ SuccessorInv(h)

\* The configuration is the one the launch claimed, once it claimed it.
ConfigInv ==
  /\ sess = [state |-> sess.state, config |-> sess.config]
  /\ launch = [at |-> launch.at, validated |-> launch.validated, started |-> launch.started, config |-> launch.config]
  /\ launch.at \in {"idle", "read"} <=> sess.state = "configuring"
  /\ sess.state # "configuring" => sess.config = launch.config

RequestType ==
  /\ DOMAIN req = Handlers
  /\ \A h \in Handlers : req[h] = [at |-> req[h].at, op |-> req[h].op, old |-> req[h].old, new |-> req[h].new]

ProfilesInv ==
  /\ TableInv /\ RequestType
  /\ \A h \in Handlers : HandlerInv(h)
  /\ OneCurrent /\ ConfigInv

-----------------------------------------------------------------------------
(* Steps that leave the table alone                                        *)

\* A step that only moves one handler: the table is unchanged, and what the
\* handler is about to write does not clash with a creation in progress.
LEMMA HandlerMoves ==
  ASSUME ProfilesInv, UNCHANGED <<rows, configVars>>,
         NEW h \in Handlers, NEW at, NEW op, NEW old, NEW new,
         req' = [req EXCEPT ![h] = [at |-> at, op |-> op, old |-> old, new |-> new]],
         HandlerInv(h)',
         at # "idle" => \A g \in Handlers \ {h} :
           req[g].at # "idle" /\ req[g].op = "create" => req[g].new.pid # new.pid
  PROVE  ProfilesInv'
<1>1. /\ req'[h] = [at |-> at, op |-> op, old |-> old, new |-> new]
      /\ \A g \in Handlers \ {h} : req'[g] = req[g]
      /\ DOMAIN req' = Handlers
  BY DEF ProfilesInv, RequestType
<1>2. RequestType'
  BY <1>1 DEF ProfilesInv, RequestType
<1>3. TableInv' /\ OneCurrent' /\ ConfigInv'
  BY DEF ProfilesInv, TableInv, HasVersion, OneCurrent, ConfigInv, configVars
<1>4. ASSUME NEW g \in Handlers \ {h} PROVE HandlerInv(g)'
  <2>1. HandlerInv(g) /\ req'[g] = req[g] /\ rows' = rows
    BY <1>1 DEF ProfilesInv
  <2>2. req[g].at # "idle" => CreateInv(g)'
    <3> SUFFICES ASSUME req[g].at # "idle", req[g].op = "create" PROVE CreateInv(g)'
      BY <2>1 DEF CreateInv
    <3>1. CreateInv(g)
      BY <2>1 DEF HandlerInv
    <3>2. ASSUME NEW f \in Handlers \ {g}, req'[f].at # "idle" PROVE req'[f].new.pid # req[g].new.pid
      <4>1. CASE f = h
        BY <4>1, <3>2, <1>1
      <4>2. CASE f # h
        BY <4>2, <3>1, <3>2, <1>1 DEF CreateInv
      <4> QED BY <4>1, <4>2
    <3> QED BY <2>1, <3>1, <3>2 DEF CreateInv
  <2>3. req[g].at # "idle" => SuccessorInv(g)'
    BY <2>1 DEF HandlerInv, SuccessorInv, HasVersion
  <2> QED BY <2>1, <2>2, <2>3 DEF HandlerInv
<1> QED BY <1>2, <1>3, <1>4 DEF ProfilesInv

\* A creation in progress has an id of its own.
LEMMA CreatorsApart ==
  ASSUME ProfilesInv, NEW g \in Handlers, req[g].at # "idle", req[g].op = "create"
  PROVE  /\ \A r \in rows : r.pid # req[g].new.pid
         /\ \A h \in Handlers \ {g} : req[h].at # "idle" => req[h].new.pid # req[g].new.pid
BY DEF ProfilesInv, HandlerInv, CreateInv

\* The rows a handler builds.
LEMMA RowType ==
  ASSUME NEW p \in Pids, NEW v \in Nat, NEW c \in Contents, NEW o \in Owners
  PROVE  Row(p, v, c, o) \in Rows /\ Row(p, v, c, o).pid = p /\ Row(p, v, c, o).ver = v
BY DEF Row, Rows

\* create_profile and clone_profile choose an id no row and no request has.
LEMMA StartCreateKeeps ==
  ASSUME ProfilesInv, NEW h \in Handlers, StartCreate(h) \/ StartClone(h)
  PROVE  ProfilesInv'
<1>1. PICK p \in Pids, c \in Contents, o \in Owners, old \in rows \cup {NoRow} :
        /\ Unused(p)
        /\ req' = [req EXCEPT ![h] = [at |-> "check", op |-> "create", old |-> old, new |-> Row(p, 1, c, o)]]
  <2>1. CASE StartCreate(h)
    BY <2>1 DEF StartCreate
  <2>2. CASE StartClone(h)
    BY <2>2 DEF StartClone
  <2> QED BY <2>1, <2>2
<1>2. UNCHANGED <<rows, configVars>>
  BY DEF StartCreate, StartClone
<1> DEFINE new == Row(p, 1, c, o)
<1>3. new \in Rows /\ new.pid = p /\ new.ver = 1
  BY RowType
<1> HIDE DEF new
<1>4. /\ req'[h] = [at |-> "check", op |-> "create", old |-> old, new |-> new]
      /\ \A g \in Handlers \ {h} : req'[g] = req[g]
  BY <1>1 DEF ProfilesInv, RequestType, new
<1>5. HandlerInv(h)'
  BY <1>1, <1>2, <1>3, <1>4 DEF HandlerInv, CreateInv, SuccessorInv, Unused
<1>6. \A g \in Handlers \ {h} : req[g].at # "idle" /\ req[g].op = "create" => req[g].new.pid # new.pid
  BY <1>1, <1>3 DEF Unused
<1> QED BY <1>1, <1>2, <1>5, <1>6, HandlerMoves DEF new

\* update_profile and rollback remember the version they read.
LEMMA StartVersionKeeps ==
  ASSUME ProfilesInv, NEW h \in Handlers, StartUpdate(h) \/ StartRollback(h)
  PROVE  ProfilesInv'
<1>1. PICK cur \in rows, c \in Contents, at \in {"check", "unset"}, op \in {"update", "rollback"} :
        req' = [req EXCEPT ![h] = [at |-> at, op |-> op, old |-> cur,
                                   new |-> Row(cur.pid, cur.ver + 1, c, cur.owner)]]
  <2>1. CASE StartUpdate(h)
    <3>1. PICK cur \in rows, c \in Contents :
            req' = [req EXCEPT ![h] = [at |-> "check", op |-> "update", old |-> cur,
                                       new |-> Row(cur.pid, cur.ver + 1, c, cur.owner)]]
      BY <2>1 DEF StartUpdate
    <3> WITNESS cur \in rows, c \in Contents, "check" \in {"check", "unset"}, "update" \in {"update", "rollback"}
    <3> QED BY <3>1
  <2>2. CASE StartRollback(h)
    <3>1. PICK cur \in rows, target \in rows :
            req' = [req EXCEPT ![h] = [at |-> "unset", op |-> "rollback", old |-> cur,
                                       new |-> Row(cur.pid, cur.ver + 1, target.name, cur.owner)]]
      BY <2>2 DEF StartRollback
    <3>2. target.name \in Contents
      BY DEF ProfilesInv, TableInv, Rows
    <3> WITNESS cur \in rows, target.name \in Contents, "unset" \in {"check", "unset"}, "rollback" \in {"update", "rollback"}
    <3> QED BY <3>1, <3>2
  <2> QED BY <2>1, <2>2
<1>2. UNCHANGED <<rows, configVars>>
  BY DEF StartUpdate, StartRollback
<1> DEFINE new == Row(cur.pid, cur.ver + 1, c, cur.owner)
<1>3. cur.pid \in Pids /\ cur.ver \in Nat /\ cur.owner \in Owners
  BY DEF ProfilesInv, TableInv, Rows
<1>4. new \in Rows /\ new.pid = cur.pid /\ new.ver = cur.ver + 1
  BY <1>1, <1>3, RowType
<1> HIDE DEF new
<1>5. /\ req'[h] = [at |-> at, op |-> op, old |-> cur, new |-> new]
      /\ \A g \in Handlers \ {h} : req'[g] = req[g]
  BY <1>1 DEF ProfilesInv, RequestType, new
<1>6. new.ver > 0 /\ new.ver - 1 = cur.ver
  BY <1>3, <1>4
<1>7. HasVersion(new.pid, new.ver - 1)'
  BY <1>2, <1>4, <1>6 DEF HasVersion
<1>8. HandlerInv(h)'
  BY <1>1, <1>4, <1>5, <1>6, <1>7 DEF HandlerInv, CreateInv, SuccessorInv
<1>9. \A g \in Handlers \ {h} : req[g].at # "idle" /\ req[g].op = "create" => req[g].new.pid # new.pid
  BY <1>4, CreatorsApart
<1> QED BY <1>1, <1>2, <1>8, <1>9, HandlerMoves DEF new

\* delete_profile remembers the row it read and writes nothing yet.
LEMMA StartDeleteKeeps ==
  ASSUME ProfilesInv, NEW h \in Handlers, StartDelete(h)
  PROVE  ProfilesInv'
<1>1. PICK cur \in rows :
        req' = [req EXCEPT ![h] = [at |-> "delete", op |-> "delete", old |-> cur, new |-> cur]]
  BY DEF StartDelete
<1>2. UNCHANGED <<rows, configVars>>
  BY DEF StartDelete
<1>3. req'[h] = [at |-> "delete", op |-> "delete", old |-> cur, new |-> cur]
  BY <1>1 DEF ProfilesInv, RequestType
<1>4. cur \in Rows
  BY DEF ProfilesInv, TableInv
<1>5. HandlerInv(h)'
  BY <1>2, <1>3, <1>4 DEF HandlerInv, CreateInv, SuccessorInv
<1>6. \A g \in Handlers \ {h} : req[g].at # "idle" /\ req[g].op = "create" => req[g].new.pid # cur.pid
  BY CreatorsApart
<1> QED BY <1>1, <1>2, <1>5, <1>6, HandlerMoves

\* The name check only moves the handler on, or ends the request.
LEMMA CheckNameKeeps ==
  ASSUME ProfilesInv, NEW h \in Handlers, CheckName(h)
  PROVE  ProfilesInv'
<1>1. /\ req[h].at = "check" /\ HandlerInv(h) /\ UNCHANGED <<rows, configVars>>
      /\ req[h] = [at |-> req[h].at, op |-> req[h].op, old |-> req[h].old, new |-> req[h].new]
  BY DEF CheckName, ProfilesInv, RequestType
<1>2. \/ req' = [req EXCEPT ![h] = Idle]
      \/ req' = [req EXCEPT ![h] = [at |-> "insert", op |-> req[h].op, old |-> req[h].old, new |-> req[h].new]]
         /\ req[h].op = "create"
      \/ req' = [req EXCEPT ![h] = [at |-> "unset", op |-> req[h].op, old |-> req[h].old, new |-> req[h].new]]
         /\ req[h].op # "create"
  <2>1. \A x : [req[h] EXCEPT !.at = x] = [at |-> x, op |-> req[h].op, old |-> req[h].old, new |-> req[h].new]
    BY <1>1
  <2>2. PICK taken \in BOOLEAN :
          req' = [req EXCEPT ![h] = IF taken THEN Idle
                    ELSE [req[h] EXCEPT !.at = IF req[h].op = "create" THEN "insert" ELSE "unset"]]
    <3> DEFINE taken == NameTaken(req[h].new.name, req[h].new.owner,
                                  IF req[h].op = "update" THEN {req[h].new.pid} ELSE {})
    <3>1. taken \in BOOLEAN
      BY DEF NameTaken
    <3>2. req' = [req EXCEPT ![h] = IF taken THEN Idle
                    ELSE [req[h] EXCEPT !.at = IF req[h].op = "create" THEN "insert" ELSE "unset"]]
      BY DEF CheckName
    <3> HIDE DEF taken
    <3> QED BY <3>1, <3>2
  <2>3. CASE taken
    BY <2>2, <2>3
  <2>4. CASE ~taken /\ req[h].op = "create"
    BY <2>1, <2>2, <2>4
  <2>5. CASE ~taken /\ req[h].op # "create"
    BY <2>1, <2>2, <2>5
  <2> QED BY <2>3, <2>4, <2>5
<1>3. CASE req' = [req EXCEPT ![h] = Idle]
  <2>1. HandlerInv(h)'
    BY <1>3 DEF HandlerInv, Idle, ProfilesInv, RequestType
  <2> QED BY <1>1, <1>3, <2>1, HandlerMoves DEF Idle
<1>4. \A g \in Handlers \ {h} : req[g].at # "idle" /\ req[g].op = "create" => req[g].new.pid # req[h].new.pid
  BY <1>1, CreatorsApart
<1>5. ASSUME req' = [req EXCEPT ![h] = [at |-> "insert", op |-> req[h].op, old |-> req[h].old, new |-> req[h].new]],
             req[h].op = "create"
      PROVE  ProfilesInv'
  <2>1. /\ req'[h] = [at |-> "insert", op |-> req[h].op, old |-> req[h].old, new |-> req[h].new]
        /\ \A g \in Handlers \ {h} : req'[g] = req[g]
    BY <1>5 DEF ProfilesInv, RequestType
  <2>2. HandlerInv(h)'
    BY <1>1, <1>5, <2>1 DEF HandlerInv, CreateInv, SuccessorInv
  <2> QED BY <1>1, <1>4, <1>5, <2>2, HandlerMoves
<1>6. ASSUME req' = [req EXCEPT ![h] = [at |-> "unset", op |-> req[h].op, old |-> req[h].old, new |-> req[h].new]],
             req[h].op # "create"
      PROVE  ProfilesInv'
  <2>1. req'[h] = [at |-> "unset", op |-> req[h].op, old |-> req[h].old, new |-> req[h].new]
    BY <1>6 DEF ProfilesInv, RequestType
  <2>2. HandlerInv(h)'
    BY <1>1, <1>6, <2>1 DEF HandlerInv, CreateInv, SuccessorInv, HasVersion
  <2> QED BY <1>1, <1>4, <1>6, <2>2, HandlerMoves
<1> QED BY <1>2, <1>3, <1>5, <1>6

-----------------------------------------------------------------------------
(* Steps that write the table                                              *)

\* A statement that only changes flags: no row appears or disappears, and none
\* becomes current.
LEMMA FlagsOnly ==
  ASSUME TableInv, OneCurrent, NEW f \in [rows -> Rows], rows' = {f[r] : r \in rows},
         \A r \in rows : f[r].pid = r.pid /\ f[r].ver = r.ver /\ (f[r].current => r.current)
  PROVE  /\ TableInv' /\ OneCurrent'
         /\ \A p, v : HasVersion(p, v)' <=> HasVersion(p, v)
<1>1. \A q \in rows' : \E r \in rows : q = f[r] /\ q.pid = r.pid /\ q.ver = r.ver /\ (q.current => r.current)
  OBVIOUS
<1>2. \A r \in rows : \E q \in rows' : q.pid = r.pid /\ q.ver = r.ver
  OBVIOUS
<1>3. \A p, v : HasVersion(p, v)' <=> HasVersion(p, v)
  BY <1>1, <1>2 DEF HasVersion
<1>4. OneCurrent'
  BY <1>1 DEF OneCurrent
<1>5. rows' \subseteq Rows
  OBVIOUS
<1>6. \A q1, q2 \in rows' : q1.pid = q2.pid /\ q1.ver = q2.ver => q1 = q2
  BY <1>1 DEF TableInv
<1>7. ASSUME NEW q \in rows', NEW v \in 1..q.ver PROVE HasVersion(q.pid, v)'
  BY <1>1, <1>3 DEF TableInv
<1> QED BY <1>3, <1>4, <1>5, <1>6, <1>7 DEF TableInv

\* Unsetting is_current leaves every version row in place.
LEMMA UnsetCurrentKeeps ==
  ASSUME ProfilesInv, NEW h \in Handlers, UnsetCurrent(h)
  PROVE  ProfilesInv'
<1> DEFINE f == [r \in rows |-> IF r.pid = req[h].new.pid THEN [r EXCEPT !.current = FALSE] ELSE r]
<1>1. /\ req[h].at = "unset" /\ rows' = {f[r] : r \in rows}
      /\ req' = [req EXCEPT ![h].at = "insert"] /\ UNCHANGED configVars
  BY DEF UnsetCurrent
<1>2. \A r \in rows : r \in Rows
  BY DEF ProfilesInv, TableInv
<1>3. ASSUME NEW r \in Rows
      PROVE  /\ [r EXCEPT !.current = FALSE] \in Rows
             /\ [r EXCEPT !.current = FALSE].pid = r.pid /\ [r EXCEPT !.current = FALSE].ver = r.ver
             /\ [r EXCEPT !.current = FALSE].current = FALSE
  BY DEF Rows
<1>4. \A r \in rows : f[r] \in Rows /\ f[r].pid = r.pid /\ f[r].ver = r.ver /\ (f[r].current => r.current)
                      /\ (r.pid = req[h].new.pid => ~f[r].current)
  BY <1>2, <1>3
<1>5. f \in [rows -> Rows]
  BY <1>4
<1> HIDE DEF f
<1>6. /\ TableInv' /\ OneCurrent'
      /\ \A p, v : HasVersion(p, v)' <=> HasVersion(p, v)
  BY <1>1, <1>4, <1>5, FlagsOnly DEF ProfilesInv
<1>7. /\ \A q \in rows' : \E r \in rows : q.pid = r.pid /\ (q.current => r.current)
      /\ \A r \in rows : \E q \in rows' : q.pid = r.pid
      /\ \A q \in rows' : q.pid = req[h].new.pid => ~q.current
  BY <1>1, <1>4
<1>8. /\ \A g \in Handlers \ {h} : req'[g] = req[g]
      /\ req'[h] = [at |-> "insert", op |-> req[h].op, old |-> req[h].old, new |-> req[h].new]
      /\ DOMAIN req' = Handlers
  BY <1>1 DEF ProfilesInv, RequestType
<1>9. RequestType'
  BY <1>8 DEF RequestType, ProfilesInv
<1>10. ConfigInv'
  BY <1>1 DEF ProfilesInv, ConfigInv, configVars
<1>11. ASSUME NEW g \in Handlers PROVE HandlerInv(g)'
  <2>1. HandlerInv(g) /\ req'[g].new = req[g].new /\ req'[g].op = req[g].op
    BY <1>8 DEF ProfilesInv
  <2>2. req'[g].at # "idle" => req[g].at # "idle" /\ (g # h => req'[g].at = req[g].at)
    BY <1>1, <1>8
  <2>3. SUFFICES ASSUME req'[g].at # "idle" PROVE HandlerInv(g)'
    BY DEF HandlerInv
  <2>4. CreateInv(g)'
    <3> SUFFICES ASSUME req[g].op = "create" PROVE CreateInv(g)'
      BY <2>1 DEF CreateInv
    <3>1. g # h
      BY <1>1, <2>1, <2>2, <2>3 DEF HandlerInv, CreateInv
    <3>2. CreateInv(g) /\ req'[g] = req[g]
      BY <1>8, <2>1, <2>2, <2>3, <3>1 DEF HandlerInv
    <3>3. \A k \in Handlers \ {g} : req'[k].at # "idle" => req'[k].new.pid # req[g].new.pid
      <4>1. \A k \in Handlers : req'[k].new = req[k].new /\ (req'[k].at # "idle" => req[k].at # "idle")
        BY <1>1, <1>8
      <4> QED BY <3>2, <4>1 DEF CreateInv
    <3> QED BY <1>7, <3>2, <3>3 DEF CreateInv
  <2>5. SuccessorInv(g)'
    <3> SUFFICES ASSUME req[g].op \in {"update", "rollback"} PROVE SuccessorInv(g)'
      BY <2>1 DEF SuccessorInv
    <3>1. SuccessorInv(g)
      BY <2>1, <2>2, <2>3 DEF HandlerInv
    <3>2. CASE g = h
      BY <3>1, <3>2, <1>6, <1>7, <1>8, <2>1 DEF SuccessorInv
    <3>3. CASE g # h
      <4>1. req'[g] = req[g]
        BY <3>3, <1>8
      <4> QED BY <3>1, <4>1, <1>6, <1>7 DEF SuccessorInv
    <3> QED BY <3>2, <3>3
  <2>6. req[g].op = "delete" => req'[g].at = "delete" /\ \E r \in rows' : r.pid = req[g].new.pid
    <3> SUFFICES ASSUME req[g].op = "delete" PROVE req'[g].at = "delete" /\ \E r \in rows' : r.pid = req[g].new.pid
      OBVIOUS
    <3>1. req[g].at = "delete" /\ \E r \in rows : r.pid = req[g].new.pid
      BY <2>1, <2>2, <2>3 DEF HandlerInv
    <3>2. g # h
      BY <3>1, <1>1
    <3> QED BY <3>1, <3>2, <1>7, <1>8
  <2>7. req[g].new \in Rows /\ req[g].op \in {"create", "update", "rollback", "delete"}
    BY <2>1, <2>2, <2>3 DEF HandlerInv
  <2> QED BY <2>1, <2>4, <2>5, <2>6, <2>7 DEF HandlerInv
<1> QED BY <1>6, <1>9, <1>10, <1>11 DEF ProfilesInv

\* A soft delete marks every version as deleted and removes no row.
LEMMA SoftDeleteKeeps ==
  ASSUME ProfilesInv, NEW h \in Handlers, SoftDelete(h)
  PROVE  ProfilesInv'
<1> DEFINE f == [r \in rows |-> IF r.pid = req[h].new.pid THEN [r EXCEPT !.deleted = TRUE] ELSE r]
<1>1. /\ req[h].at = "delete" /\ rows' = {f[r] : r \in rows}
      /\ req' = [req EXCEPT ![h] = Idle] /\ UNCHANGED configVars
  BY DEF SoftDelete
<1>2. \A r \in rows : r \in Rows
  BY DEF ProfilesInv, TableInv
<1>3. ASSUME NEW r \in Rows
      PROVE  /\ [r EXCEPT !.deleted = TRUE] \in Rows
             /\ [r EXCEPT !.deleted = TRUE].pid = r.pid /\ [r EXCEPT !.deleted = TRUE].ver = r.ver
             /\ [r EXCEPT !.deleted = TRUE].current = r.current
  BY DEF Rows
<1>4. \A r \in rows : f[r] \in Rows /\ f[r].pid = r.pid /\ f[r].ver = r.ver /\ (f[r].current => r.current)
  BY <1>2, <1>3
<1>5. f \in [rows -> Rows]
  BY <1>4
<1> HIDE DEF f
<1>6. /\ TableInv' /\ OneCurrent'
      /\ \A p, v : HasVersion(p, v)' <=> HasVersion(p, v)
  BY <1>1, <1>4, <1>5, FlagsOnly DEF ProfilesInv
<1>7. /\ \A q \in rows' : \E r \in rows : q.pid = r.pid /\ (q.current => r.current)
      /\ \A r \in rows : \E q \in rows' : q.pid = r.pid
  BY <1>1, <1>4
<1>8. /\ \A g \in Handlers \ {h} : req'[g] = req[g]
      /\ req'[h] = Idle /\ DOMAIN req' = Handlers
  BY <1>1 DEF ProfilesInv, RequestType
<1>9. RequestType'
  BY <1>8 DEF RequestType, ProfilesInv, Idle
<1>10. ConfigInv'
  BY <1>1 DEF ProfilesInv, ConfigInv, configVars
<1>11. ASSUME NEW g \in Handlers PROVE HandlerInv(g)'
  <2>1. SUFFICES ASSUME g # h, req[g].at # "idle" PROVE HandlerInv(g)'
    BY <1>8 DEF HandlerInv, Idle
  <2>2. HandlerInv(g) /\ req'[g] = req[g]
    BY <1>8, <2>1 DEF ProfilesInv
  <2>3. CreateInv(g)'
    <3>1. \A k \in Handlers \ {g} : req'[k].at # "idle" => req[k].at # "idle" /\ req'[k] = req[k]
      BY <1>8 DEF Idle
    <3> QED BY <1>7, <2>1, <2>2, <3>1 DEF HandlerInv, CreateInv
  <2>4. SuccessorInv(g)'
    BY <1>6, <1>7, <2>1, <2>2 DEF HandlerInv, SuccessorInv
  <2> QED BY <1>7, <2>1, <2>2, <2>3, <2>4 DEF HandlerInv
<1> QED BY <1>6, <1>9, <1>10, <1>11 DEF ProfilesInv

\* insert_profile: the key refuses the version, or the profile has no current
\* one.
LEMMA InsertRowKeeps ==
  ASSUME ProfilesInv, NEW h \in Handlers, InsertRow(h)
  PROVE  ProfilesInv'
<1> DEFINE new == req[h].new
<1>1. /\ req[h].at = "insert" /\ req' = [req EXCEPT ![h] = Idle] /\ UNCHANGED configVars
      /\ rows' \in {rows, Inserted([new EXCEPT !.ver = NewVersion(new)])}
  BY DEF InsertRow
<1>2. HandlerInv(h) /\ TableInv /\ OneCurrent
  BY DEF ProfilesInv
<1>3. new \in Rows
  BY <1>1, <1>2 DEF HandlerInv
<1>4. [new EXCEPT !.ver = NewVersion(new)] = new
  BY <1>3 DEF NewVersion, Rows
<1>5. /\ \A g \in Handlers \ {h} : req'[g] = req[g]
      /\ req'[h] = Idle /\ DOMAIN req' = Handlers
  BY <1>1 DEF ProfilesInv, RequestType
<1>6. CASE rows' = rows
  <2>1. HandlerInv(h)'
    BY <1>5 DEF HandlerInv, Idle
  <2> QED BY <1>1, <1>6, <2>1, HandlerMoves DEF Idle
<1>7. CASE rows' # rows
  <2>1. ~HasVersion(new.pid, new.ver) /\ rows' = rows \cup {new}
    BY <1>1, <1>4, <1>7 DEF Inserted, HasVersion
  <2>2. req[h].op \in {"create", "update", "rollback"}
    BY <1>1, <1>2 DEF HandlerInv
  <2>3. \A r \in rows : r.pid = new.pid => ~r.current
    BY <1>1, <1>2, <2>1, <2>2 DEF HandlerInv, CreateInv, SuccessorInv
  <2>4. OneCurrent'
    BY <1>2, <2>1, <2>3 DEF OneCurrent
  <2>5. /\ new.ver \in Nat /\ new.ver > 0
        /\ \A v \in 1..(new.ver - 1) : HasVersion(new.pid, v)
    <3>1. new.ver \in Nat
      BY <1>3 DEF Rows
    <3>2. CASE req[h].op = "create"
      BY <1>1, <1>2, <3>2 DEF HandlerInv, CreateInv
    <3>3. CASE req[h].op # "create"
      <4>1. new.ver > 0 /\ HasVersion(new.pid, new.ver - 1)
        BY <1>1, <1>2, <2>2, <3>3 DEF HandlerInv, SuccessorInv
      <4>2. PICK q \in rows : q.pid = new.pid /\ q.ver = new.ver - 1
        BY <4>1 DEF HasVersion
      <4>3. \A v \in 1..q.ver : HasVersion(q.pid, v)
        BY <1>2 DEF TableInv
      <4> QED BY <3>1, <4>1, <4>2, <4>3
    <3> QED BY <3>2, <3>3
  <2>6. \A p, v : HasVersion(p, v)' <=> HasVersion(p, v) \/ (p = new.pid /\ v = new.ver)
    BY <2>1 DEF HasVersion
  <2> HIDE DEF new
  <2>7. TableInv'
    <3>1. rows' \subseteq Rows
      BY <1>2, <1>3, <2>1 DEF TableInv
    <3>2. \A r, q \in rows' : r.pid = q.pid /\ r.ver = q.ver => r = q
      BY <1>2, <2>1 DEF TableInv, HasVersion
    <3>3. ASSUME NEW r \in rows', NEW v \in 1..r.ver PROVE HasVersion(r.pid, v)'
      <4>1. CASE r \in rows
        BY <4>1, <1>2, <2>6 DEF TableInv
      <4>2. CASE r = new
        <5>1. v \in 1..(new.ver - 1) \/ v = new.ver
          BY <4>2, <2>5
        <5> QED BY <5>1, <4>2, <2>5, <2>6
      <4> QED BY <4>1, <4>2, <2>1
    <3> QED BY <3>1, <3>2, <3>3 DEF TableInv
  <2>8. ASSUME NEW g \in Handlers PROVE HandlerInv(g)'
    <3>1. SUFFICES ASSUME g # h, req[g].at # "idle" PROVE HandlerInv(g)'
      BY <1>5 DEF HandlerInv, Idle
    <3>2. HandlerInv(g) /\ req'[g] = req[g]
      BY <1>5, <3>1 DEF ProfilesInv
    <3>3. CreateInv(g)'
      <4> SUFFICES ASSUME req[g].op = "create" PROVE CreateInv(g)'
        BY <3>2 DEF CreateInv
      <4>1. CreateInv(g)
        BY <3>1, <3>2 DEF HandlerInv
      <4>2. new.pid # req[g].new.pid
        BY <1>1, <3>1, <4>1 DEF CreateInv, new
      <4>3. \A k \in Handlers \ {g} : req'[k].at # "idle" => req[k].at # "idle" /\ req'[k] = req[k]
        BY <1>5 DEF Idle
      <4> QED BY <2>1, <3>2, <4>1, <4>2, <4>3 DEF CreateInv
    <3>4. SuccessorInv(g)'
      <4> DEFINE other == req[g].new
      <4> SUFFICES ASSUME req[g].op \in {"update", "rollback"} PROVE SuccessorInv(g)'
        BY <3>2 DEF SuccessorInv
      <4>1. SuccessorInv(g) /\ other \in Rows
        BY <3>1, <3>2 DEF HandlerInv
      <4>2. other.ver \in Nat /\ other.ver > 0 /\ HasVersion(other.pid, other.ver - 1)
        BY <4>1 DEF SuccessorInv, Rows
      <4>3. ASSUME other.pid = new.pid, ~HasVersion(other.pid, other.ver), other.ver # new.ver PROVE FALSE
        <5>1. CASE other.ver < new.ver
          <6>1. other.ver \in 1..(new.ver - 1)
            BY <5>1, <4>2, <2>5
          <6> QED BY <6>1, <4>3, <2>5
        <5>2. CASE new.ver < other.ver
          <6>1. PICK q \in rows : q.pid = other.pid /\ q.ver = other.ver - 1
            BY <4>2 DEF HasVersion
          <6>2. new.ver \in 1..q.ver
            BY <5>2, <6>1, <4>2, <2>5
          <6>3. HasVersion(q.pid, new.ver)
            BY <6>2, <1>2 DEF TableInv
          <6> QED BY <6>1, <6>3, <4>3, <2>1
        <5> QED BY <5>1, <5>2, <4>2, <4>3, <2>5
      <4>4. ASSUME req[g].at = "insert", ~HasVersion(other.pid, other.ver)', NEW r \in rows', r.pid = other.pid
            PROVE  ~r.current
        <5>0. \A q \in rows' : ~(q.pid = other.pid /\ q.ver = other.ver)
          BY <4>4, <3>2 DEF HasVersion
        <5>1. other.pid # new.pid /\ ~HasVersion(other.pid, other.ver)
          BY <5>0, <4>3, <2>1 DEF HasVersion
        <5>2. r \in rows
          BY <5>1, <4>4, <2>1
        <5> QED BY <5>1, <5>2, <4>1, <4>4 DEF SuccessorInv
      <4> QED BY <4>1, <4>4, <3>2, <2>6 DEF SuccessorInv
    <3> QED BY <2>1, <3>1, <3>2, <3>3, <3>4 DEF HandlerInv
  <2>9. RequestType' /\ ConfigInv'
    BY <1>1, <1>5 DEF RequestType, ProfilesInv, Idle, ConfigInv, configVars
  <2> QED BY <2>4, <2>7, <2>8, <2>9 DEF ProfilesInv
<1> QED BY <1>6, <1>7

-----------------------------------------------------------------------------
(* Configuring and launching the session                                   *)

\* A change of the configuration needs the state it read to hold still, and the
\* launch takes over what the row has when it claims it.
LEMMA ConfigKeeps ==
  ASSUME ProfilesInv, ConfigNext
  PROVE  ProfilesInv'
<1>1. UNCHANGED profileVars
  BY DEF ConfigNext, StartSetting, DeleteAssignments, InsertAssignment, PatchSession, StartLaunch, ClaimLaunch,
         ValidateLaunch, TakeLaunch, Dispatch
<1>2. TableInv' /\ RequestType' /\ OneCurrent' /\ \A h \in Handlers : HandlerInv(h)'
  BY <1>1 DEF profileVars, ProfilesInv, TableInv, RequestType, OneCurrent, HandlerInv, CreateInv, SuccessorInv, HasVersion
<1>3. ConfigInv
  BY DEF ProfilesInv
<1>4. CASE UNCHANGED <<sess, launch>>
  BY <1>2, <1>3, <1>4 DEF ProfilesInv, ConfigInv
<1>5. CASE PatchSession
  <2>1. ConfigInv'
    BY <1>3, <1>5 DEF ConfigInv, PatchSession, PatchApplies
  <2> QED BY <1>2, <2>1 DEF ProfilesInv
<1>6. CASE StartLaunch
  <2>1. ConfigInv'
    BY <1>3, <1>6 DEF ConfigInv, StartLaunch
  <2> QED BY <1>2, <2>1 DEF ProfilesInv
<1>7. CASE ClaimLaunch
  <2>1. ConfigInv'
    BY <1>3, <1>7 DEF ConfigInv, ClaimLaunch
  <2> QED BY <1>2, <2>1 DEF ProfilesInv
<1>8. CASE ValidateLaunch
  <2>1. PICK at \in {"refused", "validated"} : launch' = [launch EXCEPT !.at = at, !.validated = assigned]
    BY <1>8 DEF ValidateLaunch
  <2>2. ConfigInv'
    BY <1>3, <1>8, <2>1 DEF ConfigInv, ValidateLaunch
  <2> QED BY <1>2, <2>2 DEF ProfilesInv
<1>9. CASE TakeLaunch
  <2>1. ConfigInv'
    BY <1>3, <1>9 DEF ConfigInv, TakeLaunch
  <2> QED BY <1>2, <2>1 DEF ProfilesInv
<1>10. CASE Dispatch
  <2>1. ConfigInv'
    BY <1>3, <1>10 DEF ConfigInv, Dispatch
  <2> QED BY <1>2, <2>1 DEF ProfilesInv
<1>11. CASE StartSetting \/ DeleteAssignments \/ InsertAssignment
  BY <1>4, <1>11 DEF StartSetting, DeleteAssignments, InsertAssignment
<1> QED BY <1>5, <1>6, <1>7, <1>8, <1>9, <1>10, <1>11 DEF ConfigNext

-----------------------------------------------------------------------------

\* No row and no request at first.
LEMMA ProfilesInvInit == ProfilesInit /\ ConfigInit => ProfilesInv
<1> SUFFICES ASSUME ProfilesInit, ConfigInit PROVE ProfilesInv
  OBVIOUS
<1>1. TableInv /\ OneCurrent
  BY DEF ProfilesInit, TableInv, OneCurrent
<1>2. RequestType /\ \A h \in Handlers : HandlerInv(h)
  BY DEF ProfilesInit, RequestType, HandlerInv, Idle
<1>3. ConfigInv
  BY DEF ConfigInit, ConfigInv
<1> QED BY <1>1, <1>2, <1>3 DEF ProfilesInv

\* Every step of a handler keeps the invariant.
LEMMA ProfilesInvStep ==
  ProfilesInv /\ [ProfilesNext \/ ConfigNext]_<<profileVars, configVars>> => ProfilesInv'
<1> SUFFICES ASSUME ProfilesInv, [ProfilesNext \/ ConfigNext]_<<profileVars, configVars>>
             PROVE  ProfilesInv'
  OBVIOUS
<1>1. ASSUME NEW h \in Handlers,
             \/ StartCreate(h) \/ StartClone(h) \/ StartUpdate(h) \/ StartRollback(h) \/ StartDelete(h)
             \/ CheckName(h) \/ UnsetCurrent(h) \/ InsertRow(h) \/ SoftDelete(h)
      PROVE  ProfilesInv'
  BY <1>1, StartCreateKeeps, StartVersionKeeps, StartDeleteKeeps, CheckNameKeeps, UnsetCurrentKeeps,
     InsertRowKeeps, SoftDeleteKeeps
<1>2. CASE ConfigNext
  BY <1>2, ConfigKeeps
<1>3. CASE UNCHANGED <<profileVars, configVars>>
  BY <1>3 DEF profileVars, configVars, ProfilesInv, TableInv, RequestType, OneCurrent, HandlerInv, CreateInv,
              SuccessorInv, HasVersion, ConfigInv
<1> QED BY <1>1, <1>2, <1>3 DEF ProfilesNext

\* A statement never takes a version away or changes its content.
LEMMA AppendOnlyStep ==
  ASSUME ProfilesInv, [ProfilesNext \/ ConfigNext]_<<profileVars, configVars>>, NEW r \in rows
  PROVE  \E q \in rows' : q.pid = r.pid /\ q.ver = r.ver /\ q.name = r.name /\ q.owner = r.owner
<1>1. r \in Rows
  BY DEF ProfilesInv, TableInv
<1>2. CASE rows \subseteq rows'
  BY <1>2
<1>3. ASSUME NEW h \in Handlers, UnsetCurrent(h)
      PROVE  \E q \in rows' : q.pid = r.pid /\ q.ver = r.ver /\ q.name = r.name /\ q.owner = r.owner
  <2>1. (IF r.pid = req[h].new.pid THEN [r EXCEPT !.current = FALSE] ELSE r) \in rows'
    BY <1>3 DEF UnsetCurrent
  <2> QED BY <1>1, <2>1 DEF Rows
<1>4. ASSUME NEW h \in Handlers, SoftDelete(h)
      PROVE  \E q \in rows' : q.pid = r.pid /\ q.ver = r.ver /\ q.name = r.name /\ q.owner = r.owner
  <2>1. (IF r.pid = req[h].new.pid THEN [r EXCEPT !.deleted = TRUE] ELSE r) \in rows'
    BY <1>4 DEF SoftDelete
  <2> QED BY <1>1, <2>1 DEF Rows
<1>5. ASSUME NEW h \in Handlers, InsertRow(h) PROVE rows \subseteq rows'
  BY <1>5 DEF InsertRow, Inserted
<1>6. ASSUME NEW h \in Handlers,
             \/ StartCreate(h) \/ StartClone(h) \/ StartUpdate(h) \/ StartRollback(h) \/ StartDelete(h) \/ CheckName(h)
      PROVE  rows' = rows
  BY <1>6 DEF StartCreate, StartClone, StartUpdate, StartRollback, StartDelete, CheckName
<1>7. ASSUME ConfigNext \/ UNCHANGED <<profileVars, configVars>> PROVE rows' = rows
  BY <1>7 DEF ConfigNext, StartSetting, DeleteAssignments, InsertAssignment, PatchSession, StartLaunch, ClaimLaunch,
              ValidateLaunch, TakeLaunch, Dispatch, profileVars
<1> QED BY <1>2, <1>3, <1>4, <1>5, <1>6, <1>7 DEF ProfilesNext

\* However many handlers of create_profile, update_profile, rollback and
\* delete_profile interleave, and wherever one of them fails, a profile has at
\* most one current version, its versions are append-only, and a session keeps
\* the configuration it was launched with.
THEOREM ProfileVersionsAreSound == ProfilesSpec => ProfilesSound
<1>1. ProfilesInit /\ ConfigInit => ProfilesInv
  BY ProfilesInvInit
<1>2. ProfilesInv /\ [ProfilesNext \/ ConfigNext]_<<profileVars, configVars>> => ProfilesInv'
  BY ProfilesInvStep
<1>3. ProfilesInv => OneCurrent /\ ConfigFrozen
  BY DEF ProfilesInv, ConfigInv, ConfigFrozen
<1>4. ProfilesInv /\ [ProfilesNext \/ ConfigNext]_<<profileVars, configVars>>
        => [KeepsVersions]_rows
  BY AppendOnlyStep DEF KeepsVersions
<1>5. ProfilesSpec => []ProfilesInv
  BY <1>1, <1>2, PTL DEF ProfilesSpec
<1>6. ProfilesSpec => VersionsAppendOnly
  BY <1>4, <1>5, PTL DEF ProfilesSpec, VersionsAppendOnly
<1>7. ProfilesSpec => [](OneCurrent /\ ConfigFrozen)
  BY <1>3, <1>5, PTL
<1> QED BY <1>6, <1>7 DEF ProfilesSound
-----------------------------------------------------------------------------
(* Accounts                                                                *)

SessionsOf(u) == {l \in logins : l.user = u}

\* The logins that have deleted the sessions of u and will insert one.
Inserting(u) == {c \in Clients : run[c].at = "session" /\ run[c].target = u}

\* The logins that have passed the check and may still record a failure.
Passed == {c \in Clients : run[c].at \in {"lookup", "fail"}}
PassedFor(u) == {c \in Passed : run[c].target = u}

FailuresOf(u) == {a \in attempts : a.user = u}

\* A request under way.
Call(at, op, actor, target, arg, counted, id) ==
  [at |-> at, op |-> op, actor |-> actor, target |-> target, arg |-> arg, counted |-> counted, id |-> id]

IsCall(r) == r = Call(r.at, r.op, r.actor, r.target, r.arg, r.counted, r.id)

CallShape ==
  /\ DOMAIN run = Clients /\ DOMAIN users = UserIds
  /\ \A c \in Clients :
       IsCall(run[c])

\* No request that counted one administrator went on to remove it.
NeverCountedOne == \A c \in Clients : run[c].counted # 1

\* A request about to write its audit entry has committed; a login is one
\* from its check to its session.
AuditStage ==
  /\ audit \subseteq done
  /\ \A c \in Clients :
       /\ run[c].at = "audit" => <<run[c].op, run[c].target>> \in done
       /\ run[c].at = "session" => run[c].op = "login"
       /\ run[c].at \in {"lookup", "rotate"} => run[c].op = "login"

SessionBudget ==
  /\ IsFiniteSet(logins)
  /\ \A u \in UserIds : Cardinality(SessionsOf(u)) + Cardinality(Inserting(u)) <= Cardinality(Clients)

FailureBudget ==
  /\ IsFiniteSet(attempts)
  /\ \A u \in UserIds :
       Cardinality(FailuresOf(u)) + Cardinality(PassedFor(u)) <= MaxPerAccount + Cardinality(Clients) - 1
  /\ Cardinality(attempts) + Cardinality(Passed) <= MaxPerIp + Cardinality(Clients) - 1

\* The bootstrap credential: made once, on disk when the first start got that far.
BootInv ==
  /\ boot = [at |-> boot.at, here |-> boot.here, pending |-> boot.pending, password |-> boot.password,
             file |-> boot.file, lost |-> boot.lost, made |-> boot.made]
  /\ boot.made \in Nat
  /\ ~boot.here => boot.made = 0 /\ boot.at = "down"
  /\ boot.at = "inserted" => boot.here /\ boot.pending /\ boot.made # 0 /\ boot.password = boot.made
  /\ boot.at # "inserted" /\ boot.here /\ boot.password # Own /\ ~boot.lost =>
       boot.pending /\ boot.file = boot.password /\ boot.file # 0

AccountsInv ==
  /\ CallShape /\ NeverCountedOne /\ AuditStage
  /\ SessionBudget /\ FailureBudget /\ BootInv

\* A request that moves from one set to a new row of another keeps the sum.
LEMMA SumKept ==
  ASSUME NEW A, IsFiniteSet(A), NEW B, IsFiniteSet(B), NEW x, NEW c \in B,
         NEW A1, A1 \subseteq A \cup {x}, NEW B1, B1 \subseteq B \ {c}
  PROVE  IsFiniteSet(A1) /\ Cardinality(A1) + Cardinality(B1) <= Cardinality(A) + Cardinality(B)
<1>1. IsFiniteSet(A \cup {x}) /\ Cardinality(A \cup {x}) <= Cardinality(A) + 1 /\ Cardinality(A) \in Nat
  <2>1. /\ IsFiniteSet(A \cup {x})
        /\ Cardinality(A \cup {x}) = IF x \in A THEN Cardinality(A) ELSE Cardinality(A) + 1
    BY FS_AddElement
  <2>2. Cardinality(A) \in Nat
    BY FS_CardinalityType
  <2> QED BY <2>1, <2>2
<1>2. IsFiniteSet(B \ {c}) /\ Cardinality(B \ {c}) = Cardinality(B) - 1 /\ Cardinality(B) \in Nat
  BY FS_RemoveElement, FS_CardinalityType
<1>3. IsFiniteSet(A1) /\ Cardinality(A1) <= Cardinality(A \cup {x})
  BY <1>1, FS_Subset
<1>4. IsFiniteSet(B1) /\ Cardinality(B1) <= Cardinality(B \ {c})
  BY <1>2, FS_Subset
<1>5. Cardinality(A1) \in Nat /\ Cardinality(B1) \in Nat /\ Cardinality(A \cup {x}) \in Nat
  BY <1>1, <1>3, <1>4, FS_CardinalityType
<1> QED BY <1>1, <1>2, <1>3, <1>4, <1>5

\* Smaller sets have a smaller sum.
LEMMA SumShrinks ==
  ASSUME NEW A, IsFiniteSet(A), NEW B, IsFiniteSet(B),
         NEW A1, A1 \subseteq A, NEW B1, B1 \subseteq B
  PROVE  IsFiniteSet(A1) /\ Cardinality(A1) + Cardinality(B1) <= Cardinality(A) + Cardinality(B)
<1>1. IsFiniteSet(A1) /\ Cardinality(A1) <= Cardinality(A) /\ Cardinality(A) \in Nat /\ Cardinality(A1) \in Nat
  BY FS_Subset, FS_CardinalityType
<1>2. IsFiniteSet(B1) /\ Cardinality(B1) <= Cardinality(B) /\ Cardinality(B) \in Nat /\ Cardinality(B1) \in Nat
  BY FS_Subset, FS_CardinalityType
<1> QED BY <1>1, <1>2

\* The sets of clients and of rows are finite, and no more clients than there are.
LEMMA CountFacts ==
  ASSUME SessionBudget, FailureBudget, NEW u
  PROVE  /\ IsFiniteSet(SessionsOf(u)) /\ IsFiniteSet(FailuresOf(u))
         /\ IsFiniteSet(Inserting(u)) /\ IsFiniteSet(Passed) /\ IsFiniteSet(PassedFor(u))
<1>1. SessionsOf(u) \subseteq logins /\ FailuresOf(u) \subseteq attempts
  BY DEF SessionsOf, FailuresOf
<1>2. Inserting(u) \subseteq Clients /\ Passed \subseteq Clients /\ PassedFor(u) \subseteq Clients
  BY DEF Inserting, Passed, PassedFor
<1> QED BY <1>1, <1>2, FS_Subset, AccountsAssumption DEF SessionBudget, FailureBudget

\* A step that inserts no session and lets no new request reach the insertion.
LEMMA SessionsShrink ==
  ASSUME AccountsInv, logins' \subseteq logins, \A u \in UserIds : Inserting(u)' \subseteq Inserting(u)
  PROVE  SessionBudget'
<1> SUFFICES ASSUME NEW u \in UserIds
             PROVE  IsFiniteSet(logins') /\ Cardinality(SessionsOf(u)') + Cardinality(Inserting(u)') <= Cardinality(Clients)
  <2>1. IsFiniteSet(logins')
    BY FS_Subset DEF AccountsInv, SessionBudget
  <2> QED BY <2>1 DEF SessionBudget
<1>0. SessionBudget /\ FailureBudget
  BY DEF AccountsInv
<1>1. IsFiniteSet(logins')
  BY <1>0, FS_Subset DEF SessionBudget
<1>2. IsFiniteSet(SessionsOf(u)) /\ IsFiniteSet(Inserting(u))
  BY <1>0, CountFacts
<1>3. SessionsOf(u)' \subseteq SessionsOf(u) /\ Inserting(u)' \subseteq Inserting(u)
  BY DEF SessionsOf
<1>4. Cardinality(SessionsOf(u)') + Cardinality(Inserting(u)') <= Cardinality(SessionsOf(u)) + Cardinality(Inserting(u))
  BY <1>2, <1>3, SumShrinks
<1>5. IsFiniteSet(SessionsOf(u)') /\ IsFiniteSet(Inserting(u)')
  BY <1>2, <1>3, FS_Subset
<1>6. /\ Cardinality(SessionsOf(u)') \in Nat /\ Cardinality(Inserting(u)') \in Nat
      /\ Cardinality(SessionsOf(u)) \in Nat /\ Cardinality(Inserting(u)) \in Nat /\ Cardinality(Clients) \in Nat
  BY <1>2, <1>5, FS_CardinalityType, AccountsAssumption
<1> QED BY <1>0, <1>1, <1>4, <1>6 DEF SessionBudget

\* A step that records no failure and lets no new request pass the check.
LEMMA FailuresShrink ==
  ASSUME AccountsInv, attempts' \subseteq attempts, Passed' \subseteq Passed,
         \A c \in Passed' : run'[c].target = run[c].target
  PROVE  FailureBudget'
<1>0. SessionBudget /\ FailureBudget
  BY DEF AccountsInv
<1>1. IsFiniteSet(attempts) /\ IsFiniteSet(Passed)
  BY <1>0, CountFacts DEF FailureBudget
<1>2. IsFiniteSet(attempts') /\ Cardinality(attempts') + Cardinality(Passed') <= Cardinality(attempts) + Cardinality(Passed)
  BY <1>1, SumShrinks
<1>n. MaxPerIp \in Nat /\ MaxPerAccount \in Nat /\ Cardinality(Clients) \in Nat
  BY AccountsAssumption, FS_CardinalityType
<1>3. /\ Cardinality(attempts') \in Nat /\ Cardinality(Passed') \in Nat
      /\ Cardinality(attempts) \in Nat /\ Cardinality(Passed) \in Nat
  <2>1. IsFiniteSet(Passed')
    BY <1>1, FS_Subset
  <2> QED BY <1>1, <1>2, <2>1, FS_CardinalityType
<1>4. Cardinality(attempts') + Cardinality(Passed') <= MaxPerIp + Cardinality(Clients) - 1
  BY <1>0, <1>2, <1>3, <1>n DEF FailureBudget
<1>5. ASSUME NEW u \in UserIds
      PROVE  Cardinality(FailuresOf(u)') + Cardinality(PassedFor(u)') <= MaxPerAccount + Cardinality(Clients) - 1
  <2>1. FailuresOf(u)' \subseteq FailuresOf(u) /\ PassedFor(u)' \subseteq PassedFor(u)
    BY DEF FailuresOf, PassedFor
  <2>2. IsFiniteSet(FailuresOf(u)) /\ IsFiniteSet(PassedFor(u))
    BY <1>0, CountFacts
  <2>3. Cardinality(FailuresOf(u)') + Cardinality(PassedFor(u)') <= Cardinality(FailuresOf(u)) + Cardinality(PassedFor(u))
    BY <2>1, <2>2, SumShrinks
  <2>4. IsFiniteSet(FailuresOf(u)') /\ IsFiniteSet(PassedFor(u)')
    BY <2>1, <2>2, FS_Subset
  <2>5. /\ Cardinality(FailuresOf(u)') \in Nat /\ Cardinality(PassedFor(u)') \in Nat
        /\ Cardinality(FailuresOf(u)) \in Nat /\ Cardinality(PassedFor(u)) \in Nat
    BY <2>2, <2>4, FS_CardinalityType
  <2> QED BY <1>0, <2>3, <2>5, <1>n DEF FailureBudget
<1> QED BY <1>2, <1>4, <1>5 DEF FailureBudget

\* The fields of a request, and of no request.
LEMMA CallFields ==
  /\ IsCall(NoCall) /\ NoCall.at = "idle" /\ NoCall.counted = 0 /\ NoCall.op = "none"
  /\ \A at, op, actor, target, arg, counted, id :
       LET r == Call(at, op, actor, target, arg, counted, id)
       IN  IsCall(r) /\ r.at = at /\ r.op = op /\ r.target = target /\ r.counted = counted /\ r.id = id
<1>1. NoCall = Call("idle", "none", Anyone, Anyone, 0, 0, 0)
  BY DEF Call, NoCall
<1>2. ASSUME NEW at, NEW op, NEW actor, NEW target, NEW arg, NEW counted, NEW id, NEW r,
             r = Call(at, op, actor, target, arg, counted, id)
      PROVE  /\ r.at = at /\ r.op = op /\ r.actor = actor /\ r.target = target /\ r.arg = arg
             /\ r.counted = counted /\ r.id = id /\ IsCall(r)
  <2>1. /\ r.at = at /\ r.op = op /\ r.actor = actor /\ r.target = target /\ r.arg = arg
        /\ r.counted = counted /\ r.id = id
    BY <1>2 DEF Call
  <2>2. r = Call(r.at, r.op, r.actor, r.target, r.arg, r.counted, r.id)
    BY <1>2, <2>1
  <2> QED BY <2>1, <2>2 DEF IsCall
<1>3. IsCall(NoCall) /\ NoCall.at = "idle" /\ NoCall.counted = 0 /\ NoCall.op = "none"
  BY <1>1, <1>2
<1> QED BY <1>2, <1>3

\* The updates the handlers make to their state.
LEMMA CallExcept ==
  ASSUME NEW r, IsCall(r)
  PROVE  /\ \A at : [r EXCEPT !.at = at] = Call(at, r.op, r.actor, r.target, r.arg, r.counted, r.id)
         /\ \A at, m : [r EXCEPT !.at = at, !.counted = m] = Call(at, r.op, r.actor, r.target, r.arg, m, r.id)
<1>1. PICK at, op, actor, target, arg, counted, id : r = Call(at, op, actor, target, arg, counted, id)
  BY DEF IsCall
<1>2. ASSUME NEW x
      PROVE  [Call(at, op, actor, target, arg, counted, id) EXCEPT !.at = x] = Call(x, op, actor, target, arg, counted, id)
  BY DEF Call
<1>m. ASSUME NEW x, NEW m
      PROVE  [Call(x, op, actor, target, arg, counted, id) EXCEPT !.counted = m] = Call(x, op, actor, target, arg, m, id)
  BY DEF Call
<1>3. /\ r.op = op /\ r.actor = actor /\ r.target = target /\ r.arg = arg /\ r.counted = counted /\ r.id = id
  BY <1>1 DEF Call
<1>4. \A x : [r EXCEPT !.at = x] = Call(x, op, actor, target, arg, counted, id)
  BY <1>1, <1>2
<1>5. ASSUME NEW x, NEW m
      PROVE  [r EXCEPT !.at = x, !.counted = m] = Call(x, op, actor, target, arg, m, id)
  <2>1. [r EXCEPT !.at = x, !.counted = m] = [[r EXCEPT !.at = x] EXCEPT !.counted = m]
    OBVIOUS
  <2>2. [r EXCEPT !.at = x] = Call(x, op, actor, target, arg, counted, id)
    BY <1>4
  <2>3. [Call(x, op, actor, target, arg, counted, id) EXCEPT !.counted = m] = Call(x, op, actor, target, arg, m, id)
    BY <1>m
  <2> QED BY <2>1, <2>2, <2>3
<1> QED BY <1>1, <1>3, <1>4, <1>5

\* A step of client c from one handler state to another leaves the others.
LEMMA CallMoves ==
  ASSUME CallShape, NEW c \in Clients, NEW r, run' = [run EXCEPT ![c] = r]
  PROVE  run'[c] = r /\ DOMAIN run' = Clients /\ \A d \in Clients \ {c} : run'[d] = run[d]
BY DEF CallShape

\* A handler that is in none of the counted states before or after the step, or
\* keeps its target while it moves among them, leaves both budgets alone.
LEMMA QuietBudgets ==
  ASSUME AccountsInv, NEW c \in Clients, logins' \subseteq logins, attempts' \subseteq attempts,
         \A d \in Clients \ {c} : run'[d] = run[d],
         run'[c].at # "session",
         run'[c].at \in {"lookup", "fail"} => run[c].at \in {"lookup", "fail"} /\ run'[c].target = run[c].target
  PROVE  SessionBudget' /\ FailureBudget'
<1>1. \A u \in UserIds : Inserting(u)' \subseteq Inserting(u)
  BY DEF Inserting
<1>2. Passed' \subseteq Passed /\ \A d \in Passed' : run'[d].target = run[d].target
  BY DEF Passed
<1> QED BY <1>1, <1>2, SessionsShrink, FailuresShrink

\* What a step of c leaves behind in its own handler, and nowhere else.
LEMMA StageKept ==
  ASSUME AccountsInv, NEW c \in Clients, \A d \in Clients \ {c} : run'[d] = run[d], done \subseteq done',
         audit' \subseteq done', DOMAIN run' = Clients, DOMAIN users' = UserIds,
         IsCall(run'[c]),
         run'[c].counted # 1,
         run'[c].at = "audit" => <<run'[c].op, run'[c].target>> \in done',
         run'[c].at \in {"session", "lookup", "rotate"} => run'[c].op = "login"
  PROVE  CallShape' /\ NeverCountedOne' /\ AuditStage'
<1>1. CallShape /\ NeverCountedOne /\ AuditStage
  BY DEF AccountsInv
<1>2. CallShape'
  BY <1>1 DEF CallShape
<1>3. NeverCountedOne'
  BY <1>1 DEF NeverCountedOne
<1>4. AuditStage'
  BY <1>1 DEF AuditStage
<1> QED BY <1>2, <1>3, <1>4

\* A request starts, counts the administrators, verifies a password, logs: the
\* tables stay as they are.
LEMMA CallKeeps ==
  ASSUME AccountsInv, NEW c \in Clients, StartCall(c) \/ GuardAdmins(c) \/ VerifyPassword(c) \/ LogAudit(c)
  PROVE  CallShape' /\ NeverCountedOne' /\ AuditStage' /\ SessionBudget' /\ FailureBudget'
<1>0. /\ CallShape /\ NeverCountedOne /\ AuditStage
      /\ IsCall(run[c])
  BY DEF AccountsInv, CallShape
<1>1. UNCHANGED <<users, logins, attempts, done>> /\ audit' \subseteq done'
  BY <1>0 DEF StartCall, GuardAdmins, VerifyPassword, LogAudit, AuditStage
<1>2. ASSUME NEW at, NEW op, NEW u, NEW target, NEW arg, NEW m, NEW id, m # 1,
             run' = [run EXCEPT ![c] = Call(at, op, u, target, arg, m, id)]
      PROVE  IsCall(run'[c]) /\ run'[c].counted # 1 /\ run'[c].at = at
  <2>1. run'[c] = Call(at, op, u, target, arg, m, id)
    BY <1>0, <1>2, CallMoves
  <2> QED BY <1>2, <2>1, CallFields
<1>n. ASSUME run' = [run EXCEPT ![c] = NoCall]
      PROVE  IsCall(run'[c]) /\ run'[c].counted # 1 /\ run'[c].at = "idle"
  <2>1. run'[c] = NoCall
    BY <1>0, <1>n, CallMoves
  <2> QED BY <2>1, CallFields
<1>3. /\ IsCall(run'[c]) /\ run'[c].counted # 1 /\ run'[c].at \in {"idle", "guard", "verify", "write"}
      /\ DOMAIN run' = Clients /\ \A d \in Clients \ {c} : run'[d] = run[d]
  <2>1. CASE StartCall(c)
    <3>1. PICK op, u, target, arg, id :
            run' = [run EXCEPT ![c] = Call(IF op \in {"set_role", "disable"} THEN "guard"
                                           ELSE IF op = "change_password" THEN "verify" ELSE "write",
                                           op, u, target, arg, 0, id)]
      BY <2>1 DEF StartCall, Call
    <3>2. PICK at \in {"guard", "verify", "write"} : run' = [run EXCEPT ![c] = Call(at, op, u, target, arg, 0, id)]
      BY <3>1
    <3>3. 0 # 1
      OBVIOUS
    <3>4. IsCall(run'[c]) /\ run'[c].counted # 1 /\ run'[c].at = at
      BY <3>2, <3>3, <1>2
    <3> QED BY <1>0, <3>2, <3>4, CallMoves
  <2>2. CASE GuardAdmins(c)
    <3> DEFINE removes == /\ users[run[c].target].role = "admin"
                          /\ run[c].op = "disable" \/ NewRole(run[c].arg) # "admin"
               count == Cardinality(ActiveAdmins(users))
               m == IF removes THEN count ELSE 0
    <3>1. run' = [run EXCEPT ![c] = IF removes /\ LastAdmin(count) THEN NoCall
                                    ELSE [run[c] EXCEPT !.at = "write", !.counted = m]]
      BY <2>2 DEF GuardAdmins
    <3>2. LastAdmin(1)
      BY DEF LastAdmin
    <3> HIDE DEF removes, count
    <3>3. CASE removes /\ LastAdmin(count)
      <4>1. run' = [run EXCEPT ![c] = NoCall]
        BY <3>1, <3>3
      <4> QED BY <1>0, <1>n, <4>1, CallMoves
    <3>4. CASE ~(removes /\ LastAdmin(count))
      <4>1. m # 1
        BY <3>2, <3>4
      <4> HIDE DEF m
      <4>2. run' = [run EXCEPT ![c] = Call("write", run[c].op, run[c].actor, run[c].target, run[c].arg, m, run[c].id)]
        BY <1>0, <3>1, <3>4, CallExcept
      <4> QED BY <1>0, <1>2, <4>1, <4>2, CallMoves
    <3> QED BY <3>3, <3>4
  <2>3. CASE VerifyPassword(c)
    <3>1. run' = [run EXCEPT ![c] = NoCall] \/ run' = [run EXCEPT ![c] = [run[c] EXCEPT !.at = "write"]]
      BY <2>3 DEF VerifyPassword
    <3>2. CASE run' = [run EXCEPT ![c] = NoCall]
      BY <1>0, <1>n, <3>2, CallMoves
    <3>3. CASE run' = [run EXCEPT ![c] = [run[c] EXCEPT !.at = "write"]]
      <4>1. run' = [run EXCEPT ![c] = Call("write", run[c].op, run[c].actor, run[c].target, run[c].arg, run[c].counted, run[c].id)]
        BY <1>0, <3>3, CallExcept
      <4>2. run[c].counted # 1
        BY <1>0 DEF NeverCountedOne
      <4> QED BY <1>0, <1>2, <4>1, <4>2, CallMoves
    <3> QED BY <3>1, <3>2, <3>3
  <2>4. CASE LogAudit(c)
    <3>1. run' = [run EXCEPT ![c] = NoCall]
      BY <2>4 DEF LogAudit
    <3> QED BY <1>0, <1>n, <3>1, CallMoves
  <2> QED BY <2>1, <2>2, <2>3, <2>4
<1>4. CallShape' /\ NeverCountedOne' /\ AuditStage'
  BY <1>0, <1>1, <1>3, StageKept DEF CallShape
<1>5. SessionBudget' /\ FailureBudget'
  BY <1>1, <1>3, QuietBudgets
<1> QED BY <1>4, <1>5

\* The statement of a handler: it commits before its audit entry, removes
\* sessions and failures, and adds none.
LEMMA WriteKeeps ==
  ASSUME AccountsInv, NEW c \in Clients, WriteAccount(c)
  PROVE  CallShape' /\ NeverCountedOne' /\ AuditStage' /\ SessionBudget' /\ FailureBudget'
<1>0. /\ CallShape /\ NeverCountedOne /\ AuditStage
      /\ IsCall(run[c])
  BY DEF AccountsInv, CallShape
<1>1. /\ logins' \subseteq logins /\ attempts' \subseteq attempts /\ done \subseteq done' /\ audit' = audit
      /\ ~Refused(run[c]) => <<run[c].op, run[c].target>> \in done'
  BY DEF WriteAccount
<1>2. DOMAIN users' = UserIds
  BY <1>0 DEF WriteAccount, CallShape
<1>3. \/ run' = [run EXCEPT ![c] = NoCall]
      \/ ~Refused(run[c]) /\ run' = [run EXCEPT ![c] = [@ EXCEPT !.at = "audit"]]
  BY DEF WriteAccount, AfterWrite
<1>4. CASE run' = [run EXCEPT ![c] = NoCall]
  <2>1. run'[c] = NoCall /\ DOMAIN run' = Clients /\ \A d \in Clients \ {c} : run'[d] = run[d]
    BY <1>0, <1>4, CallMoves
  <2>2. CallShape' /\ NeverCountedOne' /\ AuditStage'
    BY <1>0, <1>1, <1>2, <2>1, CallFields, StageKept DEF AuditStage
  <2>3. SessionBudget' /\ FailureBudget'
    BY <1>1, <2>1, CallFields, QuietBudgets
  <2> QED BY <2>2, <2>3
<1>5. CASE ~Refused(run[c]) /\ run' = [run EXCEPT ![c] = [@ EXCEPT !.at = "audit"]]
  <2>0. [run[c] EXCEPT !.at = "audit"] =
          Call("audit", run[c].op, run[c].actor, run[c].target, run[c].arg, run[c].counted, run[c].id)
    BY <1>0, CallExcept
  <2>1. /\ DOMAIN run' = Clients /\ \A d \in Clients \ {c} : run'[d] = run[d]
        /\ run'[c] = Call("audit", run[c].op, run[c].actor, run[c].target, run[c].arg, run[c].counted, run[c].id)
    BY <1>0, <1>5, <2>0, CallMoves
  <2>2. CallShape' /\ NeverCountedOne' /\ AuditStage'
    <3>1. /\ run'[c].counted # 1 /\ run'[c].at = "audit" /\ run'[c].op = run[c].op
          /\ run'[c].target = run[c].target /\ IsCall(run'[c])
      BY <1>0, <2>1, CallFields DEF NeverCountedOne
    <3> QED BY <1>0, <1>1, <1>2, <1>5, <2>1, <3>1, StageKept DEF AuditStage
  <2>3. SessionBudget' /\ FailureBudget'
    BY <1>1, <2>1, CallFields, QuietBudgets
  <2> QED BY <2>2, <2>3
<1> QED BY <1>3, <1>4, <1>5

\* A login that passes the check: fewer failures than the limit, and at most
\* one request under way for each client.
LEMMA StartLoginKeeps ==
  ASSUME AccountsInv, NEW c \in Clients, StartLogin(c)
  PROVE  CallShape' /\ NeverCountedOne' /\ AuditStage' /\ SessionBudget' /\ FailureBudget'
<1>0. /\ CallShape /\ NeverCountedOne /\ AuditStage /\ SessionBudget /\ FailureBudget
      /\ IsCall(run[c])
  BY DEF AccountsInv, CallShape
<1>1. UNCHANGED <<users, logins, attempts, done, audit>> /\ run[c].at = "idle"
  BY DEF StartLogin
<1>2. PICK u \in UserIds, right \in {0, 1} :
        /\ WithinLimits(FailedByIp, FailedBy(u))
        /\ run' = [run EXCEPT ![c] = Call("lookup", "login", Anyone, u, right, 0, calls + 1)]
  <2>1. PICK u \in UserIds, right \in {0, 1} :
          /\ WithinLimits(FailedByIp, FailedBy(u))
          /\ run' = [run EXCEPT ![c] = [NoCall EXCEPT !.at = "lookup", !.op = "login", !.target = u, !.arg = right,
                                                  !.id = calls + 1]]
    BY DEF StartLogin
  <2>2. [NoCall EXCEPT !.at = "lookup", !.op = "login", !.target = u, !.arg = right, !.id = calls + 1]
          = Call("lookup", "login", Anyone, u, right, 0, calls + 1)
    <3>1. PICK r1 : r1 = [NoCall EXCEPT !.at = "lookup"]
      OBVIOUS
    <3>2. PICK r2 : r2 = [r1 EXCEPT !.op = "login"]
      OBVIOUS
    <3>3. PICK r3 : r3 = [r2 EXCEPT !.target = u]
      OBVIOUS
    <3>4. PICK r4 : r4 = [r3 EXCEPT !.arg = right]
      OBVIOUS
    <3>5. r1 = Call("lookup", "none", Anyone, Anyone, 0, 0, 0)
      BY <3>1 DEF NoCall, Call
    <3>6. r2 = Call("lookup", "login", Anyone, Anyone, 0, 0, 0)
      BY <3>2, <3>5 DEF Call
    <3>7. r3 = Call("lookup", "login", Anyone, u, 0, 0, 0)
      BY <3>3, <3>6 DEF Call
    <3>8. r4 = Call("lookup", "login", Anyone, u, right, 0, 0)
      BY <3>4, <3>7 DEF Call
    <3>9. [r4 EXCEPT !.id = calls + 1] = Call("lookup", "login", Anyone, u, right, 0, calls + 1)
      BY <3>8 DEF Call
    <3> QED BY <3>1, <3>2, <3>3, <3>4, <3>9
  <2>3. run' = [run EXCEPT ![c] = Call("lookup", "login", Anyone, u, right, 0, calls + 1)]
    BY <2>1, <2>2
  <2> QED BY <2>1, <2>3
<1>3. /\ run'[c] = Call("lookup", "login", Anyone, u, right, 0, calls + 1)
      /\ DOMAIN run' = Clients /\ \A d \in Clients \ {c} : run'[d] = run[d]
  BY <1>0, <1>2, CallMoves
<1>4. IsCall(run'[c]) /\ run'[c].at = "lookup" /\ run'[c].op = "login" /\ run'[c].target = u /\ run'[c].counted # 1
  BY <1>3, CallFields
<1>5. CallShape' /\ NeverCountedOne' /\ AuditStage'
  BY <1>0, <1>1, <1>3, <1>4, StageKept DEF CallShape, AuditStage
<1>6. SessionBudget'
  <2>1. \A v \in UserIds : Inserting(v)' \subseteq Inserting(v)
    BY <1>3, <1>4 DEF Inserting
  <2> QED BY <1>1, <2>1, SessionsShrink
<1>n. /\ MaxPerIp \in Nat /\ MaxPerAccount \in Nat /\ Cardinality(Clients) \in Nat /\ IsFiniteSet(Clients)
  BY AccountsAssumption, FS_CardinalityType
<1>7. IsFiniteSet(attempts') /\ Cardinality(attempts') + Cardinality(Passed') <= MaxPerIp + Cardinality(Clients) - 1
  <2>1. Passed' \subseteq Clients
    BY DEF Passed
  <2>2. Cardinality(Passed') <= Cardinality(Clients) /\ Cardinality(Passed') \in Nat
    BY <1>n, <2>1, FS_Subset, FS_CardinalityType
  <2>3. IsFiniteSet(attempts') /\ Cardinality(attempts') < MaxPerIp /\ Cardinality(attempts') \in Nat
    BY <1>0, <1>1, <1>2, FS_CardinalityType DEF WithinLimits, FailedByIp, FailureBudget
  <2> QED BY <1>n, <2>2, <2>3
<1>8. ASSUME NEW v \in UserIds
      PROVE  Cardinality(FailuresOf(v)') + Cardinality(PassedFor(v)') <= MaxPerAccount + Cardinality(Clients) - 1
  <2>1. FailuresOf(v)' = FailuresOf(v) /\ PassedFor(v)' \subseteq Clients
    BY <1>1 DEF FailuresOf, PassedFor, Passed
  <2>2. /\ IsFiniteSet(FailuresOf(v)) /\ IsFiniteSet(PassedFor(v))
        /\ Cardinality(FailuresOf(v)) \in Nat /\ Cardinality(PassedFor(v)) \in Nat
    BY <1>0, CountFacts, FS_CardinalityType
  <2>3. Cardinality(PassedFor(v)') <= Cardinality(Clients) /\ Cardinality(PassedFor(v)') \in Nat
    BY <1>n, <2>1, FS_Subset, FS_CardinalityType
  <2>4. CASE v = u
    <3>1. Cardinality(FailuresOf(v)) < MaxPerAccount
      BY <1>2, <2>4 DEF WithinLimits, FailedBy, FailuresOf
    <3> QED BY <1>n, <2>1, <2>2, <2>3, <3>1
  <2>5. CASE v # u
    <3>1. PassedFor(v)' \subseteq PassedFor(v)
      BY <1>3, <1>4, <2>5 DEF PassedFor, Passed
    <3>2. Cardinality(PassedFor(v)') <= Cardinality(PassedFor(v))
      BY <2>2, <3>1, FS_Subset
    <3> QED BY <1>0, <1>n, <2>1, <2>2, <2>3, <3>2 DEF FailureBudget
  <2> QED BY <2>4, <2>5
<1> QED BY <1>5, <1>6, <1>7, <1>8 DEF FailureBudget

\* Unknown, disabled or wrong: the request goes on to record a failure or to
\* rotate the sessions of the same user.
LEMMA LookupKeeps ==
  ASSUME AccountsInv, NEW c \in Clients, Lookup(c)
  PROVE  CallShape' /\ NeverCountedOne' /\ AuditStage' /\ SessionBudget' /\ FailureBudget'
<1>0. /\ CallShape /\ NeverCountedOne /\ AuditStage
      /\ IsCall(run[c])
  BY DEF AccountsInv, CallShape
<1>1. UNCHANGED <<users, logins, attempts, done, audit>> /\ run[c].at = "lookup"
  BY DEF Lookup
<1>2. PICK at \in {"rotate", "fail"} : run' = [run EXCEPT ![c] = [run[c] EXCEPT !.at = at]]
  BY DEF Lookup
<1>3. /\ run'[c] = Call(at, run[c].op, run[c].actor, run[c].target, run[c].arg, run[c].counted, run[c].id)
      /\ DOMAIN run' = Clients /\ \A d \in Clients \ {c} : run'[d] = run[d]
  BY <1>0, <1>2, CallMoves, CallExcept
<1>4. /\ IsCall(run'[c]) /\ run'[c].at = at /\ run'[c].op = run[c].op /\ run'[c].target = run[c].target
      /\ run'[c].counted = run[c].counted
  BY <1>3, CallFields
<1>5. run[c].op = "login" /\ run[c].counted # 1
  BY <1>0, <1>1 DEF AuditStage, NeverCountedOne
<1>6. CallShape' /\ NeverCountedOne' /\ AuditStage'
  BY <1>0, <1>1, <1>3, <1>4, <1>5, StageKept DEF CallShape, AuditStage
<1>7. SessionBudget' /\ FailureBudget'
  BY <1>1, <1>3, <1>4, QuietBudgets
<1> QED BY <1>6, <1>7

\* record_login_attempt: the request leaves, its row comes.
LEMMA RecordFailedKeeps ==
  ASSUME AccountsInv, NEW c \in Clients, RecordFailed(c)
  PROVE  CallShape' /\ NeverCountedOne' /\ AuditStage' /\ SessionBudget' /\ FailureBudget'
<1>0. /\ CallShape /\ NeverCountedOne /\ AuditStage /\ SessionBudget /\ FailureBudget
  BY DEF AccountsInv
<1>1. UNCHANGED <<users, logins, done, audit>> /\ run[c].at = "fail" /\ run' = [run EXCEPT ![c] = NoCall]
  BY DEF RecordFailed
<1>2. PICK n : attempts' = attempts \cup {[user |-> run[c].target, n |-> n]}
  BY DEF RecordFailed
<1>3. /\ run'[c] = NoCall
      /\ DOMAIN run' = Clients /\ \A d \in Clients \ {c} : run'[d] = run[d]
  BY <1>0, <1>1, CallMoves
<1>4. IsCall(run'[c]) /\ run'[c].at = "idle" /\ run'[c].counted # 1
  BY <1>3, CallFields
<1>5. CallShape' /\ NeverCountedOne' /\ AuditStage'
  BY <1>0, <1>1, <1>3, <1>4, StageKept DEF CallShape, AuditStage
<1>6. SessionBudget'
  <2>1. \A v \in UserIds : Inserting(v)' \subseteq Inserting(v)
    BY <1>3, <1>4 DEF Inserting
  <2> QED BY <1>1, <2>1, SessionsShrink
<1>n. MaxPerIp \in Nat /\ MaxPerAccount \in Nat /\ Cardinality(Clients) \in Nat
  BY AccountsAssumption, FS_CardinalityType
<1>7. IsFiniteSet(attempts') /\ Cardinality(attempts') + Cardinality(Passed') <= MaxPerIp + Cardinality(Clients) - 1
  <2>1. c \in Passed /\ Passed' \subseteq Passed \ {c}
    BY <1>1, <1>3, <1>4 DEF Passed
  <2>2. IsFiniteSet(attempts) /\ IsFiniteSet(Passed)
    BY <1>0, CountFacts DEF FailureBudget
  <2>3. attempts' \subseteq attempts \cup {[user |-> run[c].target, n |-> n]}
    BY <1>2
  <2>4. /\ IsFiniteSet(attempts')
        /\ Cardinality(attempts') + Cardinality(Passed') <= Cardinality(attempts) + Cardinality(Passed)
    BY <2>1, <2>2, <2>3, SumKept
  <2>5. IsFiniteSet(Passed')
    BY <2>1, <2>2, FS_Subset
  <2>6. /\ Cardinality(attempts) \in Nat /\ Cardinality(Passed) \in Nat
        /\ Cardinality(attempts') \in Nat /\ Cardinality(Passed') \in Nat
    BY <2>2, <2>4, <2>5, FS_CardinalityType
  <2> QED BY <1>0, <1>n, <2>4, <2>6 DEF FailureBudget
<1>8. ASSUME NEW v \in UserIds
      PROVE  Cardinality(FailuresOf(v)') + Cardinality(PassedFor(v)') <= MaxPerAccount + Cardinality(Clients) - 1
  <2>1. IsFiniteSet(FailuresOf(v)) /\ IsFiniteSet(PassedFor(v))
    BY <1>0, CountFacts
  <2>2. PassedFor(v)' \subseteq PassedFor(v)
    BY <1>3, <1>4 DEF PassedFor, Passed
  <2>3. /\ IsFiniteSet(FailuresOf(v)')
        /\ Cardinality(FailuresOf(v)') + Cardinality(PassedFor(v)') <= Cardinality(FailuresOf(v)) + Cardinality(PassedFor(v))
    <3>1. CASE v = run[c].target
      <4>1. c \in PassedFor(v) /\ PassedFor(v)' \subseteq PassedFor(v) \ {c}
        BY <1>1, <1>3, <1>4, <3>1 DEF PassedFor, Passed
      <4>2. FailuresOf(v)' \subseteq FailuresOf(v) \cup {[user |-> run[c].target, n |-> n]}
        BY <1>2 DEF FailuresOf
      <4> QED BY <2>1, <4>1, <4>2, SumKept
    <3>2. CASE v # run[c].target
      <4>1. FailuresOf(v)' \subseteq FailuresOf(v)
        BY <1>2, <3>2 DEF FailuresOf
      <4> QED BY <2>1, <2>2, <4>1, SumShrinks
    <3> QED BY <3>1, <3>2
  <2>4. IsFiniteSet(PassedFor(v)')
    BY <2>1, <2>2, FS_Subset
  <2>5. /\ Cardinality(FailuresOf(v)) \in Nat /\ Cardinality(PassedFor(v)) \in Nat
        /\ Cardinality(FailuresOf(v)') \in Nat /\ Cardinality(PassedFor(v)') \in Nat
    BY <2>1, <2>3, <2>4, FS_CardinalityType
  <2> QED BY <1>0, <1>n, <2>3, <2>5 DEF FailureBudget
<1> QED BY <1>5, <1>6, <1>7, <1>8 DEF FailureBudget

\* delete_user_sessions: no session of the user is left, and at most every
\* client is about to insert one.
LEMMA RotateKeeps ==
  ASSUME AccountsInv, NEW c \in Clients, RotateSessions(c)
  PROVE  CallShape' /\ NeverCountedOne' /\ AuditStage' /\ SessionBudget' /\ FailureBudget'
<1>0. /\ CallShape /\ NeverCountedOne /\ AuditStage /\ SessionBudget /\ FailureBudget
      /\ IsCall(run[c])
  BY DEF AccountsInv, CallShape
<1>1. /\ UNCHANGED <<users, attempts, done, audit>> /\ run[c].at = "rotate"
      /\ logins' = {l \in logins : l.user # run[c].target}
      /\ run' = [run EXCEPT ![c] = [run[c] EXCEPT !.at = "session"]]
  BY DEF RotateSessions, Rotated
<1>3. /\ run'[c] = Call("session", run[c].op, run[c].actor, run[c].target, run[c].arg, run[c].counted, run[c].id)
      /\ DOMAIN run' = Clients /\ \A d \in Clients \ {c} : run'[d] = run[d]
  BY <1>0, <1>1, CallMoves, CallExcept
<1>4. /\ IsCall(run'[c]) /\ run'[c].at = "session" /\ run'[c].op = run[c].op /\ run'[c].target = run[c].target
      /\ run'[c].counted = run[c].counted
  BY <1>3, CallFields
<1>5. run[c].op = "login" /\ run[c].counted # 1
  BY <1>0, <1>1 DEF AuditStage, NeverCountedOne
<1>6. CallShape' /\ NeverCountedOne' /\ AuditStage'
  BY <1>0, <1>1, <1>3, <1>4, <1>5, StageKept DEF CallShape, AuditStage
<1>7. FailureBudget'
  <2>1. Passed' \subseteq Passed /\ \A d \in Passed' : run'[d].target = run[d].target
    BY <1>3, <1>4 DEF Passed
  <2> QED BY <1>1, <2>1, FailuresShrink
<1>8. ASSUME NEW v \in UserIds
      PROVE  Cardinality(SessionsOf(v)') + Cardinality(Inserting(v)') <= Cardinality(Clients)
  <2>1. IsFiniteSet(SessionsOf(v)) /\ IsFiniteSet(Inserting(v))
    BY <1>0, CountFacts
  <2>2. CASE v = run[c].target
    <3>1. SessionsOf(v)' = {} /\ Inserting(v)' \subseteq Clients
      BY <1>1, <2>2 DEF SessionsOf, Inserting
    <3>2. Cardinality(SessionsOf(v)') = 0
      BY <3>1, FS_EmptySet
    <3>3. Cardinality(Inserting(v)') <= Cardinality(Clients) /\ Cardinality(Inserting(v)') \in Nat
      BY <3>1, FS_Subset, FS_CardinalityType, AccountsAssumption
    <3> QED BY <3>2, <3>3
  <2>3. CASE v # run[c].target
    <3>1. SessionsOf(v)' \subseteq SessionsOf(v) /\ Inserting(v)' \subseteq Inserting(v)
      BY <1>1, <1>3, <1>4, <2>3 DEF SessionsOf, Inserting
    <3>2. /\ IsFiniteSet(SessionsOf(v)')
          /\ Cardinality(SessionsOf(v)') + Cardinality(Inserting(v)') <= Cardinality(SessionsOf(v)) + Cardinality(Inserting(v))
      BY <2>1, <3>1, SumShrinks
    <3>3. IsFiniteSet(Inserting(v)')
      BY <2>1, <3>1, FS_Subset
    <3>4. /\ Cardinality(SessionsOf(v)') \in Nat /\ Cardinality(Inserting(v)') \in Nat /\ Cardinality(Clients) \in Nat
          /\ Cardinality(SessionsOf(v)) \in Nat /\ Cardinality(Inserting(v)) \in Nat
      BY <2>1, <3>2, <3>3, FS_CardinalityType, AccountsAssumption
    <3> QED BY <1>0, <3>2, <3>4 DEF SessionBudget
  <2> QED BY <2>2, <2>3
<1>9. IsFiniteSet(logins')
  BY <1>0, <1>1, FS_Subset DEF SessionBudget
<1> QED BY <1>6, <1>7, <1>8, <1>9 DEF SessionBudget

\* The session comes, the request that inserts it leaves.
LEMMA InsertSessionKeeps ==
  ASSUME AccountsInv, NEW c \in Clients, InsertSession(c)
  PROVE  CallShape' /\ NeverCountedOne' /\ AuditStage' /\ SessionBudget' /\ FailureBudget'
<1>0. /\ CallShape /\ NeverCountedOne /\ AuditStage /\ SessionBudget /\ FailureBudget
      /\ IsCall(run[c])
  BY DEF AccountsInv, CallShape
<1>1. /\ UNCHANGED <<users, attempts, audit>> /\ run[c].at = "session"
      /\ logins' = logins \cup {[id |-> run[c].id, user |-> run[c].target]}
      /\ done' = done \cup {<<"login", run[c].target>>}
      /\ run' = [run EXCEPT ![c] = [run[c] EXCEPT !.at = "audit"]]
  BY DEF InsertSession
<1>3. /\ run'[c] = Call("audit", run[c].op, run[c].actor, run[c].target, run[c].arg, run[c].counted, run[c].id)
      /\ DOMAIN run' = Clients /\ \A d \in Clients \ {c} : run'[d] = run[d]
  BY <1>0, <1>1, CallMoves, CallExcept
<1>4. /\ IsCall(run'[c]) /\ run'[c].at = "audit" /\ run'[c].op = run[c].op /\ run'[c].target = run[c].target
      /\ run'[c].counted = run[c].counted
  BY <1>3, CallFields
<1>5. run[c].op = "login" /\ run[c].counted # 1
  BY <1>0, <1>1 DEF AuditStage, NeverCountedOne
<1>6. CallShape' /\ NeverCountedOne' /\ AuditStage'
  BY <1>0, <1>1, <1>3, <1>4, <1>5, StageKept DEF CallShape, AuditStage
<1>7. FailureBudget'
  <2>1. Passed' \subseteq Passed /\ \A d \in Passed' : run'[d].target = run[d].target
    BY <1>3, <1>4 DEF Passed
  <2> QED BY <1>1, <2>1, FailuresShrink
<1>8. ASSUME NEW v \in UserIds
      PROVE  Cardinality(SessionsOf(v)') + Cardinality(Inserting(v)') <= Cardinality(Clients)
  <2>1. IsFiniteSet(SessionsOf(v)) /\ IsFiniteSet(Inserting(v))
    BY <1>0, CountFacts
  <2>2. Inserting(v)' \subseteq Inserting(v)
    BY <1>3, <1>4 DEF Inserting
  <2>3. /\ IsFiniteSet(SessionsOf(v)')
        /\ Cardinality(SessionsOf(v)') + Cardinality(Inserting(v)') <= Cardinality(SessionsOf(v)) + Cardinality(Inserting(v))
    <3>1. CASE v = run[c].target
      <4>1. c \in Inserting(v) /\ Inserting(v)' \subseteq Inserting(v) \ {c}
        BY <1>1, <1>3, <1>4, <3>1 DEF Inserting
      <4>2. SessionsOf(v)' \subseteq SessionsOf(v) \cup {[id |-> run[c].id, user |-> run[c].target]}
        BY <1>1 DEF SessionsOf
      <4> QED BY <2>1, <4>1, <4>2, SumKept
    <3>2. CASE v # run[c].target
      <4>1. SessionsOf(v)' \subseteq SessionsOf(v)
        BY <1>1, <3>2 DEF SessionsOf
      <4> QED BY <2>1, <2>2, <4>1, SumShrinks
    <3> QED BY <3>1, <3>2
  <2>4. IsFiniteSet(Inserting(v)')
    BY <2>1, <2>2, FS_Subset
  <2>5. /\ Cardinality(SessionsOf(v)) \in Nat /\ Cardinality(Inserting(v)) \in Nat /\ Cardinality(Clients) \in Nat
        /\ Cardinality(SessionsOf(v)') \in Nat /\ Cardinality(Inserting(v)') \in Nat
    BY <2>1, <2>3, <2>4, FS_CardinalityType, AccountsAssumption
  <2> QED BY <1>0, <2>3, <2>5 DEF SessionBudget
<1>9. IsFiniteSet(logins')
  BY <1>0, <1>1, FS_AddElement DEF SessionBudget
<1> QED BY <1>6, <1>7, <1>8, <1>9 DEF SessionBudget

\* Time passes: a row leaves.
LEMMA TimeKeeps ==
  ASSUME AccountsInv, ExpireSession \/ WindowMoves
  PROVE  CallShape' /\ NeverCountedOne' /\ AuditStage' /\ SessionBudget' /\ FailureBudget'
<1>1. UNCHANGED <<users, run, done, audit>> /\ logins' \subseteq logins /\ attempts' \subseteq attempts
  BY DEF ExpireSession, WindowMoves
<1>2. CallShape' /\ NeverCountedOne' /\ AuditStage'
  BY <1>1 DEF AccountsInv, CallShape, NeverCountedOne, AuditStage
<1>3. /\ \A u \in UserIds : Inserting(u)' \subseteq Inserting(u)
      /\ Passed' \subseteq Passed /\ \A c \in Passed' : run'[c].target = run[c].target
  BY <1>1 DEF Inserting, Passed
<1>4. SessionBudget' /\ FailureBudget'
  BY <1>1, <1>3, SessionsShrink, FailuresShrink
<1> QED BY <1>2, <1>4

-----------------------------------------------------------------------------

\* The first start, and every later one.
LEMMA BootKeeps ==
  ASSUME BootInv, BootNext
  PROVE  BootInv'
<1>1. CASE StartServe
  <2>1. CASE NeedsBootstrap
    <3>1. boot' = [at |-> "inserted", here |-> TRUE, pending |-> TRUE, password |-> boot.made + 1,
                   file |-> boot.file, lost |-> boot.lost, made |-> boot.made + 1]
      BY <1>1, <2>1 DEF StartServe, NeedsBootstrap, BootInv
    <3> QED BY <3>1 DEF BootInv
  <2>2. CASE ~NeedsBootstrap
    <3>1. boot' = [at |-> "serving", here |-> boot.here, pending |-> boot.pending, password |-> boot.password,
                   file |-> boot.file, lost |-> boot.lost, made |-> boot.made + 1]
      BY <1>1, <2>2 DEF StartServe, BootInv
    <3>2. boot.at = "down" /\ boot.here
      BY <1>1, <2>2 DEF StartServe, NeedsBootstrap
    <3> QED BY <3>1, <3>2 DEF BootInv
  <2> QED BY <2>1, <2>2
<1>2. CASE WriteToken
  <2>1. CASE boot' = [boot EXCEPT !.at = "serving", !.file = boot.made]
    <3>1. boot' = [at |-> "serving", here |-> boot.here, pending |-> boot.pending, password |-> boot.password,
                   file |-> boot.made, lost |-> boot.lost, made |-> boot.made]
      BY <2>1 DEF BootInv
    <3> QED BY <1>2, <3>1 DEF BootInv, WriteToken
  <2>2. CASE boot' = [boot EXCEPT !.at = "down", !.lost = TRUE]
    <3>1. boot' = [at |-> "down", here |-> boot.here, pending |-> boot.pending, password |-> boot.password,
                   file |-> boot.file, lost |-> TRUE, made |-> boot.made]
      BY <2>2 DEF BootInv
    <3> QED BY <1>2, <3>1 DEF BootInv, WriteToken
  <2> QED BY <1>2, <2>1, <2>2 DEF WriteToken
<1>3. CASE EndServe
  <2>1. boot' = [at |-> "down", here |-> boot.here, pending |-> boot.pending, password |-> boot.password,
                 file |-> boot.file, lost |-> (boot.lost \/ boot.at = "inserted"), made |-> boot.made]
    BY <1>3 DEF BootInv, EndServe
  <2> QED BY <1>3, <2>1 DEF BootInv, EndServe
<1>4. CASE RotatePassword
  <2>1. boot' = [at |-> boot.at, here |-> boot.here, pending |-> FALSE, password |-> Own,
                 file |-> boot.file, lost |-> boot.lost, made |-> boot.made]
    BY <1>4 DEF BootInv, RotatePassword
  <2> QED BY <1>4, <2>1 DEF BootInv, RotatePassword
<1>5. CASE ResetAdmin
  <2>1. boot' = [at |-> boot.at, here |-> boot.here, pending |-> TRUE, password |-> boot.password,
                 file |-> boot.file, lost |-> boot.lost, made |-> boot.made]
    BY <1>5 DEF BootInv, ResetAdmin
  <2> QED BY <1>5, <2>1 DEF BootInv, ResetAdmin
<1>6. CASE SetSetting \/ DeleteSetting
  BY <1>6 DEF SetSetting, DeleteSetting, BootInv
<1> QED BY <1>1, <1>2, <1>3, <1>4, <1>5, <1>6 DEF BootNext

\* The two tables of settings routes tell the same story, whatever is stored.
LEMMA SettingsAlwaysAgree == SettingsAgree
<1>1. KnownKeys \subseteq SettingKeys
  BY AccountsAssumption
<1>2. ASSUME NEW x \in GetAllSettings PROVE \E k \in SettingKeys : x \in GetSetting(k)
  BY <1>1, <1>2 DEF GetAllSettings, GetSetting
<1>3. ASSUME NEW k \in SettingKeys, NEW x \in GetSetting(k) PROVE x \in GetAllSettings
  BY <1>1, <1>3 DEF GetAllSettings, GetSetting
<1> QED BY <1>2, <1>3 DEF SettingsAgree

\* Only a finite number of clients is signed in at first, each with one session.
LEMMA AccountsInvInit ==
  ASSUME BootInit, NEW signedIn \in SUBSET Clients, NEW as \in [signedIn -> Admins], AccountsInit(signedIn, as)
  PROVE  AccountsInv
<1> DEFINE row == [c \in signedIn |-> [id |-> c, user |-> as[c]]]
<1>0. \A c \in Clients : run[c] = NoCall
  BY DEF AccountsInit
<1>1. CallShape /\ NeverCountedOne /\ AuditStage
  <2>1. CallShape
    BY <1>0, CallFields DEF CallShape, AccountsInit
  <2>2. NeverCountedOne /\ AuditStage
    BY <1>0, CallFields DEF NeverCountedOne, AuditStage, AccountsInit
  <2> QED BY <2>1, <2>2
<1>2. /\ IsFiniteSet(Clients) /\ IsFiniteSet(signedIn) /\ Cardinality(signedIn) <= Cardinality(Clients)
      /\ Cardinality(signedIn) \in Nat /\ Cardinality(Clients) \in Nat
  BY FS_Subset, FS_CardinalityType, AccountsAssumption
<1>3. row \in Surjection(signedIn, logins)
  <2>1. logins = {row[c] : c \in signedIn}
    BY DEF AccountsInit
  <2>2. row \in [signedIn -> logins]
    BY <2>1
  <2> QED BY <2>1, <2>2 DEF Surjection
<1>4. IsFiniteSet(logins) /\ Cardinality(logins) <= Cardinality(signedIn) /\ Cardinality(logins) \in Nat
  BY <1>2, <1>3, FS_Surjection, FS_CardinalityType
<1>5. SessionBudget
  <2> SUFFICES ASSUME NEW u \in UserIds
               PROVE  Cardinality(SessionsOf(u)) + Cardinality(Inserting(u)) <= Cardinality(Clients)
    BY <1>4 DEF SessionBudget
  <2>1. SessionsOf(u) \subseteq logins /\ Inserting(u) = {}
    BY <1>0, CallFields DEF SessionsOf, Inserting
  <2>2. Cardinality(SessionsOf(u)) <= Cardinality(logins) /\ Cardinality(SessionsOf(u)) \in Nat
    BY <1>4, <2>1, FS_Subset, FS_CardinalityType
  <2>3. Cardinality(Inserting(u)) = 0
    BY <2>1, FS_EmptySet
  <2> QED BY <1>2, <1>4, <2>2, <2>3
<1>6. FailureBudget
  <2>1. attempts = {} /\ Passed = {} /\ \A u : FailuresOf(u) = {} /\ PassedFor(u) = {}
    BY <1>0, CallFields DEF AccountsInit, Passed, PassedFor, FailuresOf
  <2>2. Cardinality({}) = 0 /\ IsFiniteSet({})
    BY FS_EmptySet
  <2>3. MaxPerAccount \in Nat \ {0} /\ MaxPerIp \in Nat \ {0}
    BY AccountsAssumption
  <2>4. 0 + 0 <= MaxPerAccount + Cardinality(Clients) - 1 /\ 0 + 0 <= MaxPerIp + Cardinality(Clients) - 1
    BY <1>2, <2>3
  <2>5. Cardinality(attempts) = 0 /\ Cardinality(Passed) = 0 /\ IsFiniteSet(attempts)
    BY <2>1, <2>2
  <2>6. \A u : Cardinality(FailuresOf(u)) = 0 /\ Cardinality(PassedFor(u)) = 0
    BY <2>1, <2>2
  <2> QED BY <2>4, <2>5, <2>6 DEF FailureBudget
<1>7. BootInv
  BY DEF BootInit, BootInv
<1> QED BY <1>1, <1>5, <1>6, <1>7 DEF AccountsInv

\* Every step of a request, of the clock and of the server keeps the invariant.
LEMMA AccountsInvStep ==
  AccountsInv /\ [LoginNext \/ CallNext \/ BootNext]_<<accountVars, bootVars>> => AccountsInv'
<1> SUFFICES ASSUME AccountsInv, [LoginNext \/ CallNext \/ BootNext]_<<accountVars, bootVars>>
             PROVE  AccountsInv'
  OBVIOUS
<1>1. CASE LoginNext \/ CallNext
  <2>1. CallShape' /\ NeverCountedOne' /\ AuditStage' /\ SessionBudget' /\ FailureBudget'
    BY <1>1, StartLoginKeeps, LookupKeeps, RecordFailedKeeps, RotateKeeps, InsertSessionKeeps, TimeKeeps,
       CallKeeps, WriteKeeps DEF LoginNext, CallNext
  <2>2. boot' = boot
    BY <1>1 DEF LoginNext, CallNext, StartLogin, Lookup, RecordFailed, RotateSessions, InsertSession, ExpireSession,
                WindowMoves, StartCall, GuardAdmins, VerifyPassword, WriteAccount, LogAudit, bootVars
  <2>3. BootInv'
    BY <2>2 DEF AccountsInv, BootInv
  <2> QED BY <2>1, <2>3 DEF AccountsInv
<1>2. ASSUME UNCHANGED accountVars PROVE CallShape' /\ NeverCountedOne' /\ AuditStage' /\ SessionBudget' /\ FailureBudget'
  BY <1>2 DEF accountVars, AccountsInv, CallShape, NeverCountedOne, AuditStage, SessionBudget, FailureBudget,
              SessionsOf, Inserting, Passed, PassedFor, FailuresOf
<1>3. CASE BootNext
  <2>1. UNCHANGED accountVars
    BY <1>3 DEF BootNext, StartServe, WriteToken, EndServe, RotatePassword, ResetAdmin, SetSetting, DeleteSetting
  <2>2. BootInv'
    BY <1>3, BootKeeps DEF AccountsInv
  <2> QED BY <1>2, <2>1, <2>2 DEF AccountsInv
<1>4. CASE UNCHANGED <<accountVars, bootVars>>
  <2>1. BootInv'
    BY <1>4 DEF bootVars, AccountsInv, BootInv
  <2> QED BY <1>2, <1>4, <2>1 DEF AccountsInv
<1> QED BY <1>1, <1>3, <1>4

\* The budgets bound the rows by themselves.
LEMMA AccountsInvSound == AccountsInv => AccountsSound
<1> SUFFICES ASSUME AccountsInv PROVE AccountsSound
  OBVIOUS
<1>0. SessionBudget /\ FailureBudget /\ BootInv /\ AuditStage
  BY DEF AccountsInv
<1>n. MaxPerIp \in Nat /\ MaxPerAccount \in Nat /\ Cardinality(Clients) \in Nat
  BY AccountsAssumption, FS_CardinalityType
<1>1. ASSUME NEW u \in UserIds
      PROVE  /\ Cardinality(SessionsOf(u)) <= Cardinality(Clients)
             /\ Cardinality(FailuresOf(u)) <= MaxPerAccount + Cardinality(Clients) - 1
  <2>1. /\ Cardinality(SessionsOf(u)) \in Nat /\ Cardinality(Inserting(u)) \in Nat
        /\ Cardinality(FailuresOf(u)) \in Nat /\ Cardinality(PassedFor(u)) \in Nat
    BY <1>0, CountFacts, FS_CardinalityType
  <2> QED BY <1>0, <1>n, <2>1 DEF SessionBudget, FailureBudget
<1>2. Cardinality(attempts) <= MaxPerIp + Cardinality(Clients) - 1
  <2>1. Cardinality(attempts) \in Nat /\ Cardinality(Passed) \in Nat
    BY <1>0, CountFacts, FS_CardinalityType DEF FailureBudget
  <2> QED BY <1>0, <1>n, <2>1 DEF FailureBudget
<1>3. SessionsBounded /\ LockoutHolds
  BY <1>1, <1>2 DEF SessionsBounded, LockoutHolds, SessionsOf, FailuresOf, FailedBy, FailedByIp
<1>4. TokenOpensTheDoor
  BY <1>0 DEF BootInv, TokenOpensTheDoor, ShownToken
<1>5. AuditedWasDone
  BY <1>0 DEF AuditStage, AuditedWasDone
<1> QED BY <1>3, <1>4, <1>5, SettingsAlwaysAgree DEF AccountsSound

\* However logins, logouts and user administration interleave between their
\* statements: a user has at most one session per client, the lockout of
\* check_login_rate_limit is overrun by at most the requests that had passed it,
\* the audit log names only what was committed, the bootstrap credential on disk
\* is the one that logs in until the first rotation, and the two settings routes
\* agree.
THEOREM AccountsAreSound == AccountsSpec => []AccountsSound
<1>1. BootInit /\ (\E signedIn \in SUBSET Clients : \E as \in [signedIn -> Admins] : AccountsInit(signedIn, as))
        => AccountsInv
  BY AccountsInvInit
<1>2. AccountsInv /\ [LoginNext \/ CallNext \/ BootNext]_<<accountVars, bootVars>> => AccountsInv'
  BY AccountsInvStep
<1>3. AccountsInv => AccountsSound
  BY AccountsInvSound
<1> QED BY <1>1, <1>2, <1>3, PTL DEF AccountsSpec

\* A statement that leaves no administrator was about the only one there was.
LEMMA LastAdminStep ==
  ASSUME AccountsInv, NEW c \in Clients, WriteAccount(c), ActiveAdmins(users) # {}, ActiveAdmins(users') = {}
  PROVE  run[c].at = "write" /\ run[c].counted # Cardinality(ActiveAdmins(users))
<1>1. run[c].at = "write" /\ run[c].counted # 1 /\ DOMAIN users = UserIds
  BY DEF WriteAccount, AccountsInv, NeverCountedOne, CallShape
<1>2. \A u \in UserIds : u # run[c].target => users'[u] = users[u]
  BY <1>1 DEF WriteAccount
<1>3. ActiveAdmins(users) = {run[c].target}
  BY <1>2 DEF ActiveAdmins
<1>4. Cardinality(ActiveAdmins(users)) = 1
  BY <1>3, FS_Singleton
<1> QED BY <1>1, <1>4

\* The last active administrator is removed only by an update_user whose count
\* of administrators another request has made stale in between, for any number
\* of users and of concurrent clients.
THEOREM LastAdminFallsToARace == AccountsSpec => LastAdminNeedsARace
<1> DEFINE Race == ActiveAdmins(users) # {} /\ ActiveAdmins(users') = {} =>
             \E c \in Clients : run[c].at = "write" /\ run[c].counted # Cardinality(ActiveAdmins(users))
<1>1. BootInit /\ (\E signedIn \in SUBSET Clients : \E as \in [signedIn -> Admins] : AccountsInit(signedIn, as))
        => AccountsInv
  BY AccountsInvInit
<1>2. AccountsInv /\ [LoginNext \/ CallNext \/ BootNext]_<<accountVars, bootVars>> => AccountsInv'
  BY AccountsInvStep
<1>3. AccountsInv /\ [LoginNext \/ CallNext \/ BootNext]_<<accountVars, bootVars>> => [Race]_users
  <2> SUFFICES ASSUME AccountsInv, [LoginNext \/ CallNext \/ BootNext]_<<accountVars, bootVars>>, users' # users
               PROVE  Race
    OBVIOUS
  <2>1. PICK c \in Clients : WriteAccount(c)
    BY DEF LoginNext, CallNext, BootNext, StartLogin, Lookup, RecordFailed, RotateSessions, InsertSession, ExpireSession,
           WindowMoves, StartCall, GuardAdmins, VerifyPassword, LogAudit, StartServe, WriteToken, EndServe,
           RotatePassword, ResetAdmin, SetSetting, DeleteSetting, accountVars
  <2> QED BY <2>1, LastAdminStep
<1>4. AccountsSpec => []AccountsInv
  BY <1>1, <1>2, PTL DEF AccountsSpec
<1>5. AccountsSpec => [][Race]_users
  BY <1>3, <1>4, PTL DEF AccountsSpec
<1> QED BY <1>5 DEF LastAdminNeedsARace

-----------------------------------------------------------------------------
(* The taxonomy registry                                                   *)

-----------------------------------------------------------------------------
(* Search                                                                  *)

\* The entries found that are better than e.
Above(m, e) == {f \in Found(m) : Better(m, f, e)}

\* Rank is a number.
LEMMA RankNat == \A x : Rank(x) \in Nat
  BY DEF Rank

\* Better is a strict total order on the entries.
LEMMA BetterOrders ==
  ASSUME NEW m, NEW e \in Entities, NEW f \in Entities, NEW g \in Entities
  PROVE  /\ ~Better(m, e, e)
         /\ Better(m, e, f) \/ e = f \/ Better(m, f, e)
         /\ Better(m, e, f) /\ Better(m, f, g) => Better(m, e, g)
<1>1. PICK a, b, c : a = Rank(m[e]) /\ b = Rank(m[f]) /\ c = Rank(m[g])
  OBVIOUS
<1>2. a \in Nat /\ b \in Nat /\ c \in Nat /\ e \in Nat /\ f \in Nat /\ g \in Nat
  BY <1>1, RankNat, CatalogAssumption
<1> QED
  BY <1>1, <1>2 DEF Better

\* What is found, and what is above one entry, is finite and counted.
LEMMA FoundFinite ==
  ASSUME NEW m
  PROVE  /\ IsFiniteSet(Found(m)) /\ Cardinality(Found(m)) \in Nat
         /\ \A e : /\ IsFiniteSet(Above(m, e)) /\ Cardinality(Above(m, e)) \in Nat
                   /\ Cardinality(Above(m, e)) <= Cardinality(Found(m))
<1>1. Found(m) \in SUBSET Entities
  BY DEF Found
<1>2. IsFiniteSet(Found(m)) /\ Cardinality(Found(m)) \in Nat
  BY <1>1, FS_Subset, FS_CardinalityType, CatalogAssumption
<1>3. ASSUME NEW e
      PROVE  /\ IsFiniteSet(Above(m, e)) /\ Cardinality(Above(m, e)) \in Nat
             /\ Cardinality(Above(m, e)) <= Cardinality(Found(m))
  <2>1. Above(m, e) \in SUBSET Found(m)
    BY DEF Above
  <2> QED
    BY <2>1, <1>2, FS_Subset, FS_CardinalityType
<1> QED
  BY <1>2, <1>3

\* The better of two entries has strictly fewer above it.
LEMMA BetterHasFewer ==
  ASSUME NEW m, NEW e \in Found(m), NEW f \in Found(m), Better(m, e, f)
  PROVE  Cardinality(Above(m, e)) < Cardinality(Above(m, f))
<1>0. Found(m) \subseteq Entities
  BY DEF Found
<1>1. Above(m, e) \subseteq Above(m, f)
  BY <1>0, BetterOrders DEF Above
<1>2. e \in Above(m, f) /\ e \notin Above(m, e)
  BY <1>0, BetterOrders DEF Above
<1>3. PICK A, B : A = Above(m, e) /\ B = Above(m, f)
  OBVIOUS
<1>4. /\ IsFiniteSet(B) /\ A \in SUBSET B /\ A # B
      /\ Cardinality(A) \in Nat /\ Cardinality(B) \in Nat
  BY <1>1, <1>2, <1>3, FoundFinite
<1>5. Cardinality(A) <= Cardinality(B) /\ Cardinality(A) # Cardinality(B)
  BY <1>4, FS_Subset
<1> QED
  BY <1>3, <1>4, <1>5

\* Numbering the entries found by how many are above them is one to one onto
\* 0 .. n-1.
LEMMA AboveCounts ==
  ASSUME NEW m, NEW n, n = Cardinality(Found(m))
  PROVE  [e \in Found(m) |-> Cardinality(Above(m, e))] \in Bijection(Found(m), 0..(n - 1))
<1>1. PICK r : r = [e \in Found(m) |-> Cardinality(Above(m, e))]
  OBVIOUS
<1>2. n \in Nat
  BY FoundFinite
<1>3. ASSUME NEW e \in Found(m) PROVE r[e] \in 0..(n - 1)
  <2>1. Above(m, e) \in SUBSET Found(m) /\ e \notin Above(m, e)
    BY BetterOrders DEF Above, Found
  <2>2. Above(m, e) # Found(m)
    BY <2>1
  <2>3. Cardinality(Above(m, e)) # n
    BY <2>1, <2>2, FoundFinite, FS_Subset
  <2>4. Cardinality(Above(m, e)) \in Nat /\ Cardinality(Above(m, e)) <= n
    BY FoundFinite
  <2> QED
    BY <2>3, <2>4, <1>1, <1>2
<1>4. ASSUME NEW e \in Found(m), NEW f \in Found(m), r[e] = r[f] PROVE e = f
  <2>1. ~Better(m, e, f) /\ ~Better(m, f, e)
    BY <1>1, <1>4, BetterHasFewer, FoundFinite
  <2> QED
    BY <2>1, BetterOrders DEF Found
<1>5. r \in [Found(m) -> 0..(n - 1)]
  BY <1>1, <1>3
<1>6. r \in Injection(Found(m), 0..(n - 1))
  BY <1>4, <1>5 DEF Injection, IsInjective
<1>7. 0 \in Int /\ n - 1 \in Int
  BY <1>2
<1>8. IsFiniteSet(0..(n - 1)) /\ Cardinality(0..(n - 1)) = n
  BY <1>2, <1>7, FS_Interval
<1>9. r \in Surjection(Found(m), 0..(n - 1))
  BY <1>6, <1>8, FS_Injection
<1> QED
  BY <1>1, <1>6, <1>9 DEF Bijection

\* Truncation keeps as many as there is room for.
LEMMA HitsFill ==
  ASSUME NEW m, NEW limit \in Nat
  PROVE  Cardinality(Hits(m, limit)) = Min({limit, Cardinality(Found(m))})
<1>1. PICK n : n = Cardinality(Found(m)) /\ n \in Nat
  BY FoundFinite
<1>2. PICK k \in Nat : k = IF limit <= n THEN limit ELSE n
  BY <1>1
<1>3. Min({limit, n}) = k
  BY <1>1, <1>2 DEF Min
<1>4. PICK r : r = [e \in Found(m) |-> Cardinality(Above(m, e))]
  OBVIOUS
<1>5. r \in Bijection(Found(m), 0..(n - 1))
  BY <1>1, <1>4, AboveCounts
<1>6. PICK H : H = Hits(m, limit)
  OBVIOUS
<1>7. H = {e \in Found(m) : r[e] < limit}
  BY <1>4, <1>6 DEF Hits, Above
<1>8. PICK s : s = [e \in H |-> r[e]]
  OBVIOUS
<1>9. /\ r \in [Found(m) -> 0..(n - 1)]
      /\ \A e, f \in Found(m) : r[e] = r[f] => e = f
      /\ \A i \in 0..(n - 1) : \E e \in Found(m) : r[e] = i
  BY <1>5 DEF Bijection, Injection, Surjection, IsInjective
<1>10. s \in [H -> 0..(k - 1)]
  BY <1>1, <1>2, <1>7, <1>8, <1>9
<1>11. s \in Injection(H, 0..(k - 1))
  BY <1>7, <1>8, <1>9, <1>10 DEF Injection, IsInjective
<1>12. ASSUME NEW i \in 0..(k - 1) PROVE \E e \in H : s[e] = i
  <2>1. i \in 0..(n - 1) /\ i < limit
    BY <1>1, <1>2
  <2> QED
    BY <2>1, <1>7, <1>8, <1>9
<1>13. s \in Surjection(H, 0..(k - 1))
  BY <1>10, <1>12 DEF Surjection
<1>14. 0 \in Int /\ k - 1 \in Int
  OBVIOUS
<1>15. IsFiniteSet(0..(k - 1)) /\ Cardinality(0..(k - 1)) = k
  BY <1>14, FS_Interval
<1>16. Cardinality(H) = k
  BY <1>11, <1>13, <1>15, FS_Injection
<1> QED
  BY <1>1, <1>3, <1>6, <1>16

\* A dropped entry is worse than every one that is kept.
LEMMA HitsAreBest ==
  ASSUME NEW m, NEW limit \in Nat, NEW e \in Hits(m, limit), NEW f \in Found(m) \ Hits(m, limit)
  PROVE  Better(m, e, f)
<1>1. e \in Found(m) /\ Cardinality(Above(m, e)) < limit /\ ~(Cardinality(Above(m, f)) < limit)
  BY DEF Hits, Above
<1>2. /\ Cardinality(Above(m, e)) \in Nat /\ Cardinality(Above(m, f)) \in Nat
  BY FoundFinite
<1>3. ~Better(m, f, e)
  BY <1>1, <1>2, BetterHasFewer
<1> QED
  BY <1>3, <1>1, BetterOrders DEF Found

-----------------------------------------------------------------------------
(* The index                                                               *)

\* A non-empty set of natural numbers has a least element.
LEMMA LeastNumber ==
  ASSUME NEW T \in SUBSET Nat, T # {}
  PROVE  \E m \in T : \A n \in T : m <= n
<1>1. PICK F : F = {1..n : n \in T}
  OBVIOUS
<1>2. F \subseteq FiniteSubsetsOf(Nat)
  <2> SUFFICES ASSUME NEW n \in T PROVE 1..n \in FiniteSubsetsOf(Nat)
    BY <1>1
  <2>1. n \in Int /\ 1 \in Int
    OBVIOUS
  <2>2. IsFiniteSet(1..n)
    BY <2>1, FS_Interval
  <2> QED
    BY <2>2 DEF FiniteSubsetsOf
<1>3. F # {}
  BY <1>1
<1>4. PICK x \in F : \A y \in F : ~ (<<y, x>> \in StrictSubsetOrdering(Nat))
  BY <1>2, <1>3, FS_StrictSubsetOrderingWellFounded, WFMin
<1>5. PICK m \in T : x = 1..m
  BY <1>1
<1>6. ASSUME NEW n \in T, n < m PROVE FALSE
  <2>1. 1..n \in F /\ 1..n \subseteq 1..m /\ 1..n # 1..m
    BY <1>1, <1>6
  <2>2. 1..n \in SUBSET Nat /\ 1..m \in SUBSET Nat
    OBVIOUS
  <2>3. <<1..n, 1..m>> \in StrictSubsetOrdering(Nat)
    BY <2>1, <2>2 DEF StrictSubsetOrdering
  <2> QED
    BY <2>1, <2>3, <1>4, <1>5
<1> QED
  BY <1>6


\* A non-empty set of numbers up to n has a greatest element, which Max takes.
LEMMA GreatestNumber ==
  ASSUME NEW n \in Nat, NEW S \in SUBSET (1..n), S # {}
  PROVE  Max(S) \in S /\ \A k \in S : k <= Max(S)
<1>1. PICK T : T = {k \in 0..n : n - k \in S}
  OBVIOUS
<1>2. \A k \in S : k \in Nat /\ n - k \in T
  <2> SUFFICES ASSUME NEW k \in S PROVE k \in Nat /\ n - k \in T
    OBVIOUS
  <2>1. k \in Nat /\ n - k \in 0..n /\ n - (n - k) = k
    OBVIOUS
  <2> QED
    BY <2>1, <1>1
<1>3. T \in SUBSET Nat /\ T # {}
  <2>1. PICK k \in S : TRUE
    OBVIOUS
  <2>2. n - k \in T
    BY <1>2
  <2>3. 0..n \in SUBSET Nat
    OBVIOUS
  <2> QED
    BY <2>2, <2>3, <1>1
<1>4. PICK t \in T : \A u \in T : t <= u
  BY <1>3, LeastNumber
<1>5. PICK g \in S : g = n - t
  BY <1>1, <1>4
<1>6. \A k \in S : g >= k
  <2> SUFFICES ASSUME NEW k \in S PROVE g >= k
    OBVIOUS
  <2>1. n - k \in T /\ k \in Nat /\ t \in Nat
    BY <1>2, <1>3
  <2>2. t <= n - k
    BY <2>1, <1>4
  <2> QED
    BY <2>1, <2>2, <1>5
<1>7. \A k \in S : k <= g
  BY <1>2, <1>6
<1> QED
  BY <1>2, <1>6, <1>7 DEF Max

\* What holds of every index that is built: a role or a tool belongs to a
\* vertical that is loaded, and a tool is one of its owner's.
IndexOk(ix) ==
  /\ ix.toolOf \in [ToolNames -> Verticals \cup {NoVertical}]
  /\ ix.loaded \subseteq Verticals /\ ix.stubs \subseteq Verticals
  /\ \A r \in ix.roles : r[1] = NoVertical \/ r[1] \in ix.loaded
  /\ \A t \in ToolNames :
       ix.toolOf[t] = NoVertical
         \/ (ix.toolOf[t] \in ix.loaded /\ t \in ix.roleTools[ix.toolOf[t]])
  /\ ix.loaded \cap ix.stubs = {}

ManifestType == [here : BOOLEAN, roles : SUBSET RoleIds, tools : SUBSET ToolNames]

\* A reload under way: what it still has to fetch, has and could not get are
\* distinct verticals.
ReloadOk(rl) ==
  /\ rl.todo \in Seq(Verticals) /\ rl.order \in Seq(Verticals)
  /\ rl.manifests \in [Verticals -> ManifestType] /\ rl.failed \subseteq Verticals
  /\ \A i, j \in DOMAIN rl.todo : rl.todo[i] = rl.todo[j] => i = j
  /\ \A i \in DOMAIN rl.todo : rl.todo[i] \notin rl.failed
  /\ \A i \in DOMAIN rl.todo, j \in DOMAIN rl.order : rl.todo[i] # rl.order[j]
  /\ \A j \in DOMAIN rl.order : rl.order[j] \notin rl.failed
  /\ rl.at = "idle" => rl.order = <<>> /\ rl.failed = {}

\* The base index holds together.
LEMMA BaseOk == IndexOk(BaseIndex)
  BY DEF IndexOk, BaseIndex

\* The index a finished reload builds holds together.
LEMMA BuiltOk ==
  ASSUME NEW rl, ReloadOk(rl)
  PROVE  IndexOk(BuildIndex(rl.order, rl.manifests, rl.failed))
<1>1. PICK order, manifests, failed :
        order = rl.order /\ manifests = rl.manifests /\ failed = rl.failed
  OBVIOUS
<1>2. PICK ix : ix = BuildIndex(order, manifests, failed)
  OBVIOUS
<1>3. PICK new : new = {order[n] : n \in DOMAIN order}
  OBVIOUS
<1>4. /\ ix.roles = BaseIndex.roles \cup UNION {{<<v, r>> : r \in manifests[v].roles} : v \in new}
      /\ ix.toolOf = [t \in ToolNames |-> Owner(BaseIndex, order, manifests, t)]
      /\ ix.roleTools = [v \in Verticals |-> IF v \in new THEN manifests[v].tools ELSE BaseIndex.roleTools[v]]
      /\ ix.loaded = BaseIndex.loaded \cup new
      /\ ix.stubs = failed
  BY <1>2, <1>3 DEF BuildIndex, WithVerticals
<1>5. BaseIndex.loaded = {} /\ \A t \in ToolNames : BaseIndex.toolOf[t] = NoVertical
  BY DEF BaseIndex
<1>6. order \in Seq(Verticals) /\ new \subseteq Verticals /\ failed \subseteq Verticals /\ new \cap failed = {}
  BY <1>1, <1>3 DEF ReloadOk
<1>7. \A r \in BaseIndex.roles : r[1] = NoVertical
  BY DEF BaseIndex
<1>8. ASSUME NEW t \in ToolNames
      PROVE  ix.toolOf[t] = NoVertical \/ (ix.toolOf[t] \in new /\ t \in manifests[ix.toolOf[t]].tools)
  <2>1. PICK by : by = {n \in DOMAIN order : t \in manifests[order[n]].tools}
    OBVIOUS
  <2>2. ix.toolOf[t] = IF by = {} THEN NoVertical ELSE order[Max(by)]
    BY <1>4, <1>5, <2>1 DEF Owner
  <2>3. PICK n \in Nat : n = Len(order) /\ DOMAIN order = 1..n
    BY <1>6
  <2>4. by \in SUBSET (1..n)
    BY <2>1, <2>3
  <2>5. by # {} => Max(by) \in by
    BY <2>4, GreatestNumber
  <2> QED
    BY <2>1, <2>2, <2>5, <1>3
<1>9. /\ \A r \in ix.roles : r[1] = NoVertical \/ r[1] \in ix.loaded
  <2> SUFFICES ASSUME NEW r \in ix.roles, r \notin BaseIndex.roles PROVE r[1] \in new
    BY <1>4, <1>7
  <2>1. PICK v \in new : r \in {<<v, x>> : x \in manifests[v].roles}
    BY <1>4
  <2> QED
    BY <2>1
<1>10. ix.toolOf \in [ToolNames -> Verticals \cup {NoVertical}]
  BY <1>4, <1>6, <1>8
<1>11. ix.loaded = new
  BY <1>4, <1>5
<1>12. \A t \in ToolNames : ix.toolOf[t] \in new => t \in ix.roleTools[ix.toolOf[t]]
                                \/ t \notin manifests[ix.toolOf[t]].tools
  BY <1>4, <1>6
<1>13. \A t \in ToolNames :
         ix.toolOf[t] = NoVertical
           \/ (ix.toolOf[t] \in ix.loaded /\ t \in ix.roleTools[ix.toolOf[t]])
  BY <1>8, <1>11, <1>12
<1> QED
  BY <1>1, <1>2, <1>4, <1>6, <1>9, <1>10, <1>11, <1>13 DEF IndexOk

-----------------------------------------------------------------------------
(* The steps                                                               *)

PoolEntry ==
  [client : BOOLEAN, status : {"unknown", "connected", "disconnected"}, dial : [1..2 -> 0..1]]

\* The client of a service is there once its status says connected, and
\* already while a dial is between its two locks.
PoolOk ==
  /\ pool \in [Services -> PoolEntry]
  /\ \A s \in Services :
       /\ pool[s].status = "connected" => pool[s].client
       /\ \A d \in 1..2 : pool[s].dial[d] = 1 => pool[s].client

\* What a launch accepted stays so, whatever is saved or loaded afterwards.
LaunchOk ==
  /\ profs \in Seq(ProfileContents)
  /\ startedAs.accepted =>
       /\ \A a \in startedAs.pins : a.ver \in DOMAIN profs
       /\ \A r \in {r \in startedAs.under.roles : r[1] = startedAs.vertical} :
            \E a \in startedAs.pins : a.role = r /\ profs[a.ver].role = r

ReloadsOk ==
  /\ world \in [Verticals -> ManifestType]
  /\ reload \in [1..2 -> [at : {"idle", "fetch"}, todo : Seq(Verticals), order : Seq(Verticals),
                          manifests : [Verticals -> ManifestType], failed : SUBSET Verticals]]
  /\ \A h \in 1..2 : ReloadOk(reload[h])

CatalogInv ==
  IndexOk(index) /\ ReloadsOk /\ LaunchOk /\ PoolOk /\ SearchKeepsBest /\ RoundTrip

\* What a row is after a round trip: no empty tag list, private.
Normal(row) == [row EXCEPT !.tags = IF @ = "empty" THEN None ELSE @, !.visibility = "private"]

\* Rows with the same columns are the same.
LEMMA SameRow ==
  ASSUME NEW x \in ProfileRows, NEW y \in ProfileRows,
         x.tags = y.tags, x.allow = y.allow, x.deny = y.deny, x.cost = y.cost,
         x.wall = y.wall, x.threshold = y.threshold, x.visibility = y.visibility
  PROVE  x = y
  BY DEF ProfileRows

\* The columns of a normal row.
LEMMA NormalFields ==
  ASSUME NEW x \in ProfileRows
  PROVE  /\ Normal(x) \in ProfileRows
         /\ Normal(x).tags = (IF x.tags = "empty" THEN None ELSE x.tags)
         /\ Normal(x).allow = x.allow /\ Normal(x).deny = x.deny
         /\ Normal(x).cost = x.cost /\ Normal(x).wall = x.wall
         /\ Normal(x).threshold = x.threshold /\ Normal(x).visibility = "private"
  BY DEF Normal, ProfileRows, None

\* Export followed by import is the normal row.
LEMMA YamlRoundTrip ==
  ASSUME NEW row \in ProfileRows
  PROVE  ImportYaml(ExportYaml(row)) = Normal(row)
<1>1. PICK y : y = ExportYaml(row)
  OBVIOUS
<1>2. /\ y.tags = IF row.tags = "some" THEN "some" ELSE None
      /\ y.tools = IF row.allow # None \/ row.deny # None THEN <<row.allow, row.deny>> ELSE <<>>
      /\ y.budget = IF HasBudget(row) THEN <<row.cost, row.wall, row.threshold>> ELSE <<>>
  BY <1>1 DEF ExportYaml
<1>3. PICK b : b = ImportYaml(y)
  OBVIOUS
<1>4. /\ b.tags = y.tags
      /\ b.allow = IF y.tools = <<>> THEN None ELSE y.tools[1]
      /\ b.deny = IF y.tools = <<>> THEN None ELSE y.tools[2]
      /\ b.cost = IF y.budget = <<>> THEN None ELSE y.budget[1]
      /\ b.wall = IF y.budget = <<>> THEN None ELSE y.budget[2]
      /\ b.threshold = IF y.budget = <<>> THEN None ELSE y.budget[3]
      /\ b.visibility = "private"
  BY <1>3 DEF ImportYaml
<1>5. b = [tags |-> b.tags, allow |-> b.allow, deny |-> b.deny, cost |-> b.cost, wall |-> b.wall,
           threshold |-> b.threshold, visibility |-> b.visibility]
  BY <1>3 DEF ImportYaml
<1>6. b.allow = row.allow /\ b.deny = row.deny
  <2>1. CASE row.allow # None \/ row.deny # None
    BY <2>1, <1>2, <1>4
  <2>2. CASE row.allow = None /\ row.deny = None
    BY <2>2, <1>2, <1>4
  <2> QED
    BY <2>1, <2>2
<1>7. b.cost = row.cost /\ b.wall = row.wall /\ b.threshold = row.threshold
  <2>1. CASE HasBudget(row)
    BY <2>1, <1>2, <1>4
  <2>2. CASE ~HasBudget(row)
    BY <2>2, <1>2, <1>4 DEF HasBudget
  <2> QED
    BY <2>1, <2>2
<1>8. b.tags = IF row.tags = "empty" THEN None ELSE row.tags
  BY <1>2, <1>4 DEF ProfileRows, None
<1>9. b \in ProfileRows
  BY <1>4, <1>5, <1>6, <1>7, <1>8 DEF ProfileRows, None
<1>10. b = Normal(row)
  BY <1>4, <1>6, <1>7, <1>8, <1>9, NormalFields, SameRow
<1> QED
  BY <1>1, <1>3, <1>10

\* The invariant says what the property asks.
LEMMA CatalogInvImplies == CatalogInv => CatalogSound
<1> SUFFICES ASSUME CatalogInv PROVE CatalogSound
  OBVIOUS
<1>1. NoGhosts
  BY DEF CatalogInv, IndexOk, NoGhosts
<1>2. AcceptedIsUsable
  <2> SUFFICES ASSUME NEW p \in ProfileContents, ProfileValid(index, p), p.role[1] # NoVertical
               PROVE  \E t \in index.roleTools[p.role[1]] : (p.allow = {} \/ t \in p.allow) /\ t \notin p.deny
    BY DEF AcceptedIsUsable
  <2>1. PICK t \in Effective(index, p) : TRUE
    BY DEF ProfileValid
  <2>2. CASE p.allow = {}
    BY <2>1, <2>2 DEF Effective
  <2>3. CASE p.allow # {}
    <3>1. t \in p.allow /\ t \notin p.deny
      BY <2>1, <2>3 DEF Effective
    <3>2. t \in ToolNames
      BY <3>1 DEF ProfileContents
    <3>3. index.toolOf[t] # NoVertical /\ index.toolOf[t] = p.role[1]
      BY <3>1 DEF ProfileValid, ToolsOk
    <3>4. t \in index.roleTools[p.role[1]]
      BY <3>2, <3>3 DEF CatalogInv, IndexOk
    <3> QED
      BY <3>1, <3>4
  <2> QED
    BY <2>2, <2>3
<1>3. AcceptedIsStaffed
  BY DEF CatalogInv, LaunchOk, AcceptedIsStaffed
<1>4. HealthyMeansDialed
  <2> SUFFICES ASSUME Health(TRUE, TRUE) = "healthy", NEW s \in Services PROVE pool[s].client
    BY DEF HealthyMeansDialed
  <2>1. HealthString(pool[s].status) = "ok"
    BY DEF Health
  <2>2. pool[s].status = "connected"
    BY <2>1 DEF HealthString
  <2> QED
    BY <2>2 DEF CatalogInv, PoolOk
<1> QED
  BY <1>1, <1>2, <1>3, <1>4 DEF CatalogInv, CatalogSound

\* No reload is under way and nothing has been found, saved or dialled at first.
LEMMA CatalogInvInit == CatalogInit /\ ToolingInit => CatalogInv
<1> SUFFICES ASSUME CatalogInit, ToolingInit PROVE CatalogInv
  OBVIOUS
<1>1. IndexOk(index)
  BY BaseOk DEF CatalogInit
<1>2. Gone \in ManifestType /\ [here |-> TRUE, roles |-> RoleIds, tools |-> ToolNames] \in ManifestType
  BY DEF Gone, ManifestType
<1>3. ReloadsOk
  <2>1. world \in [Verticals -> ManifestType]
    BY <1>2 DEF CatalogInit
  <2>2. NoReload \in [at : {"idle", "fetch"}, todo : Seq(Verticals), order : Seq(Verticals),
                     manifests : [Verticals -> ManifestType], failed : SUBSET Verticals]
    BY <1>2 DEF NoReload
  <2>3. ReloadOk(NoReload)
    BY <1>2 DEF NoReload, ReloadOk
  <2> QED
    BY <2>1, <2>2, <2>3 DEF CatalogInit, ReloadsOk
<1>4. LaunchOk
  BY DEF CatalogInit, LaunchOk
<1>5. PoolOk
  BY DEF ToolingInit, PoolOk, PoolEntry
<1>6. SearchKeepsBest
  <2>1. hits.got = {} /\ hits.limit = 1
    BY DEF ToolingInit, NoSearch
  <2>2. Found(hits.of) = {}
    BY DEF ToolingInit, NoSearch, Found, Rank
  <2>3. Cardinality(hits.got) = 0 /\ Cardinality(Found(hits.of)) = 0
    BY <2>1, <2>2, FS_EmptySet
  <2>4. Min({1, 0}) = 0
    BY DEF Min
  <2> QED
    BY <2>1, <2>2, <2>3, <2>4 DEF SearchKeepsBest
<1>7. RoundTrip
  <2>1. PICK x : x = exported.row
    OBVIOUS
  <2>2. x = [tags |-> "none", allow |-> "none", deny |-> "none", cost |-> "none", wall |-> "none",
             threshold |-> "none", visibility |-> "private"]
    BY <2>1 DEF ToolingInit, NoExport, None
  <2>3. exported.back = x
    BY <2>1 DEF ToolingInit, NoExport
  <2>4. x = Normal(x)
    <3>1. x \in ProfileRows /\ x.tags = "none" /\ x.visibility = "private"
      BY <2>2 DEF ProfileRows, None
    <3> QED
      BY <3>1, NormalFields, SameRow DEF None
  <2> QED
    BY <2>1, <2>3, <2>4 DEF RoundTrip, Normal
<1> QED
  BY <1>1, <1>3, <1>4, <1>5, <1>6, <1>7 DEF CatalogInv

\* A reload starts with the verticals of the moment, each once.
LEMMA StartReloadKeeps ==
  ASSUME CatalogInv, NEW h \in 1..2, StartReload(h)
  PROVE  CatalogInv'
<1>1. /\ world' = world /\ index' = index /\ profs' = profs /\ startedAs' = startedAs
      /\ hits' = hits /\ exported' = exported /\ pool' = pool
  BY DEF StartReload, toolingVars
<1>2. ReloadsOk'
  <2>1. CASE reload' = reload
    BY <2>1, <1>1 DEF CatalogInv, ReloadsOk
  <2>2. ASSUME NEW q \in Orders({v \in Verticals : world[v].here}),
               reload' = [reload EXCEPT ![h].at = "fetch", ![h].todo = q]
        PROVE  ReloadsOk'
    <3>1. PICK S : S = {v \in Verticals : world[v].here}
      OBVIOUS
    <3>2. IsFiniteSet(S)
      BY <3>1, FS_Subset, CatalogAssumption
    <3>3. PICK n \in Nat : n = Cardinality(S)
      BY <3>2, FS_CardinalityType
    <3>4. q \in [1..n -> S] /\ \A i, j \in DOMAIN q : q[i] = q[j] => i = j
      BY <3>1, <3>3 DEF Orders
    <3>5. q \in Seq(Verticals)
      BY <3>1, <3>4
    <3>6. PICK rl : rl = [reload[h] EXCEPT !.at = "fetch", !.todo = q]
      OBVIOUS
    <3>7. reload' = [reload EXCEPT ![h] = rl]
      BY <2>2, <3>6 DEF CatalogInv, ReloadsOk
    <3>8. /\ rl \in [at : {"idle", "fetch"}, todo : Seq(Verticals), order : Seq(Verticals),
                     manifests : [Verticals -> ManifestType], failed : SUBSET Verticals]
          /\ rl.todo = q /\ rl.order = reload[h].order /\ rl.manifests = reload[h].manifests
          /\ rl.failed = reload[h].failed
      BY <3>5, <3>6 DEF CatalogInv, ReloadsOk
    <3>9. reload[h].order = <<>> /\ reload[h].failed = {} /\ rl.at = "fetch"
      BY <3>6 DEF CatalogInv, ReloadsOk, ReloadOk, StartReload
    <3>10. ReloadOk(rl)
      BY <3>4, <3>5, <3>8, <3>9 DEF ReloadOk, CatalogInv, ReloadsOk
    <3> QED
      BY <3>7, <3>8, <3>10, <1>1 DEF CatalogInv, ReloadsOk
  <2> QED
    BY <2>1, <2>2 DEF StartReload
<1> QED
  BY <1>1, <1>2 DEF CatalogInv, LaunchOk, PoolOk, SearchKeepsBest, RoundTrip

\* A manifest fetched or missed leaves the list of what is to do.
LEMMA FetchManifestKeeps ==
  ASSUME CatalogInv, NEW h \in 1..2, FetchManifest(h)
  PROVE  CatalogInv'
<1>1. /\ world' = world /\ index' = index /\ profs' = profs /\ startedAs' = startedAs
      /\ hits' = hits /\ exported' = exported /\ pool' = pool
  BY DEF FetchManifest, toolingVars
<1>2. PICK rl : rl = reload[h]
  OBVIOUS
<1>3. /\ rl \in [at : {"idle", "fetch"}, todo : Seq(Verticals), order : Seq(Verticals),
                 manifests : [Verticals -> ManifestType], failed : SUBSET Verticals]
      /\ ReloadOk(rl) /\ rl.at = "fetch" /\ rl.todo # <<>>
  BY <1>2 DEF CatalogInv, ReloadsOk, FetchManifest
<1>4. PICK v : v = Head(rl.todo)
  OBVIOUS
<1>5. PICK rest : rest = Tail(rl.todo)
  OBVIOUS
<1>6. /\ v \in Verticals /\ rest \in Seq(Verticals) /\ v = rl.todo[1] /\ 1 \in DOMAIN rl.todo
      /\ \A i \in DOMAIN rest : i + 1 \in DOMAIN rl.todo /\ rest[i] = rl.todo[i + 1] /\ i \in Nat /\ i > 0
  BY <1>3, <1>4, <1>5
<1>7. /\ \A i, j \in DOMAIN rest : rest[i] = rest[j] => i = j
      /\ \A i \in DOMAIN rest : rest[i] # v /\ rest[i] \notin rl.failed
      /\ \A i \in DOMAIN rest, j \in DOMAIN rl.order : rest[i] # rl.order[j]
  <2>1. \A i, j \in DOMAIN rest : rest[i] = rest[j] => i = j
    <3> SUFFICES ASSUME NEW i \in DOMAIN rest, NEW j \in DOMAIN rest, rest[i] = rest[j] PROVE i = j
      OBVIOUS
    <3>1. i + 1 = j + 1
      BY <1>3, <1>6 DEF ReloadOk
    <3> QED
      BY <3>1, <1>6
  <2>2. ASSUME NEW i \in DOMAIN rest PROVE rest[i] # v
    <3>1. i + 1 # 1
      BY <1>6
    <3> QED
      BY <3>1, <1>3, <1>6 DEF ReloadOk
  <2> QED
    BY <2>1, <2>2, <1>3, <1>6 DEF ReloadOk
<1>8. v \notin rl.failed /\ \A j \in DOMAIN rl.order : v # rl.order[j]
  BY <1>3, <1>6 DEF ReloadOk
<1>9. PICK next : next = [rl EXCEPT !.todo = rest]
  OBVIOUS
<1>10. ReloadsOk'
  <2>1. CASE world[v].here /\ reload' = [reload EXCEPT ![h] = [next EXCEPT !.order = Append(@, v), !.manifests[v] = world[v]]]
    <3>1. PICK z : z = [next EXCEPT !.order = Append(@, v), !.manifests[v] = world[v]]
      OBVIOUS
    <3>2. world[v] \in ManifestType
      BY <1>6 DEF CatalogInv, ReloadsOk
    <3>3. PICK order : order = Append(rl.order, v)
      OBVIOUS
    <3>4. /\ order \in Seq(Verticals)
          /\ \A j \in DOMAIN order : order[j] = v \/ (j \in DOMAIN rl.order /\ order[j] = rl.order[j])
      BY <3>3, <1>3, <1>6
    <3>5. /\ z.todo = rest /\ z.order = order /\ z.failed = rl.failed /\ z.at = "fetch"
          /\ z.manifests \in [Verticals -> ManifestType]
          /\ z \in [at : {"idle", "fetch"}, todo : Seq(Verticals), order : Seq(Verticals),
                    manifests : [Verticals -> ManifestType], failed : SUBSET Verticals]
      BY <3>1, <3>2, <3>3, <3>4, <1>3, <1>6, <1>9
    <3>6. ReloadOk(z)
      <4>1. \A i \in DOMAIN rest, j \in DOMAIN order : rest[i] # order[j]
        BY <3>4, <1>7
      <4>2. \A j \in DOMAIN order : order[j] \notin rl.failed
        BY <3>4, <1>8, <1>3 DEF ReloadOk
      <4> QED
        BY <4>1, <4>2, <3>4, <3>5, <1>3, <1>6, <1>7 DEF ReloadOk
    <3> QED
      BY <2>1, <3>1, <3>5, <3>6, <1>1 DEF CatalogInv, ReloadsOk
  <2>2. CASE reload' = [reload EXCEPT ![h] = [next EXCEPT !.failed = @ \cup {v}]]
    <3>1. PICK z : z = [next EXCEPT !.failed = @ \cup {v}]
      OBVIOUS
    <3>2. /\ z.todo = rest /\ z.order = rl.order /\ z.failed = rl.failed \cup {v} /\ z.at = "fetch"
          /\ z.manifests = rl.manifests
          /\ z \in [at : {"idle", "fetch"}, todo : Seq(Verticals), order : Seq(Verticals),
                    manifests : [Verticals -> ManifestType], failed : SUBSET Verticals]
      BY <3>1, <1>3, <1>6, <1>9
    <3>3. ReloadOk(z)
      BY <3>2, <1>3, <1>6, <1>7, <1>8 DEF ReloadOk
    <3> QED
      BY <2>2, <3>1, <3>2, <3>3, <1>1 DEF CatalogInv, ReloadsOk
  <2> QED
    BY <2>1, <2>2, <1>2, <1>4, <1>5, <1>9 DEF FetchManifest
<1> QED
  BY <1>1, <1>10 DEF CatalogInv, LaunchOk, PoolOk, SearchKeepsBest, RoundTrip

\* The swap puts in an index that was built whole.
LEMMA SwapIndexKeeps ==
  ASSUME CatalogInv, NEW h \in 1..2, SwapIndex(h)
  PROVE  CatalogInv'
<1>1. /\ world' = world /\ profs' = profs /\ startedAs' = startedAs
      /\ hits' = hits /\ exported' = exported /\ pool' = pool
  BY DEF SwapIndex, toolingVars
<1>2. ReloadOk(reload[h])
  BY DEF CatalogInv, ReloadsOk
<1>3. IndexOk(index')
  BY <1>2, BuiltOk DEF SwapIndex
<1>4. Gone \in ManifestType
  BY DEF Gone, ManifestType
<1>5. NoReload \in [at : {"idle", "fetch"}, todo : Seq(Verticals), order : Seq(Verticals),
                   manifests : [Verticals -> ManifestType], failed : SUBSET Verticals]
  BY <1>4 DEF NoReload
<1>6. ReloadOk(NoReload)
  BY <1>4 DEF NoReload, ReloadOk
<1>7. ReloadsOk'
  BY <1>1, <1>5, <1>6 DEF CatalogInv, ReloadsOk, SwapIndex
<1> QED
  BY <1>1, <1>3, <1>7 DEF CatalogInv, LaunchOk, PoolOk, SearchKeepsBest, RoundTrip, IndexOk

\* A deployment changes what the next fetch finds and nothing else.
LEMMA WorldChangesKeeps ==
  ASSUME CatalogInv, WorldChanges
  PROVE  CatalogInv'
<1>1. /\ index' = index /\ reload' = reload /\ profs' = profs /\ startedAs' = startedAs
      /\ hits' = hits /\ exported' = exported /\ pool' = pool
  BY DEF WorldChanges, toolingVars
<1>2. Manifests \cup {Gone} \subseteq ManifestType
  <2>1. Gone \in ManifestType
    BY DEF Gone, ManifestType
  <2>2. ASSUME NEW m \in Manifests PROVE m \in ManifestType
    <3>1. m = [here |-> m.here, roles |-> m.roles, tools |-> m.tools] /\ m.here = TRUE
      BY DEF Manifests
    <3>2. m.roles \in SUBSET RoleIds /\ m.tools \in SUBSET ToolNames
      BY DEF Manifests
    <3> QED
      BY <3>1, <3>2 DEF ManifestType
  <2> QED
    BY <2>1, <2>2
<1>3. world' \in [Verticals -> ManifestType]
  BY <1>2 DEF WorldChanges, CatalogInv, ReloadsOk
<1> QED
  BY <1>1, <1>3 DEF CatalogInv, ReloadsOk, LaunchOk, PoolOk, SearchKeepsBest, RoundTrip

\* Saving appends a version and leaves the pinned ones as they are.
LEMMA SaveProfileKeeps ==
  ASSUME CatalogInv, SaveProfile
  PROVE  CatalogInv'
<1>1. /\ world' = world /\ index' = index /\ reload' = reload /\ startedAs' = startedAs
      /\ hits' = hits /\ exported' = exported /\ pool' = pool
  BY DEF SaveProfile, toolingVars
<1>2. PICK p \in ProfileContents : profs' = Append(profs, p)
  BY DEF SaveProfile
<1>3. profs \in Seq(ProfileContents)
  BY DEF CatalogInv, LaunchOk
<1>4. profs' \in Seq(ProfileContents) /\ \A k \in DOMAIN profs : k \in DOMAIN profs' /\ profs'[k] = profs[k]
  BY <1>2, <1>3
<1>5. LaunchOk'
  <2>1. CASE ~startedAs.accepted
    BY <2>1, <1>1, <1>4 DEF LaunchOk
  <2>2. CASE startedAs.accepted
    <3>1. /\ \A a \in startedAs.pins : a.ver \in DOMAIN profs
          /\ \A r \in {r \in startedAs.under.roles : r[1] = startedAs.vertical} :
               \E a \in startedAs.pins : a.role = r /\ profs[a.ver].role = r
      BY <2>2 DEF CatalogInv, LaunchOk
    <3> QED
      BY <3>1, <1>1, <1>4 DEF LaunchOk
  <2> QED
    BY <2>1, <2>2
<1> QED
  BY <1>1, <1>5 DEF CatalogInv, ReloadsOk, PoolOk, SearchKeepsBest, RoundTrip

\* A launch that validation let through is staffed.
LEMMA LaunchKeeps ==
  ASSUME CatalogInv, LaunchValidated
  PROVE  CatalogInv'
<1>1. /\ world' = world /\ index' = index /\ reload' = reload /\ profs' = profs
      /\ hits' = hits /\ exported' = exported /\ pool' = pool
  BY DEF LaunchValidated, toolingVars
<1>2. PICK v \in Verticals :
        SessionValid(v) /\ startedAs' = [vertical |-> v, accepted |-> TRUE, pins |-> pinned, under |-> index]
  BY DEF LaunchValidated
<1>3. /\ \A r \in {r \in index.roles : r[1] = v} : \E a \in pinned : a.role = r
      /\ \A a \in pinned : a.ver \in DOMAIN profs /\ profs[a.ver].role = a.role
  BY <1>2 DEF SessionValid, RoleOfPin
<1>4. startedAs'.pins = pinned /\ startedAs'.under = index /\ startedAs'.vertical = v
  BY <1>2
<1>5. LaunchOk'
  BY <1>1, <1>3, <1>4 DEF LaunchOk, CatalogInv
<1> QED
  BY <1>1, <1>5 DEF CatalogInv, ReloadsOk, PoolOk, SearchKeepsBest, RoundTrip

\* A dial gives the client before the status.
LEMMA DialKeeps ==
  ASSUME CatalogInv, NEW s \in Services, NEW d \in 1..2, Dial(s, d) \/ DialDone(s, d)
  PROVE  CatalogInv'
<1>1. /\ world' = world /\ index' = index /\ reload' = reload /\ profs' = profs
      /\ startedAs' = startedAs /\ hits' = hits /\ exported' = exported
  BY DEF Dial, DialDone, catalogVars
<1>2. ASSUME NEW z, pool' = [pool EXCEPT ![s] = z],
             z \in PoolEntry, z.status = "connected" => z.client,
             \A e \in 1..2 : z.dial[e] = 1 => z.client
      PROVE  PoolOk'
  BY <1>2 DEF PoolOk, CatalogInv
<1>3. PICK p : p = pool[s]
  OBVIOUS
<1>4. /\ p \in PoolEntry /\ (p.status = "connected" => p.client)
      /\ \A e \in 1..2 : p.dial[e] = 1 => p.client
  BY <1>3 DEF CatalogInv, PoolOk
<1>5. ASSUME pool' = [pool EXCEPT ![s] = [DialStep(@, 1) EXCEPT !.dial[d] = 1]] PROVE PoolOk'
  <2>1. PICK q : q = DialStep(p, 1)
    OBVIOUS
  <2>2. q \in PoolEntry /\ q.client
    BY <2>1, <1>4 DEF DialStep, PoolEntry
  <2>3. PICK z : z = [q EXCEPT !.dial[d] = 1]
    OBVIOUS
  <2>4. z \in PoolEntry /\ z.client
    BY <2>2, <2>3 DEF PoolEntry
  <2>5. pool' = [pool EXCEPT ![s] = z]
    BY <2>1, <2>3, <1>3, <1>5 DEF CatalogInv, PoolOk
  <2> QED
    BY <2>4, <2>5, <1>2
<1>6. ASSUME pool' = [pool EXCEPT ![s].status = "disconnected"] PROVE PoolOk'
  <2>1. PICK z : z = [p EXCEPT !.status = "disconnected"]
    OBVIOUS
  <2>2. z \in PoolEntry /\ z.status = "disconnected" /\ z.dial = p.dial /\ z.client = p.client
    BY <2>1, <1>4 DEF PoolEntry
  <2>3. pool' = [pool EXCEPT ![s] = z]
    BY <2>1, <1>3, <1>6 DEF CatalogInv, PoolOk
  <2> QED
    BY <2>2, <2>3, <1>2, <1>4
<1>7. ASSUME pool[s].dial[d] = 1, pool' = [pool EXCEPT ![s] = [DialStep(@, 2) EXCEPT !.dial[d] = 0]]
      PROVE  PoolOk'
  <2>1. PICK q : q = DialStep(p, 2)
    OBVIOUS
  <2>2. q \in PoolEntry /\ q.client
    BY <2>1, <1>3, <1>4, <1>7 DEF DialStep, PoolEntry
  <2>3. PICK z : z = [q EXCEPT !.dial[d] = 0]
    OBVIOUS
  <2>4. z \in PoolEntry /\ z.client
    BY <2>2, <2>3 DEF PoolEntry
  <2>5. pool' = [pool EXCEPT ![s] = z]
    BY <2>1, <2>3, <1>3, <1>7 DEF CatalogInv, PoolOk
  <2> QED
    BY <2>4, <2>5, <1>2
<1>8. PoolOk'
  BY <1>5, <1>6, <1>7 DEF Dial, DialDone
<1> QED
  BY <1>1, <1>8 DEF CatalogInv, ReloadsOk, LaunchOk, SearchKeepsBest, RoundTrip

\* Every step keeps the invariant.
LEMMA CatalogInvNext ==
  ASSUME CatalogInv, [ReloadNext \/ UseNext \/ Search \/ ExportImport \/ DialNext]_<<catalogVars, toolingVars>>
  PROVE  CatalogInv'
<1>1. CASE ReloadNext
  BY <1>1, StartReloadKeeps, FetchManifestKeeps, SwapIndexKeeps, WorldChangesKeeps DEF ReloadNext
<1>2. CASE PinProfile
  BY <1>2 DEF PinProfile, toolingVars, CatalogInv, ReloadsOk, LaunchOk, PoolOk, SearchKeepsBest, RoundTrip, IndexOk
<1>3. CASE Search
  <2>1. /\ world' = world /\ index' = index /\ reload' = reload /\ profs' = profs
        /\ startedAs' = startedAs /\ exported' = exported /\ pool' = pool
    BY <1>3 DEF Search, catalogVars
  <2>2. PICK m \in [Entities -> [name : Match, other : Match]], limit \in 1..Cardinality(Entities) :
          hits' = [of |-> m, limit |-> limit, got |-> Hits(m, limit)]
    BY <1>3 DEF Search
  <2>3. limit \in Nat /\ hits'.of = m /\ hits'.limit = limit /\ hits'.got = Hits(m, limit)
    BY <2>2
  <2>4. SearchKeepsBest'
    BY <2>3, HitsFill, HitsAreBest DEF SearchKeepsBest
  <2> QED
    BY <2>1, <2>4 DEF CatalogInv, ReloadsOk, LaunchOk, PoolOk, RoundTrip
<1>4. CASE ExportImport
  <2>1. /\ world' = world /\ index' = index /\ reload' = reload /\ profs' = profs
        /\ startedAs' = startedAs /\ hits' = hits /\ pool' = pool
    BY <1>4 DEF ExportImport, catalogVars
  <2>2. PICK row \in ProfileRows : exported' = [row |-> row, back |-> ImportYaml(ExportYaml(row))]
    BY <1>4 DEF ExportImport
  <2>3. exported'.row = row /\ exported'.back = Normal(row)
    BY <2>2, YamlRoundTrip
  <2>4. RoundTrip'
    BY <2>3 DEF RoundTrip, Normal
  <2> QED
    BY <2>1, <2>4 DEF CatalogInv, ReloadsOk, LaunchOk, PoolOk, SearchKeepsBest
<1>5. CASE UNCHANGED <<catalogVars, toolingVars>>
  BY <1>5 DEF catalogVars, toolingVars, CatalogInv, ReloadsOk, LaunchOk, PoolOk, SearchKeepsBest, RoundTrip
<1>6. CASE DialNext
  BY <1>6, DialKeeps DEF DialNext
<1>7. CASE UseNext
  BY <1>7, <1>2, SaveProfileKeeps, LaunchKeeps DEF UseNext
<1> QED
  BY <1>1, <1>3, <1>4, <1>5, <1>6, <1>7

\* However reloads overlap, profiles are saved and services are dialled, for
\* any verticals, roles, tools and entries: the served index has no ghosts, an
\* accepted profile can do something, a launched session is staffed, a search
\* keeps the best hits, an exported profile comes back and a healthy console
\* has its clients.
THEOREM CatalogAlwaysSound == CatalogSpec => []CatalogSound
<1>1. CatalogInit /\ ToolingInit => CatalogInv
  BY CatalogInvInit
<1>2. CatalogInv /\ [ReloadNext \/ UseNext \/ Search \/ ExportImport \/ DialNext]_<<catalogVars, toolingVars>>
        => CatalogInv'
  BY CatalogInvNext
<1>3. CatalogInv => CatalogSound
  BY CatalogInvImplies
<1> QED
  BY <1>1, <1>2, <1>3, PTL DEF CatalogSpec
=============================================================================
