-------------------------------- MODULE Catalog --------------------------------
(***************************************************************************)
(* The console's taxonomy index and what is validated against it           *)
(* (console-core taxonomy.rs, taxonomy_builder.rs, profile_validation.rs,  *)
(* session_validation.rs, profile_yaml.rs; console-api routes taxonomy.rs, *)
(* search.rs, discovery.rs, verticals.rs, health.rs; console-runtime       *)
(* rest_client.rs and grpc_pool.rs).                                       *)
(*                                                                         *)
(* A reload fetches the list of verticals and then each manifest, awaiting *)
(* every one, and swaps a new index in; two reloads may overlap, and       *)
(* profiles and sessions are validated against the index of the moment.    *)
(***************************************************************************)
EXTENDS Naturals, FiniteSets, FiniteSetsExt, Sequences

CONSTANTS
  Verticals,      \* ids of verticals
  RoleIds,        \* role ids of manifests; a role is <<vertical, role id>>
  ToolNames,      \* tool names, which two verticals may share
  MaxReloads,     \* reloads and deployments
  MaxProfVersions,\* versions of the profile
  Entities        \* searchable entries, numbered by the order of their names

ASSUME CatalogAssumption ==
  /\ IsFiniteSet(Verticals) /\ IsFiniteSet(Entities) /\ Entities \subseteq Nat

VARIABLES
  world,     \* external: [Verticals -> the manifest the runtime serves, or absent]
  index,     \* the TaxonomyIndex
  reload,    \* [1..2 -> a running reload]
  reloads,
  profs,     \* the versions of one profile: sequence of contents
  pinned,    \* the session's assignments: set of [role, ver]
  startedAs, \* what the launch accepted: [vertical, accepted, pins]
  hits,      \* a search: [of, limit, got]
  exported,  \* an export followed by an import: [row, back]
  pool       \* the gRPC pool: [Services -> [client, status, dial]]

catalogVars == <<world, index, reload, reloads, profs, pinned, startedAs>>
toolingVars == <<hits, exported, pool>>

Gone == [here |-> FALSE, roles |-> {}, tools |-> {}]

Manifests == [here : {TRUE}, roles : (SUBSET RoleIds) \ {{}}, tools : SUBSET ToolNames]

-----------------------------------------------------------------------------
(* Building the index                                                      *)

NoVertical == "none"

\* insert_base_roles: three roles of no vertical.
BaseIndex ==
  [roles |-> {<<NoVertical, b>> : b \in {"coordinator", "worker", "observer"}},
   toolOf |-> [t \in ToolNames |-> NoVertical], roleTools |-> [v \in Verticals |-> {}],
   loaded |-> {}, stubs |-> {}]

\* Who owns a tool name after the insertions: the tool map is keyed by the bare
\* name, so the vertical inserted last that has the tool.
Owner(ix, order, manifests, t) ==
  LET by == {n \in DOMAIN order : t \in manifests[order[n]].tools}
  IN  IF by = {} THEN ix.toolOf[t] ELSE order[Max(by)]

\* insert_vertical for each of them in turn: every role of a vertical has all
\* its tools.
WithVerticals(ix, order, manifests) ==
  LET new == {order[n] : n \in DOMAIN order}
  IN  [roles |-> ix.roles \cup UNION {{<<v, r>> : r \in manifests[v].roles} : v \in new},
       toolOf |-> [t \in ToolNames |-> Owner(ix, order, manifests, t)],
       roleTools |-> [v \in Verticals |-> IF v \in new THEN manifests[v].tools ELSE ix.roleTools[v]],
       loaded |-> ix.loaded \cup new, stubs |-> ix.stubs \ new]

\* A plausible bug: the verticals are inserted into the index that is served.
Mutant_OntoServed(order, manifests, failed) ==
  LET ix == WithVerticals(index, order, manifests)
  IN  [ix EXCEPT !.stubs = @ \cup failed, !.loaded = @ \ failed]

\* build_index starts from nothing; insert_failed_vertical adds a stub without
\* roles or tools.
BuildIndex(order, manifests, failed) ==
  [WithVerticals(BaseIndex, order, manifests) EXCEPT !.stubs = failed]

NoReload == [at |-> "idle", todo |-> <<>>, order |-> <<>>, manifests |-> [v \in Verticals |-> Gone], failed |-> {}]

Orders(S) == {q \in [1..Cardinality(S) -> S] : \A i, j \in DOMAIN q : q[i] = q[j] => i = j}

\* GET /v1/verticals; an error leaves the index as it is.
StartReload(h) ==
  /\ reload[h].at = "idle" /\ reloads < MaxReloads /\ reloads' = reloads + 1
  /\ \/ reload' = reload
     \/ \E q \in Orders({v \in Verticals : world[v].here}) : reload' = [reload EXCEPT ![h].at = "fetch", ![h].todo = q]
  /\ UNCHANGED <<world, index, profs, pinned, startedAs, toolingVars>>

\* GET /v1/verticals/{id}: the manifest of the moment, or a failure.
FetchManifest(h) ==
  /\ reload[h].at = "fetch" /\ reload[h].todo # <<>>
  /\ LET v == Head(reload[h].todo)
         next == [reload[h] EXCEPT !.todo = Tail(@)]
     IN  \/ /\ world[v].here
            /\ reload' = [reload EXCEPT ![h] = [next EXCEPT !.order = Append(@, v), !.manifests[v] = world[v]]]
         \/ reload' = [reload EXCEPT ![h] = [next EXCEPT !.failed = @ \cup {v}]]
  /\ UNCHANGED <<world, index, reloads, profs, pinned, startedAs, toolingVars>>

\* The atomic swap.
SwapIndex(h) ==
  /\ reload[h].at = "fetch" /\ reload[h].todo = <<>>
  /\ index' = BuildIndex(reload[h].order, reload[h].manifests, reload[h].failed)
  /\ reload' = [reload EXCEPT ![h] = NoReload]
  /\ UNCHANGED <<world, reloads, profs, pinned, startedAs, toolingVars>>

\* The runtime is deployed with other verticals.
WorldChanges ==
  /\ reloads < MaxReloads /\ reloads' = reloads + 1
  /\ \E v \in Verticals, m \in Manifests \cup {Gone} : world[v] # m /\ world' = [world EXCEPT ![v] = m]
  /\ UNCHANGED <<index, reload, profs, pinned, startedAs, toolingVars>>

-----------------------------------------------------------------------------
(* Validation                                                              *)

\* A profile's content, as far as the taxonomy is concerned.
ProfileContents ==
  [role : (Verticals \X RoleIds) \cup {<<NoVertical, "worker">>}, allow : SUBSET ToolNames, deny : SUBSET ToolNames]

Effective(ix, p) == (IF p.allow = {} THEN ix.roleTools[p.role[1]] ELSE p.allow) \ p.deny

\* A plausible bug: a listed tool only has to exist.
Mutant_AnyTool(ix, p) == \A t \in p.allow \cup p.deny : ix.toolOf[t] # NoVertical

\* UNKNOWN_TOOL and TOOL_NOT_IN_ROLE_VERTICAL
ToolsOk(ix, p) ==
  \A t \in p.allow \cup p.deny :
    ix.toolOf[t] # NoVertical /\ (p.role[1] # NoVertical => ix.toolOf[t] = p.role[1])

\* validate_profile: UNKNOWN_ROLE, the tool checks, EMPTY_TOOL_SET.  The field
\* checks on names, temperatures, budgets and tags do not depend on the index.
ProfileValid(ix, p) ==
  /\ p.role \in ix.roles
  /\ ToolsOk(ix, p)
  /\ p.role[1] # NoVertical => Effective(ix, p) # {}

\* create_profile or update_profile with a valid content.  Nothing after the
\* validation looks at the deny list, so the profiles saved have none.
SaveProfile ==
  /\ Len(profs) < MaxProfVersions
  /\ \E p \in {p \in ProfileContents : p.deny = {}} : ProfileValid(index, p) /\ profs' = Append(profs, p)
  /\ UNCHANGED <<world, index, reload, reloads, pinned, startedAs, toolingVars>>

\* set_assignments pins versions to the roles the client names.
PinProfile ==
  /\ startedAs.accepted = FALSE
  /\ \E v \in DOMAIN profs, role \in Verticals \X RoleIds :
       pinned' = {a \in pinned : a.role # role} \cup {[role |-> role, ver |-> v]}
  /\ UNCHANGED <<world, index, reload, reloads, profs, startedAs, toolingVars>>

\* A plausible bug: the role of the profile's newest version is compared.
Mutant_NewestRole(a) == profs[Len(profs)].role

\* ROLE_MISMATCH looks at the pinned version.
RoleOfPin(a) == profs[a.ver].role

\* validate_session: the vertical is known and no stub, each of its roles has
\* an assignment, every assignment's version has the role of its slot.  The
\* profile itself is not validated again.
SessionValid(v) ==
  /\ v \in index.loaded
  /\ \A r \in {r \in index.roles : r[1] = v} : \E a \in pinned : a.role = r
  /\ \A a \in pinned : a.ver \in DOMAIN profs /\ RoleOfPin(a) = a.role

LaunchValidated ==
  /\ startedAs.accepted = FALSE
  /\ \E v \in Verticals : SessionValid(v) /\ startedAs' = [vertical |-> v, accepted |-> TRUE, pins |-> pinned, under |-> index]
  /\ UNCHANGED <<world, index, reload, reloads, profs, pinned, toolingVars>>

CatalogInit ==
  /\ world \in [Verticals -> {Gone, [here |-> TRUE, roles |-> RoleIds, tools |-> ToolNames]}]
  /\ index = BaseIndex /\ reload = [h \in 1..2 |-> NoReload] /\ reloads = 0
  /\ profs = <<>> /\ pinned = {}
  /\ startedAs = [vertical |-> NoVertical, accepted |-> FALSE, pins |-> {}, under |-> BaseIndex]

ReloadNext == (\E h \in 1..2 : StartReload(h) \/ FetchManifest(h) \/ SwapIndex(h)) \/ WorldChanges

UseNext == SaveProfile \/ PinProfile \/ LaunchValidated

-----------------------------------------------------------------------------
(* Search, YAML, the gRPC pool                                             *)

Match == {"exact", "prefix", "contains", "no"}

\* rank_any on the name and one other field.
Rank(m) ==
  CASE "exact" \in {m.name, m.other} -> 1
    [] "exact" \notin {m.name, m.other} /\ "prefix" \in {m.name, m.other} -> 2
    [] m.name = "contains" /\ m.other \notin {"exact", "prefix"} -> 3
    [] m.name = "no" /\ m.other = "contains" -> 4
    [] OTHER -> 0

\* sort_by_key (rank, name)
Better(m, e, f) == Rank(m[e]) < Rank(m[f]) \/ (Rank(m[e]) = Rank(m[f]) /\ e < f)

Found(m) == {e \in Entities : Rank(m[e]) # 0}

\* A plausible bug: truncated in the order of the map, then sorted.
Mutant_TruncateFirst(m, limit) == {e \in Found(m) : Cardinality({f \in Found(m) : f < e}) < limit}

\* The hits that survive truncate(limit): fewer than `limit' are better.
Hits(m, limit) == {e \in Found(m) : Cardinality({f \in Found(m) : Better(m, f, e)}) < limit}

Search ==
  /\ \E m \in [Entities -> [name : Match, other : Match]], limit \in 1..Cardinality(Entities) :
       hits' = [of |-> m, limit |-> limit, got |-> Hits(m, limit)]
  /\ UNCHANGED <<catalogVars, exported, pool>>

None == "none"

\* A profile row: each optional column absent, an empty list, or a value.
ProfileRows ==
  [tags : {None, "empty", "some"}, allow : {None, "empty", "some"}, deny : {None, "empty", "some"},
   cost : {None, "some"}, wall : {None, "some"}, threshold : {None, "some"}, visibility : {"private", "shared"}]

\* A plausible bug: a threshold alone is no budget.
Mutant_NoThreshold(row) == row.cost # None \/ row.wall # None

HasBudget(row) == row.cost # None \/ row.wall # None \/ row.threshold # None

\* export_yaml: an empty tag list is dropped; tools and budget are sections
\* that are left out as a whole; the visibility is not exported.
ExportYaml(row) ==
  [tags |-> IF row.tags = "some" THEN "some" ELSE None,
   tools |-> IF row.allow # None \/ row.deny # None THEN <<row.allow, row.deny>> ELSE <<>>,
   budget |-> IF HasBudget(row) THEN <<row.cost, row.wall, row.threshold>> ELSE <<>>]

\* parse_import_yaml and import_data_to_row
ImportYaml(y) ==
  [tags |-> y.tags,
   allow |-> IF y.tools = <<>> THEN None ELSE y.tools[1], deny |-> IF y.tools = <<>> THEN None ELSE y.tools[2],
   cost |-> IF y.budget = <<>> THEN None ELSE y.budget[1], wall |-> IF y.budget = <<>> THEN None ELSE y.budget[2],
   threshold |-> IF y.budget = <<>> THEN None ELSE y.budget[3], visibility |-> "private"]

ExportImport ==
  /\ \E row \in ProfileRows : exported' = [row |-> row, back |-> ImportYaml(ExportYaml(row))]
  /\ UNCHANGED <<catalogVars, hits, pool>>

Services == {"agent", "highway", "coordinator"}

\* A plausible bug: the status is set before the client is there.
Mutant_StatusFirst(p, step) ==
  IF step = 1 THEN [p EXCEPT !.status = "connected"] ELSE [p EXCEPT !.client = TRUE]

\* connect_agent and its siblings: two locks, taken one after the other.
DialStep(p, step) ==
  IF step = 1 THEN [p EXCEPT !.client = TRUE] ELSE [p EXCEPT !.status = "connected"]

\* Two callers may dial the same service at a time.
Dial(s, d) ==
  /\ pool[s].dial[d] = 0
  /\ \/ pool' = [pool EXCEPT ![s] = [DialStep(@, 1) EXCEPT !.dial[d] = 1]]
     \/ pool' = [pool EXCEPT ![s].status = "disconnected"]
  /\ UNCHANGED <<catalogVars, hits, exported>>

DialDone(s, d) ==
  /\ pool[s].dial[d] = 1
  /\ pool' = [pool EXCEPT ![s] = [DialStep(@, 2) EXCEPT !.dial[d] = 0]]
  /\ UNCHANGED <<catalogVars, hits, exported>>

\* as_health_string and the route's summary.
HealthString(status) == IF status = "connected" THEN "ok" ELSE "error"

Health(db, rest) ==
  IF db /\ rest /\ \A s \in Services : HealthString(pool[s].status) = "ok" THEN "healthy"
  ELSE IF db THEN "degraded" ELSE "unhealthy"

NoSearch == [of |-> [e \in Entities |-> [name |-> "no", other |-> "no"]], limit |-> 1, got |-> {}]

NoExport ==
  LET row == [tags |-> None, allow |-> None, deny |-> None, cost |-> None, wall |-> None,
              threshold |-> None, visibility |-> "private"]
  IN  [row |-> row, back |-> row]

ToolingInit ==
  /\ hits = NoSearch
  /\ exported = NoExport
  /\ pool = [s \in Services |-> [client |-> FALSE, status |-> "unknown", dial |-> [d \in 1..2 |-> 0]]]

DialNext == \E s \in Services, d \in 1..2 : Dial(s, d) \/ DialDone(s, d)

CatalogSpec ==
  /\ CatalogInit /\ ToolingInit
  /\ [][ReloadNext \/ UseNext \/ Search \/ ExportImport \/ DialNext]_<<catalogVars, toolingVars>>

-----------------------------------------------------------------------------
(* Properties                                                              *)

\* However reloads overlap and manifests fail, the served index holds together:
\* a role or a tool belongs to a vertical that is loaded, never to a stub or to
\* one an earlier index had.
NoGhosts ==
  /\ \A r \in index.roles : r[1] = NoVertical \/ r[1] \in index.loaded
  /\ \A t \in ToolNames : index.toolOf[t] = NoVertical \/ index.toolOf[t] \in index.loaded
  /\ index.loaded \cap index.stubs = {}

\* A profile the validator accepts can do something: after the allow and deny
\* lists a vertical role keeps at least one of its own tools, also when two
\* verticals share a tool name.
AcceptedIsUsable ==
  \A p \in ProfileContents :
    ProfileValid(index, p) /\ p.role[1] # NoVertical =>
      \E t \in index.roleTools[p.role[1]] : (p.allow = {} \/ t \in p.allow) /\ t \notin p.deny

\* A session that passed validation has, for every role its vertical had then,
\* a pinned version made for that role; later versions of the profile and
\* later reloads do not change that.
AcceptedIsStaffed ==
  startedAs.accepted =>
    \A r \in {r \in startedAs.under.roles : r[1] = startedAs.vertical} :
      \E a \in startedAs.pins : a.role = r /\ profs[a.ver].role = r

\* session_validation.rs: the profile's own validation is "called during
\* launch", so what is launched is valid under the index of that moment.
LaunchedAreValid ==
  startedAs.accepted => \A a \in startedAs.pins : ProfileValid(startedAs.under, profs[a.ver])

\* Truncating a search never drops a hit that is better than one it returns,
\* and drops none while there is room.
SearchKeepsBest ==
  /\ \A e \in hits.got, f \in Found(hits.of) \ hits.got : Better(hits.of, e, f)
  /\ Cardinality(hits.got) = Min({hits.limit, Cardinality(Found(hits.of))})

\* Importing an exported profile gives the profile back, up to an empty tag
\* list and the visibility.
RoundTrip ==
  exported.back = [exported.row EXCEPT !.tags = IF @ = "empty" THEN None ELSE @, !.visibility = "private"]

\* A "healthy" console has a client for every service: the handlers that ask
\* the pool get one, whatever dials overlapped.
HealthyMeansDialed == Health(TRUE, TRUE) = "healthy" => \A s \in Services : pool[s].client

\* The index holds together over overlapping reloads, what was validated against
\* it is usable, and search, export and health tell the truth.
CatalogSound ==
  /\ NoGhosts /\ AcceptedIsUsable /\ AcceptedIsStaffed
  /\ SearchKeepsBest /\ RoundTrip /\ HealthyMeansDialed
=============================================================================
