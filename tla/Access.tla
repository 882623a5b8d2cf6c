------------------------------- MODULE Access -------------------------------
(***************************************************************************)
(* Who may do what: the taxonomy loader and the permission engine built    *)
(* from its result (wacp-taxonomy, wacp-permissions), the token tables and *)
(* the rate limiter of the transport (auth.rs, auth_session.rs,            *)
(* auth_api_key.rs), the content filter (wacp-security).  They are         *)
(* libraries of the runtime: the loop builds the engine, and calls none of *)
(* the checks.                                                             *)
(***************************************************************************)
EXTENDS Naturals, FiniteSets, Sequences, SequencesExt

CONSTANTS
  Spaces,        \* workspaces
  Ips,           \* source addresses
  MaxAuthNow,    \* last instant of the clock
  TokenTtl, MaxTokensIssued,
  MaxFailures, FailWindow, MaxTrackedIps,
  MaxAttempts,   \* failures of one address
  MaxRights      \* port rights granted

ASSUME AccessAssumption == TokenTtl \in Nat /\ MaxFailures \in Nat

VARIABLES
  def,           \* the taxonomy definition
  rights,        \* [Spaces -> [RightTypes -> Nat]]: the port rights of one holder
  granted, spent,\* [Spaces -> Nat]: send-once rights granted and consumed
  authNow,
  creds,         \* the token tables
  ended,         \* history: tokens revoked or invalidated
  issued,        \* number of tokens handed out
  answer,        \* the last authentication
  failures,      \* AuthRateLimiter.failures: the address's n-th failure was at `at'
  attempts,      \* history: every recorded failure
  evicted,       \* history: addresses forgotten at the limit
  verdict        \* the last content-filter call

taxonomyVars == <<def, rights, granted, spent>>
credentialVars == <<creds, ended, issued, answer>>
limiterVars == <<failures, attempts, evicted>>
accessVars == <<taxonomyVars, credentialVars, limiterVars, authNow, verdict>>

-----------------------------------------------------------------------------
(* Taxonomy                                                                *)

BaseRoles == {"coordinator", "worker", "observer"}
BaseEnvelopeTypes == {"directive", "feedback", "query"}
BaseCheckpointTypes == {"artifact", "observation"}

BaseRows == {<<"coordinator", "directive", "worker">>, <<"coordinator", "feedback", "worker">>,
             <<"worker", "query", "coordinator">>}

CheckpointTypesOf(base) ==
  [coordinator |-> {}, worker |-> {"artifact"}, observer |-> {"observation"}][base]

Distinct(seq) == \A i, j \in DOMAIN seq : i # j => seq[i].name # seq[j].name

Names(seq) == {seq[i].name : i \in DOMAIN seq}

KnownRoles(d) == BaseRoles \cup Names(d.roles)

\* The roles: unique names, none of a base role, a worker or an observer
\* extended, no coordinator capability added, known checkpoint types.
RolesOk(d) ==
  /\ Distinct(d.roles) /\ Names(d.roles) \cap BaseRoles = {}
  /\ \A r \in ToSet(d.roles) :
       /\ r.extends \in {"worker", "observer"} /\ ~r.escalates
       /\ r.overrides => r.types \subseteq BaseCheckpointTypes \cup Names(d.checkpoints)

\* A plausible bug: a custom envelope type may reuse a base name.
Mutant_ReuseNames(d) ==
  /\ Distinct(d.envelopes)
  /\ \A e \in ToSet(d.envelopes) :
       e.rows # {} /\ \A row \in e.rows : {row[1], row[2]} \subseteq KnownRoles(d)

EnvelopesOk(d) ==
  /\ Distinct(d.envelopes) /\ Names(d.envelopes) \cap BaseEnvelopeTypes = {}
  /\ \A e \in ToSet(d.envelopes) :
       e.rows # {} /\ \A row \in e.rows : {row[1], row[2]} \subseteq KnownRoles(d)

\* A plausible bug: the roles of a checkpoint type are not looked up.
Mutant_AnyRole(d) ==
  Distinct(d.checkpoints) /\ Names(d.checkpoints) \cap BaseCheckpointTypes = {}

CheckpointsOk(d) ==
  /\ Distinct(d.checkpoints) /\ Names(d.checkpoints) \cap BaseCheckpointTypes = {}
  /\ \A c \in ToSet(d.checkpoints) : c.roles # {} /\ c.roles \subseteq KnownRoles(d)

LoadAccepts(d) == d.version = "current" /\ RolesOk(d) /\ EnvelopesOk(d) /\ CheckpointsOk(d)

EmptyDef == [version |-> "current", roles |-> <<>>, envelopes |-> <<>>, checkpoints |-> <<>>]

\* The taxonomy load() builds: the permission rows, the checkpoint table and
\* the base of every role.
Matrix(d) == BaseRows \cup UNION {{<<row[1], e.name, row[2]>> : row \in e.rows} : e \in ToSet(d.envelopes)}

ResolvedTypes(r) == IF r.overrides THEN r.types ELSE CheckpointTypesOf(r.extends)

CheckpointTable(d) ==
  [t \in BaseCheckpointTypes \cup Names(d.checkpoints) |->
     (CASE t = "artifact" -> {"worker"} [] t = "observation" -> {"observer"}
        [] OTHER -> UNION {c.roles : c \in {x \in ToSet(d.checkpoints) : x.name = t}})
     \cup {r.name : r \in {x \in ToSet(d.roles) : t \in ResolvedTypes(x)}}]

BaseOf(d, role) ==
  IF role \in BaseRoles THEN {role} ELSE {r.extends : r \in {x \in ToSet(d.roles) : x.name = role}}

\* matrix_allows: the pair itself, or either side replaced by its base.
MatrixAllows(d, sender, type, receiver) ==
  \E s \in {sender} \cup BaseOf(d, sender), r \in {receiver} \cup BaseOf(d, receiver) :
    <<s, type, r>> \in Matrix(d)

CheckpointAllowed(d, role, type) ==
  type \in DOMAIN CheckpointTable(d) /\ CheckpointTable(d)[type] \cap ({role} \cup BaseOf(d, role)) # {}

\* The definitions that are tried.
Definitions ==
  LET Role == [name : {"r1", "worker"}, extends : {"worker", "observer", "coordinator"}, escalates : BOOLEAN,
               overrides : {FALSE}, types : {{}}]
      Override == [name : {"r1"}, extends : {"worker", "observer"}, escalates : {FALSE}, overrides : {TRUE},
                   types : {{"artifact"}, {"c1"}, {"unknown"}}]
      Plain == [name |-> "r1", extends |-> "worker", escalates |-> FALSE, overrides |-> FALSE, types |-> {}]
      Row == {{}} \cup {{<<s, r>>} : s, r \in {"worker", "r1", "ghost"}}
      One(S) == {<<>>} \cup {<<x>> : x \in S}
  IN  [version : {"current", "old"}, roles : One(Role \cup Override) \cup {<<Plain, Plain>>},
       envelopes : One([name : {"e1", "query"}, rows : Row]),
       checkpoints : One([name : {"c1", "artifact"}, roles : {{}, {"worker"}, {"r1"}, {"ghost"}}])]

-----------------------------------------------------------------------------
(* Port rights of the engine                                               *)

RightTypes == {"send", "once", "receive"}

HasSendRight(t) == rights[t]["send"] + rights[t]["once"] > 0

\* check_envelope_send, for an agent's envelope; a human's passes.
SendAllowed(d, s, type, r, t, origin) == origin = "human" \/ (MatrixAllows(d, s, type, r) /\ HasSendRight(t))

GrantPortRight(t, type) ==
  /\ rights[t]["send"] + rights[t]["once"] + rights[t]["receive"] < MaxRights
  /\ rights' = [rights EXCEPT ![t][type] = @ + 1]
  /\ granted' = [granted EXCEPT ![t] = @ + IF type = "once" THEN 1 ELSE 0]
  /\ granted[t] < MaxRights
  /\ UNCHANGED <<def, spent>>

\* Every right of the type goes.
RevokePortRight(t, type) ==
  /\ rights' = [rights EXCEPT ![t][type] = 0]
  /\ UNCHANGED <<def, granted, spent>>

\* A plausible bug: the right is reported as consumed and kept.
Mutant_KeepRight(t) == rights[t]["once"]

\* The send-once rights left when one is taken out.
WithoutOnce(t) == rights[t]["once"] - 1

ConsumeSendOnce(t) ==
  /\ rights[t]["once"] > 0 /\ spent[t] <= MaxRights
  /\ rights' = [rights EXCEPT ![t]["once"] = WithoutOnce(t)]
  /\ spent' = [spent EXCEPT ![t] = @ + 1]
  /\ UNCHANGED <<def, granted>>

-----------------------------------------------------------------------------
(* Tokens                                                                  *)

Token(kind, n, ws, at) == [kind |-> kind, id |-> n, ws |-> ws, expires |-> at]

NoAnswer == [ok |-> FALSE, id |-> 0, as |-> "none"]

Fresh == issued < MaxTokensIssued /\ issued' = issued + 1

\* register_agent of the pre-shared keys, create_session and
\* register_agent_key.  Only a session expires.
Issue(kind, ws) ==
  /\ Fresh
  /\ creds' = creds \cup {Token(kind, issued + 1, ws, IF kind = "session" THEN authNow + TokenTtl ELSE 0)}
  /\ UNCHANGED <<ended, answer>>

\* An API key is chosen by the caller: registering it again rebinds it.
RebindKey(c, ws) ==
  /\ c \in creds /\ c.kind = "key" /\ c.ws # ws
  /\ creds' = (creds \ {c}) \cup {[c EXCEPT !.ws = ws]}
  /\ UNCHANGED <<ended, issued, answer>>

\* A plausible bug: only one token of the workspace is revoked.
Mutant_RevokeOne(ws) ==
  LET S == {c \in creds : c.kind = "psk" /\ c.ws = ws} IN {c \in S : \A x \in S : c.id <= x.id}

\* revoke_agent: every token of the workspace.
AgentTokens(ws) == {c \in creds : c.kind = "psk" /\ c.ws = ws}

RevokeAgent(ws) ==
  /\ creds' = creds \ AgentTokens(ws)
  /\ ended' = ended \cup {c.id : c \in {x \in creds : x.kind = "psk" /\ x.ws = ws}}
  /\ UNCHANGED <<issued, answer>>

\* revoke_agent_key and invalidate_session.
RevokeToken(c) ==
  /\ c \in creds /\ c.kind # "psk"
  /\ creds' = creds \ {c} /\ ended' = ended \cup {c.id}
  /\ UNCHANGED <<issued, answer>>

\* session_expired_now, strict; session_still_active, strict too.
Expired(c) == c.kind = "session" /\ authNow > c.expires

CleanupExpired ==
  /\ creds' = {c \in creds : c.kind = "session" => c.expires > authNow}
  /\ UNCHANGED <<ended, issued, answer>>

\* What a found token answers: a session is for humans and names no workspace,
\* the others must be used from their own.
Recognised(c, ws) ==
  IF c.kind = "session" THEN [ok |-> ~Expired(c), as |-> "session"]
  ELSE [ok |-> c.ws = ws, as |-> IF c.ws = ws THEN c.ws ELSE "none"]

\* authenticate_agent with the id-th token handed out, from workspace `ws'.  An
\* expired session is removed when it is presented.
Authenticate(id, ws) ==
  LET found == {c \in creds : c.id = id} IN
  /\ answer' = IF found = {} THEN [ok |-> FALSE, id |-> id, as |-> "none"]
               ELSE LET r == Recognised(CHOOSE c \in found : TRUE, ws)
                    IN  [ok |-> r.ok, id |-> id, as |-> IF r.ok THEN r.as ELSE "none"]
  /\ creds' = creds \ {c \in found : Expired(c)}
  /\ UNCHANGED <<ended, issued>>

-----------------------------------------------------------------------------
(* The rate limiter                                                        *)

\* A plausible bug: failures never leave the window.
Mutant_KeepAll(rows) == rows

InWindow(rows) == {r \in rows : r.at + FailWindow >= authNow}

Blocked(ip) ==
  MaxFailures > 0 /\ ip \in DOMAIN failures /\ Cardinality(InWindow(failures[ip])) >= MaxFailures

\* check(): it also prunes the address it looks at.
CheckLimit(ip) ==
  /\ failures' = IF MaxFailures > 0 /\ ip \in DOMAIN failures
                 THEN [failures EXCEPT ![ip] = InWindow(@)] ELSE failures
  /\ UNCHANGED <<attempts, evicted>>

\* The last failure of an address; one whose list was pruned empty counts as now.
LastFailure(ip) == IF failures[ip] = {} THEN authNow ELSE Max({r.at : r \in failures[ip]})

\* A plausible bug: the address that failed last is dropped.
Mutant_Noisiest(ip) ==
  IF Cardinality(DOMAIN failures) < MaxTrackedIps \/ ip \in DOMAIN failures THEN {{}}
  ELSE {{i} : i \in {x \in DOMAIN failures : \A j \in DOMAIN failures : LastFailure(x) >= LastFailure(j)}}

\* At capacity a new address takes the place of one that failed longest ago.
Quietest(ip) ==
  IF Cardinality(DOMAIN failures) < MaxTrackedIps \/ ip \in DOMAIN failures THEN {{}}
  ELSE {{i} : i \in {x \in DOMAIN failures : \A j \in DOMAIN failures : LastFailure(x) <= LastFailure(j)}}

Without(f, gone) == [i \in DOMAIN f \ gone |-> f[i]]

RecordFailure(ip) ==
  /\ MaxFailures > 0 /\ Cardinality(attempts[ip]) < MaxAttempts
  /\ \E gone \in Quietest(ip) :
       LET kept == Without(failures, gone)
           row == [at |-> authNow, n |-> Cardinality(attempts[ip]) + 1]
       IN  /\ failures' = [i \in DOMAIN kept \cup {ip} |->
                            IF i # ip THEN kept[i] ELSE {row} \cup IF ip \in DOMAIN kept THEN kept[ip] ELSE {}]
           /\ attempts' = [attempts EXCEPT ![ip] = @ \cup {row}]
           /\ evicted' = evicted \cup gone

Tick == authNow < MaxAuthNow /\ authNow' = authNow + 1

-----------------------------------------------------------------------------
(* The content filter                                                      *)

\* A text is a sequence of fragments; a fragment is the set of rules that match
\* it (a bearer token may hold an API key).  A redacted fragment matches none.
FilterRules == {"api_key", "bearer_token", "email"}

Texts == UNION {[1..n -> SUBSET FilterRules] : n \in 0..2}

Policies == [enabled : BOOLEAN, action : {"block", "redact", "warn"}]

Replace(text, r) == [i \in DOMAIN text |-> IF r \in text[i] THEN {} ELSE text[i]]

\* A plausible bug: the loop stops at the first rule that matches.
Mutant_FirstRule(text) ==
  IF \E i \in DOMAIN text : "api_key" \in text[i] THEN Replace(text, "api_key")
  ELSE Replace(Replace(text, "bearer_token"), "email")

\* The rules run one after the other, each on what the one before left.
Redacted(text) == Replace(Replace(Replace(text, "api_key"), "bearer_token"), "email")

\* Redact records what matches in the input, rule by rule, so an overlap is
\* recorded twice.
Matches(text) == {m \in FilterRules \X DOMAIN text : m[1] \in text[m[2]]}

Filter(policy, text) ==
  IF ~policy.enabled THEN [output |-> text, records |-> {}, blocked |-> FALSE]
  ELSE IF policy.action = "block" THEN
         IF Matches(text) # {} THEN [output |-> <<>>, records |-> {<<"first", 0>>}, blocked |-> TRUE]
         ELSE [output |-> text, records |-> {}, blocked |-> FALSE]
  ELSE [output |-> IF policy.action = "redact" THEN Redacted(text) ELSE text,
        records |-> Matches(text), blocked |-> FALSE]

NoVerdict == [policy |-> [enabled |-> FALSE, action |-> "warn"], text |-> <<>>,
              result |-> [output |-> <<>>, records |-> {}, blocked |-> FALSE]]

FilterText(policy, text) ==
  verdict' = [policy |-> policy, text |-> text, result |-> Filter(policy, text)]

-----------------------------------------------------------------------------

AccessInit(Defs) ==
  /\ def \in Defs
  /\ rights = [t \in Spaces |-> [type \in RightTypes |-> 0]] /\ granted = [t \in Spaces |-> 0] /\ spent = [t \in Spaces |-> 0]
  /\ authNow = 0 /\ creds = {} /\ ended = {} /\ issued = 0 /\ answer = NoAnswer
  /\ failures = [i \in {} |-> {}] /\ attempts = [i \in Ips |-> {}] /\ evicted = {}
  /\ verdict = NoVerdict

RightsNext ==
  /\ \E t \in Spaces :
       \/ \E type \in RightTypes : GrantPortRight(t, type) \/ RevokePortRight(t, type)
       \/ ConsumeSendOnce(t)
  /\ UNCHANGED <<credentialVars, limiterVars, authNow, verdict>>

CredentialNext ==
  /\ \/ /\ UNCHANGED authNow
        /\ \/ \E k \in {"psk", "session", "key"}, ws \in Spaces : Issue(k, ws)
           \/ \E c \in creds, ws \in Spaces : RebindKey(c, ws)
           \/ \E ws \in Spaces : RevokeAgent(ws)
           \/ \E c \in creds : RevokeToken(c)
           \/ CleanupExpired
           \/ \E id \in 1..issued, ws \in Spaces : Authenticate(id, ws)
     \/ Tick /\ UNCHANGED credentialVars
  /\ UNCHANGED <<taxonomyVars, limiterVars, verdict>>

LimiterNext ==
  /\ \/ UNCHANGED authNow /\ \E ip \in Ips : CheckLimit(ip) \/ RecordFailure(ip)
     \/ Tick /\ UNCHANGED limiterVars
  /\ UNCHANGED <<taxonomyVars, credentialVars, verdict>>

FilterNext ==
  /\ \E p \in Policies, t \in Texts : FilterText(p, t)
  /\ UNCHANGED <<taxonomyVars, credentialVars, limiterVars, authNow>>

AccessSpec(Defs) ==
  AccessInit(Defs) /\ [][RightsNext \/ CredentialNext \/ LimiterNext \/ FilterNext]_accessVars

-----------------------------------------------------------------------------
(* Properties                                                              *)

\* An accepted taxonomy only adds: what the base roles may send, and which base
\* checkpoint types they may create, is what it is without any taxonomy.
BaseMeaningStands ==
  LoadAccepts(def) =>
    /\ \A s, r \in BaseRoles, e \in BaseEnvelopeTypes :
         MatrixAllows(def, s, e, r) = MatrixAllows(EmptyDef, s, e, r)
    /\ \A r \in BaseRoles, c \in BaseCheckpointTypes :
         CheckpointAllowed(def, r, c) = CheckpointAllowed(EmptyDef, r, c)

\* An accepted taxonomy is closed: each role of the permission matrix and of the
\* checkpoint table is one a workspace can have, so no rule waits for a role
\* that never comes.
AcceptedIsClosed ==
  LoadAccepts(def) =>
    /\ \A row \in Matrix(def) : {row[1], row[3]} \subseteq KnownRoles(def)
    /\ \A t \in DOMAIN CheckpointTable(def) : CheckpointTable(def)[t] \subseteq KnownRoles(def)

\* consume_send_once answers true at most once per granted right, however
\* grants, revocations and uses follow each other.
SpentWithinGrants == \A t \in Spaces : spent[t] <= granted[t]

\* A token that was revoked, invalidated or is past the life it was issued with
\* is refused, and an accepted agent token acts for the workspace it is bound to.
OnlyTheLivingAuthenticate ==
  [][answer' # answer /\ answer'.ok =>
       /\ answer'.id \notin ended
       /\ \E c \in creds : c.id = answer'.id /\
            IF c.kind = "session" THEN authNow <= c.expires /\ answer'.as = "session" ELSE answer'.as = c.ws]_accessVars

\* An address is blocked only for failures of its own inside the window.
BlockedHasCause ==
  \A ip \in Ips : Blocked(ip) =>
    Cardinality({r \in attempts[ip] : r.at + FailWindow >= authNow}) >= MaxFailures

\* At capacity the limiter forgets an address no survivor was quieter than: a
\* later failure is never forgotten in favour of an earlier one.
ForgetsTheQuietest ==
  [][\A gone \in DOMAIN failures \ DOMAIN failures', i \in DOMAIN failures :
       failures[gone] # {} /\ failures[i] # {} => LastFailure(gone) <= LastFailure(i)]_accessVars

\* With redaction on, no rule matches the output; with blocking on, nothing that
\* matched goes out; and whatever the policy, a match leaves a record.
FilterComplete ==
  verdict.policy.enabled =>
    /\ verdict.policy.action = "redact" => Matches(verdict.result.output) = {}
    /\ verdict.policy.action = "block" => Matches(verdict.result.output) = {}
    /\ Matches(verdict.text) # {} => verdict.result.records # {}

\* What an accepted taxonomy means, rights that are spent once, a limiter that
\* blocks for a cause and forgets the quietest, and a filter that is complete.
AccessSound ==
  /\ [](BaseMeaningStands /\ AcceptedIsClosed /\ SpentWithinGrants /\ BlockedHasCause /\ FilterComplete)
  /\ ForgetsTheQuietest
=============================================================================
