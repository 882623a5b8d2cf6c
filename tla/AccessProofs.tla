---------------------------- MODULE AccessProofs ----------------------------
(***************************************************************************)
(* The start of the runtime process, its access rules and the inbox, for   *)
(* every value of their constants.                                         *)
(*                                                                         *)
(*  - StartIsSound: past the load the configuration is the accepted one,   *)
(*    and each stage of cmd_serve has the earlier ones behind it           *)
(*    (StartInv).                                                          *)
(*  - TheLivingAuthenticate: a token in the tables has an id of its own,   *)
(*    which was never ended (CredentialInv).                               *)
(*  - AccessIsSound: a send-once right is granted, held or spent, and a    *)
(*    tracked failure is one of the address's own (AccessInv); what an     *)
(*    accepted taxonomy means follows from the loader's checks alone.      *)
(*  - InboxImplementsQueues, SecondCopies: the inbox, which a snapshot     *)
(*    keeps as well, is sorted by rank and then by arrival (SortedInbox),  *)
(*    so the front is the envelope the set of PriorityQueues would take,   *)
(*    and an envelope that waits although its id was popped arrived before *)
(*    that pop.                                                            *)
(***************************************************************************)
EXTENDS Startup, Access, Mailbox, FiniteSetTheorems, SequenceTheorems, TLAPS

-----------------------------------------------------------------------------
(* The start of the process                                                *)

\* The steps that are behind a process at one stage of cmd_serve.
BehindAt(s) ==
  [load |-> {}, logging |-> {}, health |-> {}, metrics |-> {}, dirs |-> {},
   taxonomy |-> {"dirs"}, trail |-> {"dirs", "taxonomy"}, recovery |-> {"dirs", "taxonomy", "trail"},
   index |-> {"dirs", "taxonomy", "trail", "recovery"},
   checkpoints |-> {"dirs", "taxonomy", "trail", "recovery", "index"},
   tls |-> {"dirs", "taxonomy", "trail", "recovery", "index", "checkpoints"},
   serve |-> {"dirs", "taxonomy", "trail", "recovery", "index", "checkpoints"},
   ready |-> {"dirs", "taxonomy", "trail", "recovery", "index", "checkpoints"},
   run |-> {"dirs", "taxonomy", "trail", "recovery", "index", "checkpoints"},
   drain |-> {"dirs", "taxonomy", "trail", "recovery", "index", "checkpoints"},
   exited |-> {}][s]

StageNames == {"load", "logging", "health", "metrics", "dirs", "taxonomy", "trail", "recovery", "index",
  "checkpoints", "tls", "serve", "ready", "run", "drain", "exited"}

ServicePorts == GrpcListeners \cup {"rest"}

\* Past the load the configuration is the accepted one; a server that was
\* started is one whose address was compared; a service was started with the
\* stores open.
StartInv ==
  /\ stage \in StageNames
  /\ servers \in [Listeners -> {"none", "spawned", "listening", "dead"}]
  /\ stage \notin {"load", "exited"} =>
       LoadOk(inputs) /\ cfg = LoadedConfig(inputs)
  /\ BehindAt(stage) \subseteq done
  /\ \A l \in Listeners : servers[l] # "none" =>
       /\ stage \notin {"load", "exited"} /\ l \in Compared(cfg)
       /\ l \in ServicePorts => BehindAt("serve") \subseteq done
  /\ ValidateAgrees

\* A configuration the loader accepts has no two listeners on one address.
LEMMA AcceptedIsValid ==
  ASSUME NEW in, LoadOk(in)
  PROVE  AddressesUnique(LoadedConfig(in))
BY DEF LoadOk, LoadedConfig, Valid

\* What the invariant says of the start of the process.
LEMMA StartInvImplies == StartInv => StartSound
<1> SUFFICES ASSUME StartInv PROVE StartSound
  OBVIOUS
<1>1. NeverSelfCollides
  <2> SUFFICES ASSUME NEW l \in Listeners, NEW m \in Listeners, l # m, servers[l] # "none", servers[m] # "none"
               PROVE  cfg[l] # cfg[m]
    BY DEF NeverSelfCollides
  <2>1. AddressesUnique(cfg) /\ l \in Compared(cfg) /\ m \in Compared(cfg)
    BY AcceptedIsValid DEF StartInv
  <2> QED BY <2>1 DEF AddressesUnique
<1>2. ServesOnlyRecovered
  <2> SUFFICES ASSUME NEW l \in ServicePorts, servers[l] = "listening"
               PROVE  {"dirs", "taxonomy", "trail", "recovery", "index", "checkpoints"} \subseteq done
    BY DEF ServesOnlyRecovered, ServicePorts
  <2>1. l \in Listeners /\ servers[l] # "none"
    BY DEF ServicePorts, Listeners
  <2>2. BehindAt("serve") = {"dirs", "taxonomy", "trail", "recovery", "index", "checkpoints"}
    BY DEF BehindAt
  <2> QED BY <2>1, <2>2 DEF StartInv
<1> QED BY <1>1, <1>2 DEF StartInv, StartSound

\* The process before main has read its arguments.
LEMMA StartInvInit == StartupInit => StartInv
<1> SUFFICES ASSUME StartupInit PROVE StartInv
  OBVIOUS
<1>1. BehindAt(stage) = {}
  BY DEF StartupInit, BehindAt
<1> QED BY <1>1 DEF StartupInit, StartInv, StageNames, ValidateAgrees

\* A process that ends with a code keeps what StartInv says.
LEMMA ExitKeeps ==
  ASSUME StartInv, NEW c, Exit(c), UNCHANGED <<inputs, cfg, done>>,
         c = 1 => ~ValidateSays(inputs) \/ ~LogOpens(LoadedConfig(inputs))
  PROVE  StartInv'
<1>1. BehindAt(stage') = {}
  BY DEF Exit, BehindAt
<1> QED BY <1>1 DEF StartInv, Exit, StageNames, ValidateAgrees

\* A step that goes on keeps what StartInv says.
LEMMA GoOnKeeps ==
  ASSUME StartInv, stage \notin {"load", "exited"}, stage' \in StageNames \ {"load", "exited"},
         UNCHANGED <<inputs, cfg, code, servers>>, done \subseteq done', BehindAt(stage') \subseteq done',
         "taxonomy" \in done' => ValidateSays(inputs)
  PROVE  StartInv'
BY DEF StartInv, ValidateAgrees

\* A step of cmd_serve that goes on or ends the process.
LEMMA AttemptKeeps ==
  ASSUME StartInv, NEW next \in StageNames \ {"load", "exited"}, NEW c,
         stage \notin {"load", "exited"}, UNCHANGED <<inputs, cfg>>,
         BehindAt(next) \subseteq BehindAt(stage) \cup {stage},
         \/ /\ stage' = next /\ done' = done \cup {stage} /\ UNCHANGED <<code, servers>>
            /\ stage = "taxonomy" => TaxonomyOk(cfg)
         \/ /\ Exit(c) /\ done' = done
            /\ c = 1 => ~TaxonomyOk(cfg) \/ ~LogOpens(cfg)
  PROVE  StartInv'
<1>1. LoadOk(inputs) /\ cfg = LoadedConfig(inputs)
  BY DEF StartInv
<1>2. ValidateSays(inputs) <=> TaxonomyOk(cfg)
  BY <1>1 DEF ValidateSays
<1>3. CASE Exit(c) /\ done' = done /\ (c = 1 => ~TaxonomyOk(cfg) \/ ~LogOpens(cfg))
  BY <1>1, <1>2, <1>3, ExitKeeps
<1>4. CASE /\ stage' = next /\ done' = done \cup {stage} /\ UNCHANGED <<code, servers>>
           /\ stage = "taxonomy" => TaxonomyOk(cfg)
  <2>1. BehindAt(stage') \subseteq done'
    BY <1>4 DEF StartInv
  <2>2. "taxonomy" \in done' => ValidateSays(inputs)
    BY <1>2, <1>4 DEF StartInv, ValidateAgrees
  <2> QED BY <1>4, <2>1, <2>2, GoOnKeeps
<1> QED BY <1>3, <1>4

\* Starting the health or the metrics listener, or passing it by.
LEMMA StartObservabilityKeeps ==
  ASSUME StartInv, NEW l \in {"health", "metrics"}, NEW flag, NEW next \in {"metrics", "dirs"},
         StartObservability(l, flag, next), cfg[flag] = "on" => l \in Compared(cfg)
  PROVE  StartInv'
<1>1. stage = l /\ UNCHANGED <<inputs, cfg, done>>
  BY DEF StartObservability
<1>2. BehindAt(next) = {} /\ next \in StageNames \ {"load", "exited"}
  BY DEF BehindAt, StageNames
<1>3. CASE stage' = next /\ UNCHANGED <<code, servers>>
  BY <1>1, <1>2, <1>3, GoOnKeeps DEF StartInv, ValidateAgrees
<1>4. CASE Exit(3)
  BY <1>1, <1>4, ExitKeeps
<1>5. CASE cfg[flag] = "on" /\ stage' = next /\ servers' = [servers EXCEPT ![l] = "spawned"] /\ UNCHANGED code
  <2>1. l \in Listeners /\ l \notin ServicePorts
    BY DEF Listeners, ServicePorts, GrpcListeners
  <2>2. servers' \in [Listeners -> {"none", "spawned", "listening", "dead"}]
    BY <1>5, <2>1 DEF StartInv
  <2>3. \A m \in Listeners : servers'[m] # "none" => m = l \/ servers[m] # "none"
    BY <1>5, <2>1 DEF StartInv
  <2> QED BY <1>1, <1>2, <1>5, <2>1, <2>2, <2>3 DEF StartInv, ValidateAgrees
<1> QED BY <1>3, <1>4, <1>5 DEF StartObservability

\* Starting the servers of the runtime.
LEMMA StartServersKeeps == StartInv /\ StartServers => StartInv'
<1> SUFFICES ASSUME StartInv, StartServers PROVE StartInv'
  OBVIOUS
<1>1. stage = "serve" /\ UNCHANGED <<inputs, cfg>>
  BY DEF StartServers
<1>2. CASE Exit(3) /\ UNCHANGED done
  BY <1>1, <1>2, ExitKeeps
<1>3. CASE /\ servers' = [l \in Listeners |-> IF l \in GrpcListeners \cup {"rest"} THEN "spawned" ELSE servers[l]]
           /\ stage' = After("serve") /\ done' = done \cup {"serve"} /\ UNCHANGED code
  <2>1. stage' = "ready" /\ BehindAt("ready") = BehindAt("serve") /\ BehindAt("serve") \subseteq done'
    BY <1>1, <1>3 DEF After, BehindAt, StartInv
  <2>2. servers' \in [Listeners -> {"none", "spawned", "listening", "dead"}]
    BY <1>3 DEF StartInv
  <2>3. \A l \in Listeners : servers'[l] # "none" => l \in ServicePorts \/ servers[l] # "none"
    BY <1>3 DEF ServicePorts
  <2>4. \A l \in ServicePorts : l \in Compared(cfg)
    BY DEF ServicePorts, Compared
  <2>5. "ready" \in StageNames \ {"load", "exited"}
    BY DEF StageNames
  <2> QED BY <1>1, <1>3, <2>1, <2>2, <2>3, <2>4, <2>5 DEF StartInv, ValidateAgrees
<1> QED BY <1>2, <1>3 DEF StartServers

\* A listener takes its address, or the process ends.
LEMMA BindKeeps ==
  ASSUME StartInv, NEW l \in Listeners, Bind(l)
  PROVE  StartInv'
<1>1. UNCHANGED <<inputs, cfg, stage, code, done>> /\ servers[l] = "spawned"
  BY DEF Bind
<1>2. PICK s \in {"listening", "dead"} : servers' = [servers EXCEPT ![l] = s]
  BY DEF Bind
<1>3. servers' \in [Listeners -> {"none", "spawned", "listening", "dead"}]
  BY <1>2 DEF StartInv
<1>4. \A m \in Listeners : servers'[m] # "none" => servers[m] # "none"
  BY <1>1, <1>2 DEF StartInv
<1> QED BY <1>1, <1>3, <1>4 DEF StartInv, ValidateAgrees

\* What lies behind each stage.
LEMMA StageIsAt ==
  /\ BehindAt("logging") = {} /\ BehindAt("health") = {} /\ BehindAt("dirs") = {}
  /\ BehindAt("taxonomy") = {"dirs"}
  /\ BehindAt("trail") = BehindAt("taxonomy") \cup {"taxonomy"}
  /\ BehindAt("recovery") = BehindAt("trail") \cup {"trail"}
  /\ BehindAt("index") = BehindAt("recovery") \cup {"recovery"}
  /\ BehindAt("checkpoints") = BehindAt("index") \cup {"index"}
  /\ BehindAt("tls") = BehindAt("checkpoints") \cup {"checkpoints"}
  /\ BehindAt("serve") = BehindAt("tls")
  /\ BehindAt("ready") = BehindAt("serve") /\ BehindAt("run") = BehindAt("serve")
  /\ BehindAt("drain") = BehindAt("serve")
  /\ After("dirs") = "taxonomy" /\ After("taxonomy") = "trail" /\ After("trail") = "recovery"
  /\ After("recovery") = "index" /\ After("index") = "checkpoints" /\ After("checkpoints") = "tls"
  /\ After("tls") = "serve"
BY DEF BehindAt, After

\* Every step of the start keeps the invariant.
LEMMA StartInvNext == StartInv /\ [StartupNext]_startVars => StartInv'
<1> SUFFICES ASSUME StartInv, [StartupNext]_startVars PROVE StartInv'
  OBVIOUS
<1>1. CASE Load
  <2>1. CASE LoadOk(inputs)
    <3>1. stage' = "logging" /\ cfg' = LoadedConfig(inputs) /\ stage = "load"
          /\ UNCHANGED <<inputs, code, servers, done>>
      BY <1>1, <2>1 DEF Load
    <3>2. \A l \in Listeners : servers[l] = "none"
      BY <3>1 DEF StartInv
    <3> QED BY <2>1, <3>1, <3>2, StageIsAt DEF StartInv, StageNames, ValidateAgrees
  <2>2. CASE ~LoadOk(inputs)
    BY <1>1, <2>2, ExitKeeps DEF Load, ValidateSays
  <2> QED BY <2>1, <2>2
<1>2. CASE InitLogging
  <2>1. stage = "logging" /\ "health" \in StageNames \ {"load", "exited"} /\ UNCHANGED <<inputs, cfg>>
        /\ BehindAt("health") = {}
    BY <1>2, StageIsAt DEF InitLogging, Attempt, StageNames
  <2>2. \/ stage' = "health" /\ done' = done \cup {stage} /\ UNCHANGED <<code, servers>>
        \/ Exit(1) /\ done' = done /\ ~LogOpens(cfg)
    BY <1>2 DEF InitLogging, Attempt
  <2> QED BY <2>1, <2>2, AttemptKeeps
<1>3. CASE StartObservability("health", "healthOn", "metrics")
  <2>1. cfg["healthOn"] = "on" => "health" \in Compared(cfg)
    BY DEF Compared
  <2> QED BY <1>3, <2>1, StartObservabilityKeeps
<1>4. CASE StartObservability("metrics", "metricsOn", "dirs")
  <2>1. cfg["metricsOn"] = "on" => "metrics" \in Compared(cfg)
    BY DEF Compared
  <2> QED BY <1>4, <2>1, StartObservabilityKeeps
<1>5. ASSUME NEW s \in {"dirs", "trail", "recovery", "index", "checkpoints"}, NEW ok \in BOOLEAN, Storage(s, ok)
      PROVE  StartInv'
  <2>1. /\ stage = s /\ UNCHANGED <<inputs, cfg>>
        /\ \/ stage' = After(s) /\ done' = done \cup {stage} /\ UNCHANGED <<code, servers>>
           \/ Exit(2) /\ done' = done
    BY <1>5 DEF Storage, Attempt
  <2>2. s \in StageNames \ {"load", "exited"} /\ After(s) \in StageNames \ {"load", "exited"}
    BY StageIsAt DEF StageNames
  <2>3. BehindAt(After(s)) \subseteq BehindAt(s) \cup {s}
    BY StageIsAt
  <2>4. s # "taxonomy" /\ 2 # 1
    OBVIOUS
  <2>5. /\ stage \notin {"load", "exited"} /\ BehindAt(After(s)) \subseteq BehindAt(stage) \cup {stage}
        /\ \/ /\ stage' = After(s) /\ done' = done \cup {stage} /\ UNCHANGED <<code, servers>>
              /\ stage = "taxonomy" => TaxonomyOk(cfg)
           \/ /\ Exit(2) /\ done' = done
              /\ 2 = 1 => ~TaxonomyOk(cfg) \/ ~LogOpens(cfg)
    BY <2>1, <2>2, <2>3, <2>4
  <2>6. UNCHANGED <<inputs, cfg>> /\ After(s) \in StageNames \ {"load", "exited"}
    BY <2>1, <2>2
  <2> HIDE DEF StartInv
  <2> QED BY <2>5, <2>6, AttemptKeeps
<1>6. CASE CreateDirs
  <2>1. (cfg.dir = "ok") \in BOOLEAN
    OBVIOUS
  <2> QED BY <1>5, <1>6, <2>1 DEF CreateDirs
<1>7. CASE LoadTaxonomy
  <2>2. BehindAt(After("taxonomy")) \subseteq BehindAt("taxonomy") \cup {"taxonomy"}
    BY StageIsAt
  <2>3. "taxonomy" \in StageNames \ {"load", "exited"} /\ After("taxonomy") \in StageNames \ {"load", "exited"}
    BY StageIsAt DEF StageNames
  <2>4. /\ stage = "taxonomy" /\ UNCHANGED <<inputs, cfg>>
        /\ \/ stage' = After("taxonomy") /\ done' = done \cup {stage} /\ UNCHANGED <<code, servers>> /\ TaxonomyOk(cfg)
           \/ Exit(1) /\ done' = done /\ ~TaxonomyOk(cfg)
    BY <1>7 DEF LoadTaxonomy, Attempt
  <2> QED BY <2>2, <2>3, <2>4, AttemptKeeps
<1>8. CASE RecoverTrail
  BY <1>5, <1>8 DEF RecoverTrail
<1>9. CASE BuildTls
  <2>2. /\ stage = "tls" /\ UNCHANGED <<inputs, cfg>>
        /\ \/ stage' = After("tls") /\ done' = done \cup {stage} /\ UNCHANGED <<code, servers>>
           \/ Exit(3) /\ done' = done
    BY <1>9 DEF BuildTls, Attempt
  <2>3. "tls" \in StageNames \ {"load", "exited"} /\ After("tls") \in StageNames \ {"load", "exited"}
    BY StageIsAt DEF StageNames
  <2>4. BehindAt(After("tls")) \subseteq BehindAt("tls") \cup {"tls"}
    BY StageIsAt
  <2> QED BY <2>2, <2>3, <2>4, AttemptKeeps
<1>10. CASE StartServers
  BY <1>10, StartServersKeeps
<1>11. CASE \E l \in Listeners : Bind(l)
  BY <1>11, BindKeeps
<1>12. CASE MarkReady \/ RunReturns
  <2>1. stage \in {"ready", "run"} /\ stage' \in {"run", "drain"} /\ UNCHANGED <<inputs, cfg, code, servers, done>>
    BY <1>12 DEF MarkReady, RunReturns
  <2>2. BehindAt(stage') = BehindAt(stage)
    BY <2>1, StageIsAt
  <2> QED BY <2>1, <2>2, GoOnKeeps DEF StartInv, StageNames, ValidateAgrees
<1>13. CASE ServeReturns
  BY <1>13, ExitKeeps DEF ServeReturns
<1>14. CASE UNCHANGED startVars
  BY <1>14 DEF startVars, StartInv, ValidateAgrees
<1> QED BY <1>1, <1>2, <1>3, <1>4, <1>6, <1>7, <1>8, <1>9, <1>10, <1>11, <1>12, <1>13, <1>14 DEF StartupNext

\* StartSound for every start: no two servers of the process are given the same
\* address, no service port listens before the trail is replayed, and
\* `validate' foretells what `serve' does.
THEOREM StartIsSound == StartupSpec => []StartSound
<1>1. StartupInit => StartInv
  BY StartInvInit
<1>2. StartInv /\ [StartupNext]_startVars => StartInv'
  BY StartInvNext
<1>3. StartInv => StartSound
  BY StartInvImplies
<1> QED BY <1>1, <1>2, <1>3, PTL DEF StartupSpec

-----------------------------------------------------------------------------
(* Tokens                                                                  *)

Tokens == [kind : {"psk", "session", "key"}, id : Nat, ws : Spaces, expires : Nat]

\* Every token in the tables has an id of its own, handed out and never ended.
CredentialInv ==
  /\ issued \in Nat /\ authNow \in Nat /\ ended \subseteq 1..issued
  /\ creds \subseteq Tokens
  /\ \A c \in creds : c.id \in 1..issued /\ c.id \notin ended
  /\ \A c, d \in creds : c.id = d.id => c = d

AccessNext == RightsNext \/ CredentialNext \/ LimiterNext \/ FilterNext

\* A new token gets an id of its own.
LEMMA IssueKeeps ==
  ASSUME CredentialInv, NEW kind \in {"psk", "session", "key"}, NEW ws \in Spaces, Issue(kind, ws), authNow' = authNow
  PROVE  CredentialInv'
<1>1. PICK at \in Nat : creds' = creds \cup {Token(kind, issued + 1, ws, at)}
  BY AccessAssumption DEF Issue, CredentialInv
<1>2. issued' = issued + 1 /\ ended' = ended
  BY DEF Issue, Fresh
<1>3. Token(kind, issued + 1, ws, at).id = issued + 1 /\ Token(kind, issued + 1, ws, at) \in Tokens
  BY DEF Token, Tokens, CredentialInv
<1> QED BY <1>1, <1>2, <1>3 DEF CredentialInv

\* A key registered again under another workspace keeps its id.
LEMMA RebindKeeps ==
  ASSUME CredentialInv, NEW c \in creds, NEW ws \in Spaces, RebindKey(c, ws), authNow' = authNow
  PROVE  CredentialInv'
<1>1. PICK r : r = [c EXCEPT !.ws = ws]
  OBVIOUS
<1>2. c \in Tokens
  BY DEF CredentialInv
<1>4. r.id = c.id /\ r \in Tokens
  BY <1>1, <1>2 DEF Tokens
<1>3. creds' = (creds \ {c}) \cup {r} /\ UNCHANGED <<ended, issued>>
  BY <1>1 DEF RebindKey
<1> QED BY <1>3, <1>4 DEF CredentialInv

\* A step that only takes tokens out and ends only ids it takes out.
LEMMA RemovalKeeps ==
  ASSUME CredentialInv, creds' \subseteq creds, issued' = issued, authNow' = authNow, ended \subseteq ended',
         \A i \in ended' \ ended : \E c \in creds \ creds' : i = c.id
  PROVE  CredentialInv'
<1>1. \A c \in creds' : c.id \notin ended'
  BY DEF CredentialInv
<1>2. ended' \subseteq 1..issued
  BY DEF CredentialInv
<1> QED BY <1>1, <1>2 DEF CredentialInv

\* Revoking an agent's tokens.
LEMMA RevokeAgentKeeps ==
  ASSUME CredentialInv, NEW ws, RevokeAgent(ws), authNow' = authNow
  PROVE  CredentialInv'
<1>1. creds' = creds \ AgentTokens(ws) /\ issued' = issued
  BY DEF RevokeAgent
<1>2. ended' = ended \cup {c.id : c \in AgentTokens(ws)}
  BY DEF RevokeAgent, AgentTokens
<1>3. AgentTokens(ws) \subseteq creds
  BY DEF AgentTokens
<1> QED BY <1>1, <1>2, <1>3, RemovalKeeps

\* Authenticating changes no table.
LEMMA AuthenticateKeeps ==
  ASSUME CredentialInv, NEW id, NEW ws, Authenticate(id, ws), authNow' = authNow
  PROVE  CredentialInv'
BY RemovalKeeps DEF Authenticate

\* Every step keeps the tables of tokens.
LEMMA CredentialStep == CredentialInv /\ [AccessNext]_accessVars => CredentialInv'
<1> SUFFICES ASSUME CredentialInv, [AccessNext]_accessVars PROVE CredentialInv'
  OBVIOUS
<1>1. CASE UNCHANGED credentialVars /\ (UNCHANGED authNow \/ Tick)
  BY <1>1 DEF credentialVars, CredentialInv, Tick
<1>2. CASE CredentialNext
  <2> SUFFICES ASSUME ~(UNCHANGED credentialVars) PROVE CredentialInv'
    BY <1>1, <1>2 DEF CredentialNext
  <2>a. authNow' = authNow
    BY <1>2 DEF CredentialNext
  <2>1. CASE \E k \in {"psk", "session", "key"}, ws \in Spaces : Issue(k, ws)
    BY <2>1, <2>a, IssueKeeps
  <2>2. CASE \E c \in creds, ws \in Spaces : RebindKey(c, ws)
    BY <2>2, <2>a, RebindKeeps
  <2>3. CASE \E ws \in Spaces : RevokeAgent(ws)
    BY <2>3, <2>a, RevokeAgentKeeps
  <2>4. CASE \E c \in creds : RevokeToken(c)
    BY <2>4, <2>a, RemovalKeeps DEF RevokeToken
  <2>5. CASE CleanupExpired
    BY <2>5, <2>a, RemovalKeeps DEF CleanupExpired
  <2>6. CASE \E id \in 1..issued, ws \in Spaces : Authenticate(id, ws)
    BY <2>6, <2>a, AuthenticateKeeps
  <2> QED BY <1>2, <2>1, <2>2, <2>3, <2>4, <2>5, <2>6 DEF CredentialNext
<1> QED BY <1>1, <1>2 DEF AccessNext, RightsNext, LimiterNext, FilterNext, accessVars

\* Who is let in holds a token that was not ended, for its own workspace.
LEMMA AnswerIsRight ==
  ASSUME CredentialInv, NEW id, NEW ws, Authenticate(id, ws), answer'.ok
  PROVE  /\ answer'.id \notin ended
         /\ \E c \in creds : c.id = answer'.id /\
              IF c.kind = "session" THEN authNow <= c.expires /\ answer'.as = "session" ELSE answer'.as = c.ws
<1> DEFINE found == {c \in creds : c.id = id}
<1>1. found # {}
  BY DEF Authenticate
<1>2. PICK c \in found : c = CHOOSE x \in found : TRUE
  BY <1>1
<1> DEFINE r == Recognised(c, ws)
<1>3. answer' = [ok |-> r.ok, id |-> id, as |-> IF r.ok THEN r.as ELSE "none"]
  BY <1>1, <1>2 DEF Authenticate
<1>4. r.ok /\ answer'.as = r.as /\ answer'.id = id
  BY <1>3
<1>5. CASE c.kind = "session"
  <2>1. ~Expired(c) /\ r.as = "session"
    BY <1>4, <1>5 DEF Recognised
  <2>2. c \in Tokens /\ authNow \in Nat /\ c.id = id /\ id \notin ended
    BY DEF CredentialInv
  <2>3. authNow <= c.expires
    BY <1>5, <2>1, <2>2 DEF Expired, Tokens
  <2> QED BY <1>4, <1>5, <2>1, <2>2, <2>3
<1>6. CASE c.kind # "session"
  BY <1>4, <1>6 DEF Recognised, CredentialInv
<1> QED BY <1>5, <1>6

\* Nothing else answers.
LEMMA OnlyAuthenticateAnswers ==
  ASSUME [AccessNext]_accessVars, answer' # answer
  PROVE  \E id \in 1..issued, ws \in Spaces : Authenticate(id, ws)
BY DEF AccessNext, RightsNext, LimiterNext, FilterNext, accessVars, credentialVars, CredentialNext, Issue, RebindKey,
       RevokeAgent, RevokeToken, CleanupExpired

\* OnlyTheLivingAuthenticate for every number of tokens, workspaces and instants.
THEOREM TheLivingAuthenticate ==
  ASSUME NEW CONSTANT Defs
  PROVE  AccessSpec(Defs) => OnlyTheLivingAuthenticate
<1>1. AccessInit(Defs) => CredentialInv
  BY DEF AccessInit, CredentialInv
<1>2. CredentialInv /\ [AccessNext]_accessVars => CredentialInv'
  BY CredentialStep
<1>3. CredentialInv /\ [AccessNext]_accessVars =>
        [answer' # answer /\ answer'.ok =>
           /\ answer'.id \notin ended
           /\ \E c \in creds : c.id = answer'.id /\
                IF c.kind = "session" THEN authNow <= c.expires /\ answer'.as = "session"
                ELSE answer'.as = c.ws]_accessVars
  BY OnlyAuthenticateAnswers, AnswerIsRight
<1> QED BY <1>1, <1>2, <1>3, PTL DEF AccessSpec, OnlyTheLivingAuthenticate, AccessNext

-----------------------------------------------------------------------------
(* What an accepted taxonomy means, whatever the definition                *)

\* What a definition without extensions allows.
LEMMA EmptyAllows ==
  /\ Matrix(EmptyDef) = BaseRows
  /\ \A c \in BaseCheckpointTypes :
       /\ c \in DOMAIN CheckpointTable(EmptyDef)
       /\ CheckpointTable(EmptyDef)[c] = (IF c = "artifact" THEN {"worker"} ELSE {"observer"})
BY DEF EmptyDef, Matrix, CheckpointTable, ToSet, BaseCheckpointTypes, Names

\* The rows an accepted definition adds carry no base envelope type.
LEMMA BaseRowsStand ==
  ASSUME NEW d, EnvelopesOk(d), NEW s, NEW r, NEW e \in BaseEnvelopeTypes
  PROVE  <<s, e, r>> \in Matrix(d) <=> <<s, e, r>> \in BaseRows
<1>1. \A x \in ToSet(d.envelopes) : x.name \in Names(d.envelopes)
  BY DEF ToSet, Names
<1>2. \A x \in ToSet(d.envelopes) : x.name # e
  BY <1>1 DEF EnvelopesOk
<1> QED BY <1>2 DEF Matrix

\* The roles an accepted definition adds to a base checkpoint type are its own.
LEMMA BaseTypesStand ==
  ASSUME NEW d, RolesOk(d), CheckpointsOk(d), NEW r \in BaseRoles, NEW c \in BaseCheckpointTypes
  PROVE  /\ c \in DOMAIN CheckpointTable(d)
         /\ r \in CheckpointTable(d)[c] <=> r \in (IF c = "artifact" THEN {"worker"} ELSE {"observer"})
<1>1. \A x \in ToSet(d.roles) : x.name \in Names(d.roles)
  BY DEF ToSet, Names
<1>2. \A x \in ToSet(d.roles) : x.name # r
  BY <1>1 DEF RolesOk
<1>3. c \in BaseCheckpointTypes \cup Names(d.checkpoints)
  OBVIOUS
<1>4. CASE c = "artifact"
  BY <1>2, <1>3, <1>4 DEF CheckpointTable
<1>5. CASE c = "observation"
  BY <1>2, <1>3, <1>5 DEF CheckpointTable
<1> QED BY <1>4, <1>5 DEF BaseCheckpointTypes

\* No accepted definition takes away what the base taxonomy allows, or adds to it.
LEMMA BaseStands == BaseMeaningStands
<1> SUFFICES ASSUME LoadAccepts(def) PROVE
      /\ \A s, r \in BaseRoles, e \in BaseEnvelopeTypes :
           MatrixAllows(def, s, e, r) = MatrixAllows(EmptyDef, s, e, r)
      /\ \A r \in BaseRoles, c \in BaseCheckpointTypes :
           CheckpointAllowed(def, r, c) = CheckpointAllowed(EmptyDef, r, c)
  BY DEF BaseMeaningStands
<1>1. RolesOk(def) /\ EnvelopesOk(def) /\ CheckpointsOk(def)
  BY DEF LoadAccepts
<1>2. \A d, s : s \in BaseRoles => {s} \cup BaseOf(d, s) = {s}
  BY DEF BaseOf
<1>3. ASSUME NEW s \in BaseRoles, NEW r \in BaseRoles, NEW e \in BaseEnvelopeTypes
      PROVE  MatrixAllows(def, s, e, r) = MatrixAllows(EmptyDef, s, e, r)
  <2>0. ASSUME NEW d PROVE MatrixAllows(d, s, e, r) <=> <<s, e, r>> \in Matrix(d)
    <3>1. {s} \cup BaseOf(d, s) = {s} /\ {r} \cup BaseOf(d, r) = {r}
      BY <1>2
    <3>2. MatrixAllows(d, s, e, r) <=> \E x \in {s}, y \in {r} : <<x, e, y>> \in Matrix(d)
      BY <3>1, Zenon DEF MatrixAllows
    <3> QED BY <3>2
  <2>1. MatrixAllows(def, s, e, r) <=> <<s, e, r>> \in Matrix(def)
    BY <2>0
  <2>2. MatrixAllows(EmptyDef, s, e, r) <=> <<s, e, r>> \in Matrix(EmptyDef)
    BY <2>0
  <2>3. <<s, e, r>> \in Matrix(def) <=> <<s, e, r>> \in Matrix(EmptyDef)
    BY <1>1, BaseRowsStand, EmptyAllows
  <2>4. MatrixAllows(def, s, e, r) \in BOOLEAN /\ MatrixAllows(EmptyDef, s, e, r) \in BOOLEAN
    BY DEF MatrixAllows
  <2> QED BY <2>1, <2>2, <2>3, <2>4
<1>4. ASSUME NEW r \in BaseRoles, NEW c \in BaseCheckpointTypes
      PROVE  CheckpointAllowed(def, r, c) = CheckpointAllowed(EmptyDef, r, c)
  <2>1. \A d : CheckpointAllowed(d, r, c) <=> c \in DOMAIN CheckpointTable(d) /\ r \in CheckpointTable(d)[c]
    BY <1>2 DEF CheckpointAllowed
  <2>2. CheckpointAllowed(def, r, c) <=> CheckpointAllowed(EmptyDef, r, c)
    BY <2>1, <1>1, BaseTypesStand, EmptyAllows
  <2>3. CheckpointAllowed(def, r, c) \in BOOLEAN /\ CheckpointAllowed(EmptyDef, r, c) \in BOOLEAN
    BY DEF CheckpointAllowed
  <2> QED BY <2>2, <2>3
<1> QED BY <1>3, <1>4

\* Everything an accepted definition names, it knows.
LEMMA Closed == AcceptedIsClosed
<1> SUFFICES ASSUME LoadAccepts(def) PROVE
      /\ \A row \in Matrix(def) : {row[1], row[3]} \subseteq KnownRoles(def)
      /\ \A t \in DOMAIN CheckpointTable(def) : CheckpointTable(def)[t] \subseteq KnownRoles(def)
  BY DEF AcceptedIsClosed
<1>1. EnvelopesOk(def) /\ CheckpointsOk(def)
  BY DEF LoadAccepts
<1>2. BaseRoles \subseteq KnownRoles(def) /\ Names(def.roles) \subseteq KnownRoles(def)
  BY DEF KnownRoles
<1>3. ASSUME NEW row \in Matrix(def) PROVE {row[1], row[3]} \subseteq KnownRoles(def)
  <2>1. CASE row \in BaseRows
    BY <1>2, <2>1 DEF BaseRows, BaseRoles
  <2>2. CASE row \notin BaseRows
    <3>1. PICK e \in ToSet(def.envelopes) : \E x \in e.rows : row = <<x[1], e.name, x[2]>>
      BY <1>3, <2>2 DEF Matrix
    <3> QED BY <1>1, <3>1 DEF EnvelopesOk
  <2> QED BY <2>1, <2>2
<1>4. ASSUME NEW t \in DOMAIN CheckpointTable(def) PROVE CheckpointTable(def)[t] \subseteq KnownRoles(def)
  <2>1. \A x \in ToSet(def.roles) : x.name \in KnownRoles(def)
    BY <1>2 DEF ToSet, Names
  <2>2. t \in BaseCheckpointTypes \cup Names(def.checkpoints)
    BY DEF CheckpointTable
  <2> DEFINE created == {r.name : r \in {x \in ToSet(def.roles) : t \in ResolvedTypes(x)}}
  <2>3. created \subseteq KnownRoles(def)
    BY <2>1
  <2>4. CASE t = "artifact"
    <3>1. CheckpointTable(def)[t] = {"worker"} \cup created
      BY <2>2, <2>4 DEF CheckpointTable
    <3> QED BY <1>2, <2>3, <3>1 DEF BaseRoles
  <2>5. CASE t = "observation"
    <3>1. CheckpointTable(def)[t] = {"observer"} \cup created
      BY <2>2, <2>5 DEF CheckpointTable
    <3> QED BY <1>2, <2>3, <3>1 DEF BaseRoles
  <2>6. CASE t # "artifact" /\ t # "observation"
    <3> DEFINE named == UNION {c.roles : c \in {x \in ToSet(def.checkpoints) : x.name = t}}
    <3>1. CheckpointTable(def)[t] = named \cup created
      BY <2>2, <2>6 DEF CheckpointTable
    <3>2. named \subseteq KnownRoles(def)
      BY <1>1 DEF CheckpointsOk
    <3> QED BY <2>3, <3>1, <3>2
  <2> QED BY <2>4, <2>5, <2>6
<1> QED BY <1>3, <1>4

-----------------------------------------------------------------------------
(* Rights, limiter and filter                                              *)

\* A send-once right is granted, held or spent; a tracked failure is one of the
\* address's own attempts; the last verdict is what filter() says of its input.
AccessInv ==
  /\ rights \in [Spaces -> [RightTypes -> Nat]] /\ granted \in [Spaces -> Nat] /\ spent \in [Spaces -> Nat]
  /\ \A t \in Spaces : spent[t] + rights[t]["once"] <= granted[t]
  /\ DOMAIN failures \subseteq Ips /\ failures = [i \in DOMAIN failures |-> failures[i]]
  /\ attempts = [i \in Ips |-> attempts[i]]
  /\ \A i \in Ips : IsFiniteSet(attempts[i])
  /\ \A i \in DOMAIN failures : failures[i] \subseteq attempts[i]
  /\ FilterComplete

\* Granting, dropping and using rights.
LEMMA RightsKeep ==
  ASSUME AccessInv, RightsNext
  PROVE  AccessInv'
<1>1. UNCHANGED <<failures, attempts, verdict>>
  BY DEF RightsNext, limiterVars
<1>2. "once" \in RightTypes
  BY DEF RightTypes
<1> DEFINE Types == RightTypes
<1> HIDE DEF Types
<1>0. RightTypes = Types
  BY DEF Types
<1> SUFFICES /\ rights' \in [Spaces -> [RightTypes -> Nat]] /\ granted' \in [Spaces -> Nat] /\ spent' \in [Spaces -> Nat]
             /\ \A t \in Spaces : spent'[t] + rights'[t]["once"] <= granted'[t]
  BY <1>1 DEF AccessInv, FilterComplete
<1>3. ASSUME NEW t \in Spaces, NEW type \in RightTypes, GrantPortRight(t, type)
      PROVE  /\ rights' \in [Spaces -> [RightTypes -> Nat]] /\ granted' \in [Spaces -> Nat] /\ spent' \in [Spaces -> Nat]
             /\ \A u \in Spaces : spent'[u] + rights'[u]["once"] <= granted'[u]
  <2>1. PICK row : row = [rights[t] EXCEPT ![type] = @ + 1]
    OBVIOUS
  <2>2. rights' = [rights EXCEPT ![t] = row] /\ spent' = spent
    BY <2>1, <1>3 DEF GrantPortRight
  <2>3. row \in [Types -> Nat]
    BY <2>1, <1>0 DEF AccessInv
  <2>4. row["once"] = rights[t]["once"] + IF type = "once" THEN 1 ELSE 0
    BY <2>1, <1>0, <1>2 DEF AccessInv
  <2>5. granted' = [granted EXCEPT ![t] = @ + IF type = "once" THEN 1 ELSE 0]
    BY <1>3 DEF GrantPortRight
  <2>6. \A u \in Spaces : rights[u]["once"] \in Nat
    BY <1>0, <1>2 DEF AccessInv
  <2>7. rights' \in [Spaces -> [RightTypes -> Nat]] /\ granted' \in [Spaces -> Nat] /\ spent' \in [Spaces -> Nat]
    BY <2>2, <2>3, <2>5, <1>0 DEF AccessInv
  <2>8. ASSUME NEW u \in Spaces PROVE spent'[u] + rights'[u]["once"] <= granted'[u]
    <3>1. CASE u = t
      BY <2>2, <2>4, <2>5, <2>6, <3>1 DEF AccessInv
    <3>2. CASE u # t
      BY <2>2, <2>4, <2>5, <2>6, <3>2 DEF AccessInv
    <3> QED BY <3>1, <3>2
  <2> QED BY <2>7, <2>8
<1>4. ASSUME NEW t \in Spaces, NEW type \in RightTypes, NEW n \in Nat, NEW d \in {0, 1},
             rights' = [rights EXCEPT ![t][type] = n], granted' = granted, spent' = [spent EXCEPT ![t] = @ + d],
             type = "once" => d + n <= rights[t]["once"], type # "once" => d = 0
      PROVE  /\ rights' \in [Spaces -> [RightTypes -> Nat]] /\ granted' \in [Spaces -> Nat] /\ spent' \in [Spaces -> Nat]
             /\ \A u \in Spaces : spent'[u] + rights'[u]["once"] <= granted'[u]
  <2>1. PICK row : row = [rights[t] EXCEPT ![type] = n]
    OBVIOUS
  <2>2. rights' = [rights EXCEPT ![t] = row]
    BY <2>1, <1>4
  <2>3. row \in [Types -> Nat]
    BY <2>1, <1>0 DEF AccessInv
  <2>4. row["once"] = IF type = "once" THEN n ELSE rights[t]["once"]
    BY <2>1, <1>0, <1>2 DEF AccessInv
  <2>6. \A u \in Spaces : rights[u]["once"] \in Nat
    BY <1>0, <1>2 DEF AccessInv
  <2>7. rights' \in [Spaces -> [RightTypes -> Nat]] /\ granted' \in [Spaces -> Nat] /\ spent' \in [Spaces -> Nat]
    BY <2>2, <2>3, <1>4, <1>0 DEF AccessInv
  <2>8. ASSUME NEW u \in Spaces PROVE spent'[u] + rights'[u]["once"] <= granted'[u]
    <3>1. CASE u = t
      BY <1>4, <2>2, <2>4, <2>6, <3>1 DEF AccessInv
    <3>2. CASE u # t
      BY <1>4, <2>2, <2>4, <2>6, <3>2 DEF AccessInv
    <3> QED BY <3>1, <3>2
  <2> QED BY <2>7, <2>8
<1>5. ASSUME NEW t \in Spaces, NEW type \in RightTypes, RevokePortRight(t, type)
      PROVE  /\ rights' \in [Spaces -> [RightTypes -> Nat]] /\ granted' \in [Spaces -> Nat] /\ spent' \in [Spaces -> Nat]
             /\ \A u \in Spaces : spent'[u] + rights'[u]["once"] <= granted'[u]
  <2>1. spent' = [spent EXCEPT ![t] = @ + 0] /\ rights[t]["once"] \in Nat
    BY <1>5, <1>0, <1>2 DEF RevokePortRight, AccessInv
  <2>2. 0 + 0 <= rights[t]["once"] /\ granted' = granted /\ rights' = [rights EXCEPT ![t][type] = 0]
    BY <1>5, <2>1 DEF RevokePortRight
  <2>3. 0 \in Nat /\ 0 \in {0, 1}
    OBVIOUS
  <2> QED BY <1>4, <2>1, <2>2, <2>3, Zenon
<1>6. ASSUME NEW t \in Spaces, ConsumeSendOnce(t)
      PROVE  /\ rights' \in [Spaces -> [RightTypes -> Nat]] /\ granted' \in [Spaces -> Nat] /\ spent' \in [Spaces -> Nat]
             /\ \A u \in Spaces : spent'[u] + rights'[u]["once"] <= granted'[u]
  <2>1. rights[t]["once"] \in Nat
    BY <1>0, <1>2 DEF AccessInv
  <2>2. rights[t]["once"] - 1 \in Nat /\ 1 + (rights[t]["once"] - 1) <= rights[t]["once"]
    BY <1>6, <2>1 DEF ConsumeSendOnce
  <2> QED BY <1>2, <1>4, <1>6, <2>2 DEF ConsumeSendOnce, WithoutOnce
<1> QED BY <1>3, <1>5, <1>6 DEF RightsNext

\* Asking the limiter.
LEMMA CheckKeeps ==
  ASSUME AccessInv, NEW ip \in Ips, CheckLimit(ip), UNCHANGED <<taxonomyVars, verdict>>
  PROVE  AccessInv'
<1>1. UNCHANGED <<rights, granted, spent, attempts, verdict>>
  BY DEF CheckLimit, taxonomyVars
<1>2. DOMAIN failures' = DOMAIN failures /\ failures' = [i \in DOMAIN failures |-> failures'[i]]
  BY DEF CheckLimit, AccessInv
<1>3. \A i \in DOMAIN failures : failures'[i] \subseteq failures[i]
  BY DEF CheckLimit, AccessInv, InWindow
<1> QED BY <1>1, <1>2, <1>3 DEF AccessInv, FilterComplete

\* Recording a failed attempt.
LEMMA FailureKeeps ==
  ASSUME AccessInv, NEW ip \in Ips, RecordFailure(ip), UNCHANGED <<taxonomyVars, verdict>>
  PROVE  AccessInv'
<1>1. UNCHANGED <<rights, granted, spent, verdict>>
  BY DEF taxonomyVars
<1> DEFINE row == [at |-> authNow, n |-> Cardinality(attempts[ip]) + 1]
<1>2. PICK gone \in Quietest(ip) :
        /\ failures' = [i \in DOMAIN Without(failures, gone) \cup {ip} |->
             IF i # ip THEN Without(failures, gone)[i]
             ELSE {row} \cup IF ip \in DOMAIN Without(failures, gone) THEN Without(failures, gone)[ip] ELSE {}]
        /\ attempts' = [attempts EXCEPT ![ip] = @ \cup {row}]
  BY DEF RecordFailure
<1> HIDE DEF row
<1> DEFINE kept == Without(failures, gone)
<1>3. DOMAIN kept \subseteq DOMAIN failures /\ \A i \in DOMAIN kept : kept[i] = failures[i]
  BY DEF Without
<1> HIDE DEF kept
<1>4. failures' = [i \in DOMAIN kept \cup {ip} |->
        IF i # ip THEN kept[i] ELSE {row} \cup IF ip \in DOMAIN kept THEN kept[ip] ELSE {}]
  BY <1>2 DEF kept
<1>5. DOMAIN failures' \subseteq Ips /\ failures' = [i \in DOMAIN failures' |-> failures'[i]]
  BY <1>3, <1>4 DEF AccessInv
<1>6. attempts' = [i \in Ips |-> attempts'[i]]
      /\ \A i \in Ips : attempts'[i] = IF i = ip THEN attempts[i] \cup {row} ELSE attempts[i]
  BY <1>2 DEF AccessInv
<1>7. \A i \in Ips : IsFiniteSet(attempts'[i])
  <2>1. \A i \in Ips : IsFiniteSet(attempts[i])
    BY DEF AccessInv
  <2>2. IsFiniteSet(attempts[ip] \cup {row})
    BY <2>1, FS_AddElement
  <2> QED BY <1>6, <2>1, <2>2
<1>8. \A i \in DOMAIN failures' : failures'[i] \subseteq attempts'[i]
  BY <1>3, <1>4, <1>5, <1>6 DEF AccessInv
<1> QED BY <1>1, <1>5, <1>6, <1>7, <1>8 DEF AccessInv, FilterComplete

\* Replace takes the fragments of one rule out and adds nothing.
LEMMA ReplaceRemoves ==
  ASSUME NEW text, NEW r
  PROVE  /\ DOMAIN Replace(text, r) = DOMAIN text
         /\ \A i \in DOMAIN text : r \notin Replace(text, r)[i]
         /\ \A i \in DOMAIN text : \A x : x \notin text[i] => x \notin Replace(text, r)[i]
BY DEF Replace

\* No rule matches in a redacted text.
LEMMA RedactedIsClean ==
  ASSUME NEW text
  PROVE  Matches(Redacted(text)) = {}
<1> DEFINE one == Replace(text, "api_key")
           two == Replace(one, "bearer_token")
           three == Replace(two, "email")
<1>1. DOMAIN one = DOMAIN text /\ \A i \in DOMAIN text : "api_key" \notin one[i]
  BY ReplaceRemoves
<1> HIDE DEF one
<1>2. DOMAIN two = DOMAIN text /\ \A i \in DOMAIN text : "api_key" \notin two[i] /\ "bearer_token" \notin two[i]
  BY <1>1, ReplaceRemoves
<1> HIDE DEF two
<1>3. DOMAIN three = DOMAIN text
      /\ \A i \in DOMAIN text : "api_key" \notin three[i] /\ "bearer_token" \notin three[i] /\ "email" \notin three[i]
  BY <1>2, ReplaceRemoves
<1>4. Redacted(text) = three
  BY DEF Redacted, one, two
<1> HIDE DEF three
<1> QED BY <1>3, <1>4 DEF Matches, FilterRules

\* Filtering an output.
LEMMA FilterKeeps ==
  ASSUME AccessInv, FilterNext
  PROVE  AccessInv'
<1>1. UNCHANGED <<rights, granted, spent, failures, attempts>>
  BY DEF FilterNext, taxonomyVars, limiterVars
<1>2. PICK p \in Policies : \E t \in Texts : verdict' = [policy |-> p, text |-> t, result |-> Filter(p, t)]
  BY DEF FilterNext, FilterText
<1>4. PICK t \in Texts : verdict' = [policy |-> p, text |-> t, result |-> Filter(p, t)]
  BY <1>2
<1>3. FilterComplete'
  <2> SUFFICES ASSUME p.enabled
               PROVE  /\ p.action = "redact" => Matches(Filter(p, t).output) = {}
                      /\ p.action = "block" => Matches(Filter(p, t).output) = {}
                      /\ Matches(t) # {} => Filter(p, t).records # {}
    BY <1>4 DEF FilterComplete
  <2>1. Matches(<<>>) = {}
    BY DEF Matches
  <2>2. CASE p.action = "block"
    BY <2>1, <2>2 DEF Filter
  <2>3. CASE p.action # "block"
    BY <2>3, RedactedIsClean DEF Filter
  <2> QED BY <2>2, <2>3
<1> QED BY <1>1, <1>3 DEF AccessInv

\* Every step keeps the rights, the limiter's table and the verdict.
LEMMA AccessStep == AccessInv /\ [AccessNext]_accessVars => AccessInv'
<1> SUFFICES ASSUME AccessInv, [AccessNext]_accessVars PROVE AccessInv'
  OBVIOUS
<1>1. CASE UNCHANGED <<rights, granted, spent, failures, attempts, verdict>>
  BY <1>1 DEF AccessInv, FilterComplete
<1>2. CASE RightsNext
  BY <1>2, RightsKeep
<1>3. CASE CredentialNext
  BY <1>1, <1>3 DEF CredentialNext, taxonomyVars, limiterVars
<1>4. CASE LimiterNext
  <2>1. UNCHANGED <<taxonomyVars, verdict>>
    BY <1>4 DEF LimiterNext
  <2>2. CASE \E ip \in Ips : CheckLimit(ip) \/ RecordFailure(ip)
    BY <2>1, <2>2, CheckKeeps, FailureKeeps
  <2>3. CASE UNCHANGED limiterVars
    BY <1>1, <2>1, <2>3 DEF taxonomyVars, limiterVars
  <2> QED BY <1>4, <2>2, <2>3 DEF LimiterNext
<1>5. CASE FilterNext
  BY <1>5, FilterKeeps
<1>6. CASE UNCHANGED accessVars
  BY <1>1, <1>6 DEF accessVars, taxonomyVars, limiterVars
<1> QED BY <1>2, <1>3, <1>4, <1>5, <1>6 DEF AccessNext

\* An address is blocked for failures of its own.
LEMMA CauseFollows ==
  ASSUME AccessInv, NEW ip \in Ips, Blocked(ip)
  PROVE  Cardinality({r \in attempts[ip] : r.at + FailWindow >= authNow}) >= MaxFailures
<1> DEFINE mine == {r \in attempts[ip] : r.at + FailWindow >= authNow}
           kept == InWindow(failures[ip])
<1>1. ip \in DOMAIN failures /\ Cardinality(kept) >= MaxFailures
  BY DEF Blocked
<1>2. kept \subseteq mine
  BY <1>1 DEF InWindow, AccessInv
<1>3. IsFiniteSet(mine)
  <2>1. mine \subseteq attempts[ip] /\ IsFiniteSet(attempts[ip])
    BY DEF AccessInv
  <2> HIDE DEF mine
  <2> QED BY <2>1, FS_Subset
<1> HIDE DEF mine, kept
<1>4. Cardinality(kept) <= Cardinality(mine) /\ IsFiniteSet(kept)
  BY <1>2, <1>3, FS_Subset
<1>5. Cardinality(kept) \in Nat /\ Cardinality(mine) \in Nat
  BY <1>3, <1>4, FS_CardinalityType
<1>6. Cardinality(mine) >= MaxFailures
  BY <1>1, <1>4, <1>5, AccessAssumption
<1> QED BY <1>6 DEF mine

\* What the invariant says of the access rules.
LEMMA AccessInvImplies ==
  AccessInv => BaseMeaningStands /\ AcceptedIsClosed /\ SpentWithinGrants /\ BlockedHasCause /\ FilterComplete
<1> SUFFICES ASSUME AccessInv
             PROVE  BaseMeaningStands /\ AcceptedIsClosed /\ SpentWithinGrants /\ BlockedHasCause /\ FilterComplete
  OBVIOUS
<1>1. SpentWithinGrants
  <2> SUFFICES ASSUME NEW t \in Spaces PROVE spent[t] <= granted[t]
    BY DEF SpentWithinGrants
  <2>1. "once" \in RightTypes
    BY DEF RightTypes
  <2>2. rights[t]["once"] \in Nat
    BY <2>1 DEF AccessInv
  <2> QED BY <2>2 DEF AccessInv
<1>2. BlockedHasCause
  BY CauseFollows DEF BlockedHasCause
<1> QED BY <1>1, <1>2, BaseStands, Closed DEF AccessInv

\* Only record_failure forgets an address.
LEMMA WhoForgets ==
  ASSUME AccessInv, [AccessNext]_accessVars, NEW gone \in DOMAIN failures, gone \notin DOMAIN failures'
  PROVE  \E ip \in Ips : RecordFailure(ip)
<1>1. CASE UNCHANGED failures
  BY <1>1
<1>2. ASSUME NEW ip \in Ips, CheckLimit(ip) PROVE DOMAIN failures' = DOMAIN failures
  BY <1>2 DEF CheckLimit
<1>3. CASE LimiterNext
  BY <1>1, <1>2, <1>3 DEF LimiterNext, limiterVars
<1> QED BY <1>1, <1>3 DEF AccessNext, RightsNext, CredentialNext, FilterNext, accessVars, limiterVars

\* The address that makes room in the full table is the one quiet for longest.
LEMMA QuietestGoes ==
  ASSUME AccessInv, [AccessNext]_accessVars, NEW gone \in DOMAIN failures \ DOMAIN failures', NEW i \in DOMAIN failures
  PROVE  LastFailure(gone) <= LastFailure(i)
<1>1. PICK ip \in Ips : RecordFailure(ip)
  BY WhoForgets
<1>2. PICK drop \in Quietest(ip) : DOMAIN failures' = (DOMAIN failures \ drop) \cup {ip}
  BY <1>1 DEF RecordFailure, Without
<1>3. gone \in drop
  BY <1>2
<1> QED BY <1>2, <1>3 DEF Quietest

\* AccessSound for every definition of a taxonomy, every set of workspaces and
\* addresses and every limit: an accepted definition changes nothing about the
\* base roles and names only roles that exist, a send-once right is spent once,
\* an address is blocked for failures of its own, the limiter forgets the
\* quietest address, and the content filter is complete.
THEOREM AccessIsSound ==
  ASSUME NEW CONSTANT Defs
  PROVE  AccessSpec(Defs) => AccessSound
<1>1. AccessInit(Defs) => AccessInv
  <2> SUFFICES ASSUME AccessInit(Defs) PROVE AccessInv
    OBVIOUS
  <2>1. \A i \in Ips : IsFiniteSet(attempts[i])
    BY FS_EmptySet DEF AccessInit
  <2>2. \A t \in Spaces : spent[t] + rights[t]["once"] <= granted[t]
    BY DEF AccessInit, RightTypes
  <2> QED BY <2>1, <2>2 DEF AccessInit, AccessInv, FilterComplete, NoVerdict
<1>2. AccessInv /\ [AccessNext]_accessVars => AccessInv'
  BY AccessStep
<1>3. AccessInv => BaseMeaningStands /\ AcceptedIsClosed /\ SpentWithinGrants /\ BlockedHasCause /\ FilterComplete
  BY AccessInvImplies
<1>4. AccessInv /\ [AccessNext]_accessVars =>
        [\A gone \in DOMAIN failures \ DOMAIN failures', i \in DOMAIN failures :
           failures[gone] # {} /\ failures[i] # {} => LastFailure(gone) <= LastFailure(i)]_accessVars
  BY QuietestGoes
<1> QED BY <1>1, <1>2, <1>3, <1>4, PTL DEF AccessSpec, AccessSound, ForgetsTheQuietest, AccessNext

-----------------------------------------------------------------------------
(* The inbox                                                               *)

Envelopes == [id : Letters, priority : MailPriorities, n : Nat]

Pops == [id : Letters, n : Nat, at : Nat]

Ahead(a, b) ==
  \/ Rank(a.priority) > Rank(b.priority)
  \/ a.priority = b.priority /\ a.n < b.n

SortedInbox(box) == \A i, j \in DOMAIN box : i < j => Ahead(box[i], box[j])

\* The inbox, the ids popped and the history of pops, now or in the snapshot,
\* after d deliveries.
SoundInbox(box, seen, hist, d) ==
  /\ box \in Seq(Envelopes) /\ seen \subseteq Letters /\ hist \in Seq(Pops)
  /\ SortedInbox(box)
  /\ \A i \in DOMAIN box : box[i].n <= d
  /\ \A k \in DOMAIN hist : hist[k].id \in seen /\ hist[k].at <= d
  /\ \A i \in DOMAIN box, k \in DOMAIN hist :
       box[i].id = hist[k].id => box[i].n <= hist[k].at
  /\ \A k, l \in DOMAIN hist : k < l /\ hist[k].id = hist[l].id => hist[l].n <= hist[k].at

MailboxInv ==
  /\ deliveries \in Seq(Letters)
  /\ saved = [inbox |-> saved.inbox, delivered |-> saved.delivered, popped |-> saved.popped]
  /\ SoundInbox(inbox, delivered, popped, Len(deliveries))
  /\ SoundInbox(saved.inbox, saved.delivered, saved.popped, Len(deliveries))

-----------------------------------------------------------------------------

\* Every non-empty set of natural numbers has a least one: the intervals 1..i
\* of its members are finite, and strict inclusion of finite sets is well
\* founded.
LEMMA LeastMember ==
  ASSUME NEW T, T \subseteq Nat, T # {}
  PROVE  \E i \in T : \A j \in T : i <= j
<1> DEFINE Below(i) == 1..i
           Intervals == {Below(i) : i \in T}
<1>1. \A i \in T : IsFiniteSet(Below(i))
  BY FS_Interval
<1>2. Intervals \subseteq FiniteSubsetsOf(Nat)
  BY <1>1 DEF FiniteSubsetsOf
<1>3. Intervals # {}
  OBVIOUS
<1> HIDE DEF Intervals
<1>4. \E x \in Intervals : \A y \in Intervals : ~(<<y, x>> \in StrictSubsetOrdering(Nat))
  BY <1>2, <1>3, FS_StrictSubsetOrderingWellFounded, WFMin
<1> USE DEF Intervals
<1>5. PICK i \in T : \A j \in T : ~(<<Below(j), Below(i)>> \in StrictSubsetOrdering(Nat))
  BY <1>4
<1>6. ASSUME NEW j \in T PROVE i <= j
  <2>1. <<Below(j), Below(i)>> \notin StrictSubsetOrdering(Nat)
    BY <1>5
  <2>2. SUFFICES ASSUME j < i PROVE FALSE
    OBVIOUS
  <2>3. i \in Below(i) /\ i \notin Below(j) /\ \A k \in Below(j) : k \in Below(i)
    BY <2>2
  <2> QED BY <2>1, <2>3 DEF StrictSubsetOrdering
<1> QED BY <1>6

\* The three ranks, which tell the priorities apart.
LEMMA RankFacts ==
  /\ \A p \in MailPriorities : Rank(p) \in Nat
  /\ \A p, q \in MailPriorities : Rank(p) = Rank(q) => p = q
BY DEF MailPriorities, Rank

\* Where push_inbox inserts, and what it leaves in order around it: everything
\* that does not rank lower stays in front.
LEMMA InsertPlace ==
  ASSUME NEW box \in Seq(Envelopes), NEW m \in Envelopes, LowerRanked(box, m) # {}
  PROVE  LET p == CHOOSE i \in LowerRanked(box, m) : \A j \in LowerRanked(box, m) : i <= j
         IN  /\ p \in LowerRanked(box, m)
             /\ \A j \in LowerRanked(box, m) : p <= j
<1>1. LowerRanked(box, m) \subseteq Nat
  BY DEF LowerRanked
<1>2. \E i \in LowerRanked(box, m) : \A j \in LowerRanked(box, m) : i <= j
  BY <1>1, LeastMember
<1> QED BY <1>2

\* InsertAt, element by element.
LEMMA InsertShape ==
  ASSUME NEW S, NEW s \in Seq(S), NEW p \in 1..Len(s), NEW e \in S
  PROVE  /\ InsertAt(s, p, e) \in Seq(S)
         /\ Len(InsertAt(s, p, e)) = Len(s) + 1
         /\ \A i \in 1..(Len(s) + 1) :
              InsertAt(s, p, e)[i] = IF i < p THEN s[i] ELSE IF i = p THEN e ELSE s[i - 1]
<1> DEFINE a == SubSeq(s, 1, p - 1)
           b == SubSeq(s, p, Len(s))
<1>1. a \in Seq(S) /\ Len(a) = p - 1 /\ \A i \in 1..(p - 1) : a[i] = s[i]
  OBVIOUS
<1>2. b \in Seq(S) /\ Len(b) = Len(s) - p + 1 /\ \A i \in 1..(Len(s) - p + 1) : b[i] = s[p + i - 1]
  OBVIOUS
<1> HIDE DEF a, b
<1>3. InsertAt(s, p, e) = a \o <<e>> \o b
  BY DEF InsertAt, a, b
<1>4. <<e>> \in Seq(S) /\ Len(<<e>>) = 1 /\ <<e>>[1] = e
  OBVIOUS
<1> DEFINE c == a \o <<e>>
<1>5. c \in Seq(S) /\ Len(c) = p /\ \A i \in 1..p : c[i] = IF i < p THEN a[i] ELSE e
  BY <1>1, <1>4
<1> HIDE DEF c
<1>6. /\ c \o b \in Seq(S) /\ Len(c \o b) = Len(s) + 1
      /\ \A i \in 1..(Len(s) + 1) : (c \o b)[i] = IF i <= p THEN c[i] ELSE b[i - p]
  <2>1. Len(c) + Len(b) = Len(s) + 1
    BY <1>2, <1>5
  <2>2. /\ c \o b \in Seq(S) /\ Len(c \o b) = Len(c) + Len(b)
        /\ \A i \in 1..(Len(c) + Len(b)) : (c \o b)[i] = IF i <= Len(c) THEN c[i] ELSE b[i - Len(c)]
    BY <1>2, <1>5, ConcatProperties, Zenon
  <2>3. Len(c) = p
    BY <1>5
  <2> HIDE DEF c, b
  <2> QED BY <2>1, <2>2, <2>3, Zenon
<1>7. InsertAt(s, p, e) = c \o b
  BY <1>3 DEF c
<1>8. ASSUME NEW i \in 1..(Len(s) + 1)
      PROVE (c \o b)[i] = IF i < p THEN s[i] ELSE IF i = p THEN e ELSE s[i - 1]
  <2>1. CASE i < p
    BY <2>1, <1>1, <1>5, <1>6
  <2>2. CASE i = p
    BY <2>2, <1>5, <1>6
  <2>3. CASE i > p
    <3>1. i - p \in 1..(Len(s) - p + 1) /\ p + (i - p) - 1 = i - 1
      BY <2>3
    <3>2. b[i - p] = s[p + (i - p) - 1]
      BY <3>1, <1>2
    <3> QED BY <2>3, <3>1, <3>2, <1>6
  <2>4. i < p \/ i = p \/ i > p
    OBVIOUS
  <2> QED BY <2>1, <2>2, <2>3, <2>4
<1> QED BY <1>6, <1>7, <1>8

-----------------------------------------------------------------------------

\* push_inbox keeps the inbox sorted and adds the envelope and nothing else.
LEMMA PushKeepsOrder ==
  ASSUME NEW box \in Seq(Envelopes), NEW m \in Envelopes, SortedInbox(box),
         \A i \in DOMAIN box : box[i].n < m.n
  PROVE  /\ PushInbox(box, m) \in Seq(Envelopes)
         /\ SortedInbox(PushInbox(box, m))
         /\ Waiting(PushInbox(box, m)) = Waiting(box) \cup {m}
<1> DEFINE new == PushInbox(box, m)
<1>0. /\ \A i \in 1..Len(box) : box[i] \in Envelopes /\ box[i].priority \in MailPriorities /\ box[i].n \in Nat
      /\ m.priority \in MailPriorities /\ m.n \in Nat /\ DOMAIN box = 1..Len(box) /\ Len(box) \in Nat
  <2>1. DOMAIN box = 1..Len(box) /\ Len(box) \in Nat /\ \A i \in 1..Len(box) : box[i] \in Envelopes
    OBVIOUS
  <2>2. \A e \in Envelopes : e.priority \in MailPriorities /\ e.n \in Nat
    BY DEF Envelopes
  <2> QED BY <2>1, <2>2
<1>1. CASE LowerRanked(box, m) = {}
  <2>1. new = Append(box, m)
    BY <1>1 DEF PushInbox
  <2>2. /\ new \in Seq(Envelopes) /\ Len(new) = Len(box) + 1
        /\ \A i \in 1..Len(box) : new[i] = box[i]
        /\ new[Len(box) + 1] = m /\ DOMAIN new = 1..(Len(box) + 1)
    BY <2>1
  <2>3. \A i \in 1..Len(box) : Ahead(box[i], m)
    BY <1>0, <1>1, RankFacts DEF LowerRanked, Ahead
  <2> HIDE DEF new
  <2>4. SortedInbox(new)
    <3> SUFFICES ASSUME NEW i \in 1..(Len(box) + 1), NEW j \in 1..(Len(box) + 1), i < j
                 PROVE  Ahead(new[i], new[j])
      BY <2>2 DEF SortedInbox
    <3>1. CASE j = Len(box) + 1
      BY <3>1, <1>0, <2>2, <2>3
    <3>2. CASE j # Len(box) + 1
      <4>0. Len(box) \in Nat
        OBVIOUS
      <4>1. i \in 1..Len(box) /\ j \in 1..Len(box)
        BY <3>2, <4>0
      <4> QED BY <4>1, <2>2, <1>0 DEF SortedInbox
    <3> QED BY <3>1, <3>2
  <2>5. Waiting(new) = Waiting(box) \cup {m}
    <3>1. ASSUME NEW i \in 1..(Len(box) + 1) PROVE new[i] \in Waiting(box) \cup {m}
      <4>1. i \in 1..Len(box) \/ i = Len(box) + 1
        BY <1>0
      <4> QED BY <4>1, <2>2, <1>0 DEF Waiting
    <3>2. \A i \in 1..Len(box) : i \in 1..(Len(box) + 1)
      BY <1>0
    <3>3. Len(box) + 1 \in 1..(Len(box) + 1)
      BY <1>0
    <3> QED BY <3>1, <3>2, <3>3, <2>2, <1>0 DEF Waiting
  <2> QED BY <2>2, <2>4, <2>5 DEF new
<1>2. CASE LowerRanked(box, m) # {}
  <2> DEFINE p == CHOOSE i \in LowerRanked(box, m) : \A j \in LowerRanked(box, m) : i <= j
  <2>1. new = InsertAt(box, p, m)
    BY <1>2 DEF PushInbox
  <2>2. p \in LowerRanked(box, m) /\ \A j \in LowerRanked(box, m) : p <= j
    BY <1>2, InsertPlace
  <2> HIDE DEF p
  <2>3. p \in 1..Len(box) /\ Rank(box[p].priority) < Rank(m.priority)
    BY <2>2, <1>0 DEF LowerRanked
  <2>4. /\ new \in Seq(Envelopes) /\ Len(new) = Len(box) + 1
        /\ \A i \in 1..(Len(box) + 1) :
             new[i] = IF i < p THEN box[i] ELSE IF i = p THEN m ELSE box[i - 1]
    BY <2>1, <2>3, InsertShape
  <2>5. DOMAIN new = 1..(Len(box) + 1)
    BY <2>4
  <2> HIDE DEF new
  <2>6. ASSUME NEW i \in 1..Len(box), i < p PROVE Ahead(box[i], m)
    <3>1. ~(Rank(box[i].priority) < Rank(m.priority))
      BY <2>6, <2>2, <2>3, <1>0 DEF LowerRanked
    <3> QED BY <3>1, <1>0, RankFacts DEF Ahead
  <2>7. ASSUME NEW i \in 1..Len(box), p <= i PROVE Ahead(m, box[i])
    <3>1. p = i \/ Ahead(box[p], box[i])
      BY <2>7, <2>3, <1>0 DEF SortedInbox
    <3>2. Rank(box[i].priority) <= Rank(box[p].priority)
      BY <3>1, <2>3, <1>0, RankFacts DEF Ahead
    <3> QED BY <3>2, <2>3, <1>0, RankFacts DEF Ahead
  <2>8. SortedInbox(new)
    <3> SUFFICES ASSUME NEW i \in 1..(Len(box) + 1), NEW j \in 1..(Len(box) + 1), i < j
                 PROVE  Ahead(new[i], new[j])
      BY <2>5 DEF SortedInbox
    <3>0. p \in Nat /\ i \in Nat /\ j \in Nat
      BY <2>3
    <3>1. CASE j < p
      <4>1. i \in 1..Len(box) /\ j \in 1..Len(box) /\ i < p
        BY <3>1, <2>3, <1>0
      <4> QED BY <4>1, <3>1, <2>4, <1>0 DEF SortedInbox
    <3>2. CASE j = p
      <4>1. i \in 1..Len(box) /\ i < p
        BY <3>2, <2>3, <1>0
      <4> QED BY <4>1, <3>2, <2>4, <2>6
    <3>3. CASE j > p /\ i < p
      <4>1. i \in 1..Len(box) /\ j - 1 \in 1..Len(box) /\ i < j - 1
        BY <3>3, <3>0, <2>3, <1>0
      <4>2. new[i] = box[i] /\ new[j] = box[j - 1]
        BY <3>3, <3>0, <2>4
      <4> QED BY <4>1, <4>2, <1>0 DEF SortedInbox
    <3>4. CASE j > p /\ i = p
      <4>1. j - 1 \in 1..Len(box) /\ p <= j - 1
        BY <3>4, <3>0, <2>3, <1>0
      <4>2. new[i] = m /\ new[j] = box[j - 1]
        BY <3>4, <3>0, <2>4
      <4> QED BY <4>1, <4>2, <2>7
    <3>5. CASE j > p /\ i > p
      <4>1. i - 1 \in 1..Len(box) /\ j - 1 \in 1..Len(box) /\ i - 1 < j - 1
        BY <3>5, <3>0, <2>3, <1>0
      <4>2. new[i] = box[i - 1] /\ new[j] = box[j - 1]
        BY <3>5, <3>0, <2>4
      <4> QED BY <4>1, <4>2, <1>0 DEF SortedInbox
    <3> QED BY <3>0, <3>1, <3>2, <3>3, <3>4, <3>5
  <2>9. Waiting(new) = Waiting(box) \cup {m}
    <3>1. ASSUME NEW i \in 1..(Len(box) + 1) PROVE new[i] \in Waiting(box) \cup {m}
      <4>1. CASE i < p
        <5>1. i \in 1..Len(box) /\ new[i] = box[i]
          BY <4>1, <2>3, <2>4, <1>0
        <5> QED BY <5>1, <1>0 DEF Waiting
      <4>2. CASE i = p
        BY <4>2, <2>4
      <4>3. CASE i > p
        <5>1. i - 1 \in 1..Len(box) /\ new[i] = box[i - 1]
          BY <4>3, <2>3, <2>4, <1>0
        <5> QED BY <5>1, <1>0 DEF Waiting
      <4> QED BY <4>1, <4>2, <4>3, <2>3
    <3>2. ASSUME NEW i \in 1..Len(box) PROVE box[i] \in Waiting(new)
      <4>1. CASE i < p
        <5>1. i \in 1..(Len(box) + 1) /\ new[i] = box[i]
          BY <4>1, <2>4, <1>0
        <5> QED BY <5>1, <2>5 DEF Waiting
      <4>2. CASE i >= p
        <5>1. i + 1 \in 1..(Len(box) + 1) /\ ~(i + 1 < p) /\ i + 1 # p /\ (i + 1) - 1 = i
          BY <4>2, <2>3, <1>0
        <5>2. new[i + 1] = box[i]
          BY <5>1, <2>4
        <5> QED BY <5>1, <5>2, <2>5 DEF Waiting
      <4> QED BY <4>1, <4>2, <2>3
    <3>3. m \in Waiting(new)
      <4>1. p \in 1..(Len(box) + 1) /\ new[p] = m
        BY <2>3, <2>4, <1>0
      <4> QED BY <4>1, <2>5 DEF Waiting
    <3> QED BY <3>1, <3>2, <3>3, <2>5, <1>0 DEF Waiting
  <2> QED BY <2>4, <2>8, <2>9 DEF new
<1> QED BY <1>1, <1>2

\* pop_inbox keeps the inbox sorted and removes the front, which no other
\* envelope equals.
LEMMA PopKeepsOrder ==
  ASSUME NEW box \in Seq(Envelopes), SortedInbox(box), box # <<>>
  PROVE  /\ Tail(box) \in Seq(Envelopes) /\ SortedInbox(Tail(box))
         /\ Head(box) \in Envelopes /\ Head(box) \in Waiting(box)
         /\ Waiting(Tail(box)) = Waiting(box) \ {Head(box)}
         /\ \A o \in Waiting(box) \ {Head(box)} : Ahead(Head(box), o)
         /\ \A i \in DOMAIN Tail(box) : i + 1 \in DOMAIN box /\ Tail(box)[i] = box[i + 1]
         /\ 1 \in DOMAIN box /\ Head(box) = box[1]
<1> DEFINE new == Tail(box)
<1>1. /\ DOMAIN box = 1..Len(box) /\ Len(box) \in Nat /\ Len(box) # 0
      /\ \A i \in 1..Len(box) : box[i] \in Envelopes
  OBVIOUS
<1>2. /\ new \in Seq(Envelopes) /\ Len(new) = Len(box) - 1 /\ DOMAIN new = 1..(Len(box) - 1)
      /\ \A i \in 1..(Len(box) - 1) : new[i] = box[i + 1]
      /\ Head(box) = box[1]
  BY <1>1
<1> HIDE DEF new
<1>3. \A i \in 1..(Len(box) - 1) : i + 1 \in 1..Len(box)
  BY <1>1
<1>4. 1 \in 1..Len(box)
  BY <1>1
<1>5. ASSUME NEW i \in 1..(Len(box) - 1), NEW j \in 1..(Len(box) - 1), i < j
      PROVE  Ahead(new[i], new[j])
  <2>1. i + 1 < j + 1
    BY <1>5
  <2> QED BY <2>1, <1>1, <1>2, <1>3 DEF SortedInbox
<1>6. ASSUME NEW i \in 1..(Len(box) - 1) PROVE Ahead(box[1], box[i + 1])
  <2>1. 1 < i + 1
    BY <1>1
  <2> QED BY <2>1, <1>1, <1>3, <1>4 DEF SortedInbox
<1>7. ASSUME NEW e \in Envelopes PROVE ~Ahead(e, e)
  <2>1. e.n \in Nat /\ e.priority \in MailPriorities
    BY DEF Envelopes
  <2> QED BY <2>1, RankFacts DEF Ahead
<1>8. ASSUME NEW i \in 1..Len(box), box[i] # box[1] PROVE i - 1 \in 1..(Len(box) - 1) /\ (i - 1) + 1 = i
  <2>1. i # 1
    BY <1>8
  <2> QED BY <2>1, <1>1
<1>9. Waiting(new) = Waiting(box) \ {box[1]}
  <2>1. ASSUME NEW i \in 1..(Len(box) - 1) PROVE new[i] \in Waiting(box) \ {box[1]}
    <3>1. box[i + 1] # box[1]
      BY <1>1, <1>3, <1>4, <1>6, <1>7
    <3> QED BY <3>1, <1>1, <1>2, <1>3 DEF Waiting
  <2>2. ASSUME NEW i \in 1..Len(box), box[i] # box[1] PROVE box[i] \in Waiting(new)
    <3>1. i - 1 \in 1..(Len(box) - 1) /\ (i - 1) + 1 = i
      BY <2>2, <1>8
    <3>2. new[i - 1] = box[i]
      BY <3>1, <1>2
    <3> QED BY <3>1, <3>2, <1>2 DEF Waiting
  <2> QED BY <2>1, <2>2, <1>1, <1>2 DEF Waiting
<1>10. ASSUME NEW i \in 1..Len(box), box[i] # box[1] PROVE Ahead(box[1], box[i])
  BY <1>6, <1>8, <1>10
<1>11. \A o \in Waiting(box) \ {box[1]} : Ahead(box[1], o)
  BY <1>10, <1>1 DEF Waiting
<1>12. SortedInbox(new)
  BY <1>5, <1>2 DEF SortedInbox
<1>13. box[1] \in Waiting(box) /\ box[1] \in Envelopes
  BY <1>1, <1>4 DEF Waiting
<1> QED BY <1>1, <1>2, <1>3, <1>4, <1>9, <1>11, <1>12, <1>13 DEF new

-----------------------------------------------------------------------------

\* The numbers of a sound inbox and of its history.
LEMMA SoundNumbers ==
  ASSUME NEW box, NEW seen, NEW hist, NEW d, SoundInbox(box, seen, hist, d)
  PROVE  /\ \A i \in DOMAIN box : box[i].n \in Nat
         /\ \A k \in DOMAIN hist : hist[k].at \in Nat
<1>1. box \in Seq(Envelopes) /\ hist \in Seq(Pops)
  BY DEF SoundInbox
<1>2. (\A i \in DOMAIN box : box[i] \in Envelopes) /\ (\A k \in DOMAIN hist : hist[k] \in Pops)
  BY <1>1
<1>3. (\A e \in Envelopes : e.n \in Nat) /\ (\A h \in Pops : h.at \in Nat)
  BY DEF Envelopes, Pops
<1> QED BY <1>2, <1>3

\* More deliveries take nothing from an inbox or a snapshot.
LEMMA SoundLater ==
  ASSUME NEW box, NEW seen, NEW hist, NEW d \in Nat, SoundInbox(box, seen, hist, d)
  PROVE  SoundInbox(box, seen, hist, d + 1)
<1>1. (\A i \in DOMAIN box : box[i].n \in Nat) /\ (\A k \in DOMAIN hist : hist[k].at \in Nat)
  BY SoundNumbers
<1>2. (\A i \in DOMAIN box : box[i].n <= d) /\ (\A k \in DOMAIN hist : hist[k].at <= d)
  BY DEF SoundInbox
<1>3. (\A i \in DOMAIN box : box[i].n <= d + 1) /\ (\A k \in DOMAIN hist : hist[k].at <= d + 1)
  BY <1>1, <1>2
<1> QED BY <1>3 DEF SoundInbox

\* A delivery of an id that was not popped.
LEMMA SoundPush ==
  ASSUME NEW box, NEW seen, NEW hist, NEW d \in Nat, SoundInbox(box, seen, hist, d),
         NEW id \in Letters, id \notin seen, NEW p \in MailPriorities
  PROVE  /\ SoundInbox(PushInbox(box, Mail(id, p, d + 1)), seen, hist, d + 1)
         /\ Waiting(PushInbox(box, Mail(id, p, d + 1))) = Waiting(box) \cup {Mail(id, p, d + 1)}
<1> DEFINE m == Mail(id, p, d + 1)
           new == PushInbox(box, m)
<1>1. m \in Envelopes /\ m.n = d + 1 /\ m.id = id
  BY DEF Mail, Envelopes
<1>2. box \in Seq(Envelopes) /\ SortedInbox(box)
  BY DEF SoundInbox
<1>3. \A i \in DOMAIN box : box[i].n \in Nat /\ box[i].n <= d
  BY SoundNumbers DEF SoundInbox
<1>4. \A i \in DOMAIN box : box[i].n < m.n
  BY <1>1, <1>3
<1> HIDE DEF m
<1>5. new \in Seq(Envelopes) /\ SortedInbox(new) /\ Waiting(new) = Waiting(box) \cup {m}
  BY <1>1, <1>2, <1>4, PushKeepsOrder
<1> HIDE DEF new
<1>6. \A i \in DOMAIN new : new[i] = m \/ \E j \in DOMAIN box : new[i] = box[j]
  BY <1>5 DEF Waiting
<1>7. \A i \in DOMAIN new : new[i].n <= d + 1
  BY <1>1, <1>3, <1>6
<1>8. ASSUME NEW i \in DOMAIN new, NEW k \in DOMAIN hist, new[i].id = hist[k].id
      PROVE  new[i].n <= hist[k].at
  <2>1. hist[k].id # id
    BY DEF SoundInbox
  <2>2. PICK j \in DOMAIN box : new[i] = box[j]
    BY <2>1, <1>1, <1>6, <1>8
  <2> QED BY <2>2, <1>8 DEF SoundInbox
<1>9. SoundInbox(box, seen, hist, d + 1)
  BY SoundLater
<1>10. SoundInbox(new, seen, hist, d + 1)
  BY <1>5, <1>7, <1>8, <1>9 DEF SoundInbox
<1> QED BY <1>5, <1>10 DEF m, new

\* A pop.
LEMMA SoundPop ==
  ASSUME NEW box, NEW seen, NEW hist, NEW d \in Nat, SoundInbox(box, seen, hist, d), box # <<>>
  PROVE  SoundInbox(Tail(box), seen \cup {Head(box).id},
                    Append(hist, [id |-> Head(box).id, n |-> Head(box).n, at |-> d]), d)
<1> DEFINE h == [id |-> Head(box).id, n |-> Head(box).n, at |-> d]
           new == Append(hist, h)
           rest == Tail(box)
<1>1. box \in Seq(Envelopes) /\ SortedInbox(box) /\ hist \in Seq(Pops) /\ seen \subseteq Letters
  BY DEF SoundInbox
<1>2. /\ rest \in Seq(Envelopes) /\ SortedInbox(rest) /\ Head(box) \in Envelopes
      /\ \A i \in DOMAIN rest : i + 1 \in DOMAIN box /\ rest[i] = box[i + 1]
      /\ 1 \in DOMAIN box /\ Head(box) = box[1]
  BY <1>1, PopKeepsOrder
<1>3. Head(box).id \in Letters /\ Head(box).n \in Nat
  BY <1>2 DEF Envelopes
<1>4. h \in Pops /\ h.id = Head(box).id /\ h.n = Head(box).n /\ h.at = d
  BY <1>3 DEF Pops
<1> HIDE DEF h, rest
<1>5. /\ new \in Seq(Pops) /\ DOMAIN new = 1..(Len(hist) + 1) /\ Len(hist) \in Nat
      /\ DOMAIN hist = 1..Len(hist)
      /\ \A k \in 1..Len(hist) : new[k] = hist[k] /\ new[Len(hist) + 1] = h
      /\ new[Len(hist) + 1] = h
  BY <1>1, <1>4
<1> HIDE DEF new
<1>6. \A k \in 1..(Len(hist) + 1) : k \in 1..Len(hist) \/ k = Len(hist) + 1
  BY <1>5
<1>7. \A i \in DOMAIN rest : rest[i].n <= d
  BY <1>2 DEF SoundInbox
<1>8. \A k \in DOMAIN new : new[k].id \in seen \cup {Head(box).id} /\ new[k].at <= d
  <2>1. \A k \in 1..Len(hist) : hist[k].id \in seen /\ hist[k].at <= d
    BY <1>5 DEF SoundInbox
  <2> QED BY <2>1, <1>4, <1>5, <1>6
<1>9. ASSUME NEW i \in DOMAIN rest, NEW k \in DOMAIN new, rest[i].id = new[k].id
      PROVE  rest[i].n <= new[k].at
  <2>1. CASE k = Len(hist) + 1
    BY <2>1, <1>4, <1>5, <1>7
  <2>2. CASE k \in 1..Len(hist)
    BY <2>2, <1>2, <1>5, <1>9 DEF SoundInbox
  <2> QED BY <2>1, <2>2, <1>5, <1>6
<1>10. ASSUME NEW k \in DOMAIN new, NEW l \in DOMAIN new, k < l, new[k].id = new[l].id
       PROVE  new[l].n <= new[k].at
  <2>1. CASE l = Len(hist) + 1
    <3>1. k \in 1..Len(hist) /\ new[k] = hist[k]
      BY <2>1, <1>10, <1>5
    <3>2. hist[k].id = box[1].id
      BY <3>1, <2>1, <1>2, <1>4, <1>5, <1>10
    <3>3. box[1].n <= hist[k].at
      BY <3>1, <3>2, <1>2, <1>5 DEF SoundInbox
    <3> QED BY <3>1, <3>3, <2>1, <1>2, <1>4, <1>5
  <2>2. CASE l # Len(hist) + 1
    <3>1. k \in 1..Len(hist) /\ l \in 1..Len(hist)
      BY <2>2, <1>10, <1>5
    <3> QED BY <3>1, <1>5, <1>10 DEF SoundInbox
  <2> QED BY <2>1, <2>2
<1>11. SoundInbox(rest, seen \cup {Head(box).id}, new, d)
  BY <1>1, <1>2, <1>3, <1>5, <1>7, <1>8, <1>9, <1>10 DEF SoundInbox
<1> QED BY <1>11 DEF rest, new, h

-----------------------------------------------------------------------------

\* The empty inbox is sorted.
LEMMA MailboxInvInit == MailboxInit => MailboxInv
<1> SUFFICES ASSUME MailboxInit PROVE MailboxInv
  OBVIOUS
<1>1. /\ inbox = <<>> /\ delivered = {} /\ deliveries = <<>> /\ popped = <<>>
      /\ saved.inbox = <<>> /\ saved.delivered = {} /\ saved.popped = <<>>
      /\ saved = [inbox |-> saved.inbox, delivered |-> saved.delivered, popped |-> saved.popped]
  BY DEF MailboxInit
<1>2. SoundInbox(<<>>, {}, <<>>, 0)
  BY DEF SoundInbox, SortedInbox
<1>3. Len(deliveries) = 0 /\ deliveries \in Seq(Letters)
  BY <1>1
<1> QED BY <1>1, <1>2, <1>3 DEF MailboxInv

\* A delivery, a pop, a capture and a restore keep inbox and capture sorted.
LEMMA MailboxInvStep == MailboxInv /\ [MailboxNext]_mailVars => MailboxInv'
<1> SUFFICES ASSUME MailboxInv, [MailboxNext]_mailVars PROVE MailboxInv'
  OBVIOUS
<1> DEFINE d == Len(deliveries)
<1>0. d \in Nat /\ deliveries \in Seq(Letters)
  BY DEF MailboxInv
<1>1. ASSUME NEW id \in Letters, NEW p \in MailPriorities, Deliver(id, p) PROVE MailboxInv'
  <2>1. /\ deliveries' \in Seq(Letters) /\ Len(deliveries') = d + 1
        /\ delivered' = delivered /\ saved' = saved /\ popped' = popped
    BY <1>0, <1>1 DEF Deliver
  <2> HIDE DEF d
  <2>2. SoundInbox(inbox, delivered, popped, d) /\ SoundInbox(saved.inbox, saved.delivered, saved.popped, d)
    BY DEF MailboxInv, d
  <2>3. SoundInbox(saved.inbox, saved.delivered, saved.popped, d + 1)
    BY <2>2, <1>0, SoundLater
  <2>4. SoundInbox(inbox', delivered, popped, d + 1)
    <3>1. CASE id \in delivered
      BY <3>1, <2>2, <1>0, <1>1, SoundLater DEF Deliver, IsEnvelopeDelivered
    <3>2. CASE id \notin delivered
      <4>1. inbox' = PushInbox(inbox, Mail(id, p, d + 1))
        BY <3>2, <1>1 DEF Deliver, IsEnvelopeDelivered, d
      <4> QED BY <4>1, <3>2, <2>2, <1>0, SoundPush
    <3> QED BY <3>1, <3>2
  <2> QED BY <2>1, <2>3, <2>4 DEF MailboxInv
<1>2. CASE PopInbox
  <2>1. SoundInbox(inbox', delivered', popped', d)
    BY <1>0, <1>2, SoundPop DEF PopInbox, MailboxInv
  <2> QED BY <2>1, <1>2 DEF PopInbox, MailboxInv
<1>3. CASE CaptureSnapshot
  BY <1>3 DEF CaptureSnapshot, MailboxInv
<1>4. CASE RestoreFromSnapshot
  BY <1>4 DEF RestoreFromSnapshot, Restored, MailboxInv
<1>5. CASE UNCHANGED mailVars
  BY <1>5 DEF mailVars, MailboxInv
<1> QED BY <1>1, <1>2, <1>3, <1>4, <1>5 DEF MailboxNext

\* The invariant of push_inbox, pop_inbox and the snapshots.
THEOREM InboxStaysSorted == MailboxSpec => []MailboxInv
<1>1. MailboxInit => MailboxInv
  BY MailboxInvInit
<1>2. MailboxInv /\ [MailboxNext]_mailVars => MailboxInv'
  BY MailboxInvStep
<1> QED BY <1>1, <1>2, PTL DEF MailboxSpec

\* A second copy of an envelope reaches the agent only when it was already
\* waiting when the first was popped, for every set of envelopes, number of
\* deliveries, and sequence of captures and restores.
THEOREM SecondCopies == MailboxSpec => []SecondCopyWasWaiting
<1>1. MailboxInv => SecondCopyWasWaiting
  BY DEF MailboxInv, SoundInbox, SecondCopyWasWaiting
<1> QED BY <1>1, InboxStaysSorted, PTL

\* A step of the inbox is a step of the set: an arrival, a take of the first in
\* order, a capture, a restore, or nothing.
LEMMA QueuesStep ==
  MailboxInv /\ [MailboxNext]_mailVars => [Queues!QueuesNext]_(Queues!queueVars)
<1> SUFFICES ASSUME MailboxInv, [MailboxNext]_mailVars
             PROVE  [Queues!QueuesNext]_(Queues!queueVars)
  OBVIOUS
<1> DEFINE d == Len(deliveries)
<1>0. /\ d \in Nat /\ deliveries \in Seq(Letters)
      /\ SoundInbox(inbox, delivered, popped, d)
  BY DEF MailboxInv
<1>1. ASSUME NEW id \in Letters, NEW p \in MailPriorities, Deliver(id, p)
      PROVE  Queues!QueuesNext
  <2>1. Len(deliveries') = d + 1
    BY <1>0, <1>1 DEF Deliver
  <2>2. Waiting(inbox') = IF id \in delivered THEN Waiting(inbox) ELSE Waiting(inbox) \cup {Mail(id, p, d + 1)}
    <3>1. CASE id \in delivered
      BY <3>1, <1>1 DEF Deliver, IsEnvelopeDelivered
    <3>2. CASE id \notin delivered
      <4>1. inbox' = PushInbox(inbox, Mail(id, p, d + 1))
        BY <3>2, <1>1 DEF Deliver, IsEnvelopeDelivered
      <4> HIDE DEF d
      <4>2. Waiting(PushInbox(inbox, Mail(id, p, d + 1))) = Waiting(inbox) \cup {Mail(id, p, d + 1)}
        BY <3>2, <1>0, SoundPush
      <4> QED BY <4>1, <4>2, <3>2
    <3> QED BY <3>1, <3>2
  <2>3. Queues!Arrive(id, p)
    BY <2>1, <2>2, <1>1 DEF Queues!Arrive, Queues!Envelope, Mail, Deliver, Waiting
  <2> QED BY <2>3 DEF Queues!QueuesNext
<1>2. CASE PopInbox
  <2>1. inbox \in Seq(Envelopes) /\ SortedInbox(inbox) /\ inbox # <<>>
    BY <1>0, <1>2 DEF SoundInbox, PopInbox
  <2>2. /\ Head(inbox) \in Waiting(inbox) /\ Waiting(Tail(inbox)) = Waiting(inbox) \ {Head(inbox)}
        /\ \A o \in Waiting(inbox) \ {Head(inbox)} : Ahead(Head(inbox), o)
    BY <2>1, PopKeepsOrder
  <2>3. Queues!Take(Head(inbox))
    BY <2>2, <1>2 DEF Queues!Take, Queues!Precedes, Outranks, Ahead, PopInbox
  <2> QED BY <2>2, <2>3 DEF Queues!QueuesNext
<1>3. CASE CaptureSnapshot
  <2>1. Queues!Keep
    BY <1>3 DEF Queues!Keep, CaptureSnapshot
  <2> QED BY <2>1 DEF Queues!QueuesNext
<1>4. CASE RestoreFromSnapshot
  <2>1. Queues!BringBack
    BY <1>4 DEF Queues!BringBack, RestoreFromSnapshot, Restored
  <2> QED BY <2>1 DEF Queues!QueuesNext
<1>5. CASE UNCHANGED mailVars
  BY <1>5 DEF mailVars, Queues!queueVars, Waiting
<1> QED BY <1>1, <1>2, <1>3, <1>4, <1>5 DEF MailboxNext

\* The list of push_inbox, pop_inbox and the snapshots implements the set of
\* PriorityQueues: the front is always the oldest of the most urgent envelopes.
THEOREM InboxImplementsQueues == MailboxSpec => ImplementsQueues
<1>1. MailboxInit => Queues!QueuesInit
  <2> SUFFICES ASSUME MailboxInit PROVE Queues!QueuesInit
    OBVIOUS
  <2>1. inbox = <<>> /\ saved.inbox = <<>> /\ deliveries = <<>> /\ delivered = {} /\ saved.delivered = {}
    BY DEF MailboxInit
  <2>2. Waiting(<<>>) = {}
    BY DEF Waiting
  <2> QED BY <2>1, <2>2 DEF Queues!QueuesInit
<1>2. MailboxInv /\ [MailboxNext]_mailVars => [Queues!QueuesNext]_(Queues!queueVars)
  BY QueuesStep
<1> QED BY <1>1, <1>2, InboxStaysSorted, PTL DEF MailboxSpec, ImplementsQueues, Queues!QueuesSpec
=============================================================================
