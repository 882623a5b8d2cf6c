------------------------------- MODULE Startup -------------------------------
(***************************************************************************)
(* How the runtime process starts (wacp-runtime: main.rs, config.rs,       *)
(* config_env.rs, logging.rs, health.rs, metrics.rs, tls.rs, init.rs).     *)
(*                                                                         *)
(* The configuration comes from one file or the defaults, environment      *)
(* variables replace single fields, the result is validated, and then the  *)
(* subsystems start one after the other.  Every server is a spawned task   *)
(* that binds its address later, on its own; when the bind fails only the  *)
(* task panics.                                                            *)
(***************************************************************************)
EXTENDS Naturals, FiniteSets

CONSTANT MaxFaults   \* disk faults met during one start

VARIABLES
  inputs,    \* what the process was started with
  cfg,       \* the RuntimeConfig, once loaded
  stage,     \* the step cmd_serve is at
  code,      \* the exit code, 0 until a failure
  health,    \* the shared AtomicU8: "starting", "ready" or "draining"
  servers,   \* [Listeners -> "none", "spawned", "listening" or "dead"]
  done,      \* the initialisation steps that finished
  faults

startVars == <<inputs, cfg, stage, code, health, servers, done, faults>>

GrpcListeners == {"agent", "highway", "coordinator"}

Listeners == GrpcListeners \cup {"rest", "metrics", "health"}

\* The fields of RuntimeConfig some step depends on, with the values that make
\* a difference.  "junk" is text that does not parse as the field's type.
Values ==
  [tls |-> {"off", "on", "junk"}, cert |-> {"unset", "good", "absent", "garbled"},
   provider |-> {"psk", "external", "other"}, url |-> {"unset", "http", "ftp"},
   dir |-> {"unset", "ok", "blocked"},
   agent |-> {"p1", "p2", "any2", "nonsense"}, highway |-> {"p2"}, coordinator |-> {"p3"},
   rest |-> {"p4", "p1", "nonsense"}, metrics |-> {"p5", "p4", "nonsense"},
   health |-> {"p6", "p5", "nonsense"},
   metricsOn |-> {"off", "on", "junk"}, healthOn |-> {"off", "on"},
   segment |-> {"some", "zero", "junk"}, retries |-> {"some", "zero"}, backoff |-> {"some", "zero"},
   level |-> {"info", "loud"}, output |-> {"stderr", "file"}, logfile |-> {"unset", "ok", "blocked"},
   cold |-> {"indefinite", "days", "zero"}, taxonomy |-> {"unset", "good", "invalid", "absent"}]

Fields == DOMAIN Values

\* Fields of a numeric or Boolean type: an override that does not parse fails.
Parsed == {"tls", "metricsOn", "healthOn", "segment", "retries", "backoff"}

Default ==
  [tls |-> "off", cert |-> "unset", provider |-> "psk", url |-> "unset", dir |-> "ok",
   agent |-> "p1", highway |-> "p2", coordinator |-> "p3", rest |-> "p4",
   metrics |-> "p5", health |-> "p6", metricsOn |-> "off", healthOn |-> "on",
   segment |-> "some", retries |-> "some", backoff |-> "some", level |-> "info",
   output |-> "stderr", logfile |-> "unset", cold |-> "indefinite", taxonomy |-> "unset"]

Change == UNION {{f} \X (Values[f] \ {Default[f]}) : f \in Fields}

\* The start-up inputs: the file that is found (by argument, WACP_CONFIG or in
\* the working directory) with the one field it changes, or none; and one WACP_
\* variable, which may put back what the file changed.  A variable whose path
\* is unknown ("none") is ignored.
Inputs ==
  LET Files == [found : {"no", "unreadable"}, file : {<<"dir", "ok">>}]
                 \cup [found : {"yes"}, file : Change]
      Envs(x) == Change \cup {<<"none", "junk">>, <<x.file[1], Default[x.file[1]]>>}
  IN  UNION {{[found |-> x.found, file |-> x.file, env |-> e] : e \in Envs(x)} : x \in Files}

-----------------------------------------------------------------------------
(* RuntimeConfig::load                                                     *)

\* The file's content, or the defaults when no file is named or found.
FileConfig(in) == IF in.found = "no" THEN Default ELSE [Default EXCEPT ![in.file[1]] = in.file[2]]

\* read_to_string and serde: a value of the wrong type fails the parse.
FileOk(in) == in.found = "no" \/ (in.found = "yes" /\ in.file[2] # "junk")

OverrideOk(in) == in.env[1] \in Parsed => in.env[2] # "junk"

ApplyOverride(c, in) == IF in.env[1] \in Fields THEN [c EXCEPT ![in.env[1]] = in.env[2]] ELSE c

TlsComplete(c) == c.tls = "on" => c.cert # "unset"

AuthComplete(c) == c.provider = "external" => c.url = "http"

DataDirNamed(c) == c.dir # "unset"

\* The listeners whose addresses are compared: the observability endpoints
\* only when they are enabled.
Compared(c) ==
  GrpcListeners \cup {"rest"} \cup (IF c.metricsOn = "on" THEN {"metrics"} ELSE {})
    \cup (IF c.healthOn = "on" THEN {"health"} ELSE {})

\* The addresses are compared as text.
AddressesUnique(c) == \A l, m \in Compared(c) : l # m => c[l] # c[m]

NumbersInRange(c) == c.segment # "zero" /\ (c.retries = "some" => c.backoff # "zero")

EnumsKnown(c) == c.provider \in {"psk", "external"} /\ c.level # "loud"

LogFileNamed(c) == c.output = "file" => c.logfile # "unset"

ColdRetentionOk(c) == c.cold # "zero"

Valid(c) ==
  /\ TlsComplete(c) /\ AuthComplete(c) /\ DataDirNamed(c) /\ AddressesUnique(c)
  /\ NumbersInRange(c) /\ EnumsKnown(c) /\ LogFileNamed(c) /\ ColdRetentionOk(c)

\* A plausible bug: the file is validated before the environment is applied.
Mutant_ValidateFirst(in) ==
  FileOk(in) /\ OverrideOk(in) /\ Valid(FileConfig(in))

LoadOk(in) ==
  FileOk(in) /\ OverrideOk(in) /\ Valid(ApplyOverride(FileConfig(in), in))

LoadedConfig(in) == ApplyOverride(FileConfig(in), in)

\* load_taxonomy: no file is the empty taxonomy.
TaxonomyOk(c) == c.taxonomy \in {"unset", "good"}

\* A plausible bug: `validate' does not open the taxonomy.
Mutant_ConfigOnly(in) == LoadOk(in)

\* cmd_validate: the verdict on the same inputs, without starting anything.
ValidateSays(in) == LoadOk(in) /\ TaxonomyOk(LoadedConfig(in))

-----------------------------------------------------------------------------
(* cmd_serve                                                               *)

Exit(c) == stage' = "exited" /\ code' = c /\ servers' = [l \in Listeners |-> "none"]

Load ==
  /\ stage = "load"
  /\ IF LoadOk(inputs)
     THEN cfg' = LoadedConfig(inputs) /\ stage' = "logging" /\ UNCHANGED <<code, servers>>
     ELSE Exit(1) /\ UNCHANGED cfg
  /\ UNCHANGED <<inputs, health, done, faults>>

\* A step that may fail: it goes on to `next', or ends the process with `c'.
Attempt(from, ok, next, c) ==
  /\ stage = from
  /\ IF ok THEN stage' = next /\ done' = done \cup {from} /\ UNCHANGED <<code, servers>>
     ELSE Exit(c) /\ UNCHANGED done
  /\ UNCHANGED <<inputs, cfg, health>>

\* init_logging: the file is opened for appending.
LogOpens(c) == c.output = "file" => c.logfile = "ok"

InitLogging == Attempt("logging", LogOpens(cfg), "health", 1) /\ UNCHANGED faults

\* start_health_server, start_metrics_server: the address is parsed here, and
\* bound later by the task.
StartObservability(l, flag, next) ==
  /\ stage = l
  /\ IF cfg[flag] # "on" THEN stage' = next /\ UNCHANGED <<code, servers>>
     ELSE IF cfg[l] = "nonsense" THEN Exit(3)
     ELSE stage' = next /\ servers' = [servers EXCEPT ![l] = "spawned"] /\ UNCHANGED code
  /\ UNCHANGED <<inputs, cfg, health, done, faults>>

\* A plausible bug: the services are started before the trail is recovered.
Mutant_ServeFirst(s) ==
  [dirs |-> "taxonomy", taxonomy |-> "tls", tls |-> "serve", serve |-> "trail", trail |-> "recovery",
   recovery |-> "index", index |-> "checkpoints", checkpoints |-> "ready"][s]

\* The order of Runtime::init.
After(s) ==
  [dirs |-> "taxonomy", taxonomy |-> "trail", trail |-> "recovery", recovery |-> "index",
   index |-> "checkpoints", checkpoints |-> "tls", tls |-> "serve", serve |-> "ready"][s]

\* A disk fault makes a storage step fail.
Storage(from, ok) ==
  \/ Attempt(from, ok, After(from), 2) /\ UNCHANGED faults
  \/ faults < MaxFaults /\ Attempt(from, FALSE, After(from), 2) /\ faults' = faults + 1

CreateDirs == Storage("dirs", cfg.dir = "ok")
LoadTaxonomy == Attempt("taxonomy", TaxonomyOk(cfg), After("taxonomy"), 1) /\ UNCHANGED faults
RecoverTrail == \E s \in {"trail", "recovery", "index", "checkpoints"} : Storage(s, TRUE)

\* build_tls_config reads the files; what is in them is looked at by the tasks.
BuildTls == Attempt("tls", cfg.tls = "on" => cfg.cert # "absent", After("tls"), 3) /\ UNCHANGED faults

\* start_grpc_server and the REST gateway: four addresses are parsed, four
\* tasks are spawned.
StartServers ==
  /\ stage = "serve"
  /\ IF \E l \in GrpcListeners \cup {"rest"} : cfg[l] = "nonsense"
     THEN Exit(3) /\ UNCHANGED done
     ELSE /\ servers' = [l \in Listeners |->
                          IF l \in GrpcListeners \cup {"rest"} THEN "spawned" ELSE servers[l]]
          /\ stage' = After("serve") /\ done' = done \cup {"serve"} /\ UNCHANGED code
  /\ UNCHANGED <<inputs, cfg, health, faults>>

\* The wildcard address of a port overlaps the port's other addresses.
Overlap(a, b) == a = b \/ {a, b} = {"p2", "any2"}

GrpcTls(l) == l \in GrpcListeners /\ cfg.tls = "on"

\* The task of a server: it applies the TLS identity, then binds.  Either may
\* fail, and the task panics alone.
Bind(l) ==
  /\ servers[l] = "spawned"
  /\ \E bound \in BOOLEAN :
       /\ bound => /\ ~\E m \in Listeners : servers[m] = "listening" /\ Overlap(cfg[l], cfg[m])
                   /\ GrpcTls(l) => cfg.cert = "good"
       /\ servers' = [servers EXCEPT ![l] = IF bound THEN "listening" ELSE "dead"]
  /\ UNCHANGED <<inputs, cfg, stage, code, health, done, faults>>

MarkReady ==
  /\ stage = "ready" /\ stage' = "run" /\ health' = "ready"
  /\ UNCHANGED <<inputs, cfg, code, servers, done, faults>>

\* run() returns, and only then the state is set to draining.
RunReturns ==
  /\ stage = "run" /\ stage' = "drain" /\ health' = "draining"
  /\ UNCHANGED <<inputs, cfg, code, servers, done, faults>>

ServeReturns == stage = "drain" /\ Exit(0) /\ UNCHANGED <<inputs, cfg, health, done, faults>>

\* What /healthz and /v1/health answer.
HealthAnswer == IF health = "ready" THEN 200 ELSE 503

StartupInit ==
  /\ inputs \in Inputs
  /\ cfg = Default /\ stage = "load" /\ code = 0 /\ health = "starting"
  /\ servers = [l \in Listeners |-> "none"] /\ done = {} /\ faults = 0

StartupNext ==
  \/ Load \/ InitLogging
  \/ StartObservability("health", "healthOn", "metrics")
  \/ StartObservability("metrics", "metricsOn", "dirs")
  \/ CreateDirs \/ LoadTaxonomy \/ RecoverTrail \/ BuildTls \/ StartServers
  \/ \E l \in Listeners : Bind(l)
  \/ MarkReady \/ RunReturns \/ ServeReturns

StartupSpec == StartupInit /\ [][StartupNext]_startVars

-----------------------------------------------------------------------------
(* Properties                                                              *)

\* No two servers of a started process are ever given the same address: a
\* collision is refused whichever of the file and the environment brought it
\* (validate_address_uniqueness after apply_env_overrides).
NeverSelfCollides ==
  \A l, m \in Listeners :
    l # m /\ servers[l] # "none" /\ servers[m] # "none" => cfg[l] # cfg[m]

\* A service port accepts calls only when the trail of the previous run was
\* replayed and the stores are open: nobody talks to a runtime that may still
\* find its history broken.
ServesOnlyRecovered ==
  \A l \in GrpcListeners \cup {"rest"} :
    servers[l] = "listening" => {"dirs", "taxonomy", "trail", "recovery", "index", "checkpoints"} \subseteq done

\* What `validate' accepts, `serve' refuses with the configuration's exit code
\* only when it cannot write its log; and what got past the taxonomy, `validate'
\* accepts.
ValidateAgrees ==
  /\ code = 1 => ~ValidateSays(inputs) \/ ~LogOpens(LoadedConfig(inputs))
  /\ "taxonomy" \in done => ValidateSays(inputs)

\* "Mark ready after all subsystems initialized.": while the endpoint answers
\* 200, every gRPC service is listening.
ReadyMeansListening ==
  HealthAnswer = 200 => \A l \in GrpcListeners : servers[l] = "listening"

\* A process that serves has servers that do not collide and a replayed trail,
\* and `validate' foretells what `serve' does.
StartSound == NeverSelfCollides /\ ServesOnlyRecovered /\ ValidateAgrees
=============================================================================
