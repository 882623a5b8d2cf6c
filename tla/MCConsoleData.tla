---------------------------- MODULE MCConsoleData ----------------------------
(***************************************************************************)
(* Model-checking instance of what the console keeps in its database:      *)
(* profiles, session configurations, accounts; and of its taxonomy index.  *)
(* `part' is chosen once.                                                  *)
(***************************************************************************)
EXTENDS Profiles, Accounts, Catalog, TLC

VARIABLE part

dataVars == <<profileVars, configVars, accountVars, bootVars>>

mcVars == <<part, dataVars, catalogVars, toolingVars>>

\* In part "accounts" every client holds the cookie of another administrator.
SignedInAs == CHOOSE as \in [Clients -> Admins] : \A c, d \in Clients : as[c] = as[d] => c = d

\* Reloads and deployments while profiles are saved and a session launched.
UseReloads == 2

MCInit ==
  /\ part \in {"profiles", "config", "logins", "accounts", "boot", "catalog", "use", "tooling", "dialing"}
  /\ ProfilesInit /\ ConfigInit /\ BootInit
  /\ CatalogInit /\ ToolingInit /\ (part \notin {"catalog", "use"} => world = [v \in Verticals |-> Gone])
  /\ AccountsInit(IF part = "accounts" THEN Clients ELSE {}, SignedInAs)

MCNext ==
  /\ UNCHANGED part
  /\ \/ part = "profiles" /\ ProfilesNext /\ UNCHANGED <<accountVars, bootVars, catalogVars, toolingVars>>
     \/ part = "config" /\ ConfigNext /\ UNCHANGED <<accountVars, bootVars, catalogVars, toolingVars>>
     \/ part = "logins" /\ (LoginNext \/ CallNext) /\ UNCHANGED <<profileVars, configVars, catalogVars, toolingVars>>
     \/ part = "accounts" /\ CallNext /\ UNCHANGED <<profileVars, configVars, catalogVars, toolingVars>>
     \/ part = "boot" /\ BootNext /\ UNCHANGED <<profileVars, configVars, catalogVars, toolingVars>>
     \/ part = "catalog" /\ ReloadNext /\ UNCHANGED dataVars
     \/ part = "use" /\ (ReloadNext \/ UseNext) /\ reloads' <= UseReloads /\ UNCHANGED dataVars
     \/ part = "tooling" /\ hits = NoSearch /\ exported = NoExport /\ (Search \/ ExportImport) /\ UNCHANGED dataVars
     \/ part = "dialing" /\ DialNext /\ UNCHANGED dataVars

MCSpec == MCInit /\ [][MCNext]_mcVars
=============================================================================
