------------------------------ MODULE MCAccess ------------------------------
(***************************************************************************)
(* Model-checking instance of the start of the runtime process, of its     *)
(* access rules and of the inbox.  `part' is chosen once.                  *)
(***************************************************************************)
EXTENDS Startup, Access, Mailbox, TLC

VARIABLE part

mcVars == <<part, startVars, accessVars, mailVars>>

IdleInputs == [found |-> "no", file |-> <<"dir", "ok">>, env |-> <<"none", "junk">>]

MCInit ==
  /\ part \in {"startup", "taxonomy", "rights", "tokens", "limiter", "filter", "inbox"}
  /\ StartupInit /\ (part # "startup" => inputs = IdleInputs)
  /\ AccessInit(IF part = "taxonomy" THEN Definitions ELSE {EmptyDef})
  /\ MailboxInit

MCNext ==
  /\ UNCHANGED part
  /\ \/ part = "startup" /\ StartupNext /\ UNCHANGED <<accessVars, mailVars>>
     \/ part = "rights" /\ RightsNext /\ UNCHANGED <<startVars, mailVars>>
     \/ part = "tokens" /\ CredentialNext /\ UNCHANGED <<startVars, mailVars>>
     \/ part = "limiter" /\ LimiterNext /\ UNCHANGED <<startVars, mailVars>>
     \/ part = "filter" /\ FilterNext /\ UNCHANGED <<startVars, mailVars>>
     \/ part = "inbox" /\ MailboxNext /\ UNCHANGED <<startVars, accessVars>>

MCSpec == MCInit /\ [][MCNext]_mcVars

Symmetry == Permutations(Spaces) \cup Permutations(Ips) \cup Permutations(Letters)
=============================================================================
