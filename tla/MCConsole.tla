------------------------------ MODULE MCConsole ------------------------------
(***************************************************************************)
(* Model-checking instance of the console's highway and lists.  `part' is  *)
(* chosen once.                                                            *)
(***************************************************************************)
EXTENDS Highway, Paging, TLC

VARIABLE part

mcVars == <<part, highwayVars, pageVars>>

\* One row belongs to somebody else and may be shared.
Foreign == CHOOSE r \in Rows : TRUE

Tables ==
  {t \in [Rows -> [in : BOOLEAN, key : Keys, owner : {"me", "other"}, shared : BOOLEAN]] :
     \A r \in Rows : ((t[r].owner = "other") <=> (r = Foreign)) /\ (t[r].shared => r = Foreign)}

MCInit ==
  /\ part \in {"streams", "sockets", "answers", "lists"}
  /\ HighwayInit
  /\ PagingInit(IF part = "lists" THEN Tables ELSE {IdleTable}) /\ (part # "lists" => kind = "audit")

MCNext ==
  /\ UNCHANGED part
  /\ \/ part = "streams" /\ (StreamNext \/ BreakNext) /\ UNCHANGED pageVars
     \/ part = "sockets" /\ (StreamNext \/ WsNext) /\ UNCHANGED pageVars
     \/ part = "answers" /\ (StreamNext \/ AnswerNext) /\ UNCHANGED pageVars
     \/ part = "lists" /\ PagingNext /\ UNCHANGED highwayVars

MCSpec == MCInit /\ [][MCNext]_mcVars
=============================================================================
