------------------------------- MODULE TaskFsm -------------------------------
(***************************************************************************)
(* The task lifecycle (crate wacp-fsm): legal (status, trigger, status)    *)
(* edges.  Integrated and Cancelled are terminal; Failed may be assigned   *)
(* again.                                                                  *)
(***************************************************************************)

TaskStates ==
  {"Draft", "Pending", "Assigned", "InProgress", "Completed", "Integrated",
   "Failed", "Cancelled"}

TaskEdges ==
  {<<"Draft", "Approve", "Pending">>,
   <<"Pending", "Assign", "Assigned">>,
   <<"Assigned", "Start", "InProgress">>,
   <<"InProgress", "Complete", "Completed">>,
   <<"InProgress", "Fail", "Failed">>,
   <<"Completed", "Integrate", "Integrated">>,
   <<"Completed", "Fail", "Failed">>,
   <<"Failed", "Assign", "Assigned">>}
  \cup {<<s, "Cancel", "Cancelled">> :
           s \in {"Draft", "Pending", "Assigned", "InProgress"}}

TaskLegal(state, trigger) ==
  \E to \in TaskStates : <<state, trigger, to>> \in TaskEdges

\* TaskGraph::transition: the new status, or the old one when the FSM refuses.
TaskNext(state, trigger) ==
  IF TaskLegal(state, trigger)
  THEN CHOOSE to \in TaskStates : <<state, trigger, to>> \in TaskEdges
  ELSE state
=============================================================================
