------------------------------ MODULE MCStorage ------------------------------
(***************************************************************************)
(* Model-checking instance of the storage layer.  `part' is chosen once:   *)
(* the trail with crashes and recovery, the trail under tiering, the file  *)
(* stores, or the clock.                                                   *)
(***************************************************************************)
EXTENDS Tiers, Blobs, Clock

VARIABLES part, steps

storageVars == <<part, steps, trailVars, tierVars, blobVars, clockVars>>

\* Bounds on the number of operations of a behaviour.
MaxSteps == [trail |-> 7, tiers |-> 9, blobs |-> 9, clock |-> 9]

\* The trail's own part has many kinds of events and shorter trails.
TrailLog == 3

\* Tiering does not look into events: one kind is enough there.
PlainEvent == CHOOSE e \in Event : TRUE

MCInit ==
  /\ part \in {"trail", "tiers", "blobs", "clock"}
  /\ steps = 0
  /\ TrailInit /\ TiersInit /\ BlobsInit
  /\ IF part = "clock" THEN ClockInit
     ELSE /\ wall = [n \in Nodes |-> 0]
          /\ last = [n \in Nodes |-> Zero] /\ sent = {}

MCNext ==
  /\ UNCHANGED part
  /\ steps < MaxSteps[part] /\ steps' = steps + 1
  /\ \/ /\ part = "trail" /\ TrailNext /\ Len(log') <= TrailLog
        /\ UNCHANGED <<tierVars, blobVars, clockVars>>
     \/ /\ part = "tiers" /\ TiersNext
        /\ log' # log => Last(log') = PlainEvent
        /\ UNCHANGED <<blobVars, clockVars>>
     \/ /\ part = "blobs" /\ BlobsNext
        /\ UNCHANGED <<trailVars, tierVars, clockVars>>
     \/ /\ part = "clock" /\ ClockNext
        /\ UNCHANGED <<trailVars, tierVars, blobVars>>

MCSpec == MCInit /\ [][MCNext]_storageVars

Symmetry == Permutations(Nodes) \cup Permutations(Payloads)
=============================================================================
