-------------------------------- MODULE Tiers --------------------------------
(***************************************************************************)
(* Storage tiers of the trail: sealed segments are compressed into the     *)
(* warm directory, aged warm files are moved to the cold destination and   *)
(* deleted there beyond retention, and small warm files are merged in      *)
(* pairs.  Compression keeps the bytes: a warm or cold file is the frames  *)
(* of its segment.  A file is aged once a retention period has passed; the *)
(* merge rewrites the lower file in place, which keeps its creation time.  *)
(***************************************************************************)
EXTENDS Trail

CONSTANTS
  HotLimit,      \* TierManager::hot_limit
  SmallFile      \* merge threshold, in frames

ASSUME TiersAssumption == HotLimit \in Nat \ {0} /\ SmallFile \in Nat

VARIABLES
  warm, cold,    \* files of the two tiers: id -> frames
  aged,          \* ids whose warm or cold file is older than retention
  anchor,        \* TierManager::snapshot_anchor, {} = None
  deleted        \* frames removed from the cold tier by retention

tierVars == <<warm, cold, aged, anchor, deleted>>

TiersInit ==
  /\ warm = <<>> /\ cold = <<>> /\ aged = {} /\ anchor = {} /\ deleted = {}

Frames(files) == UNION {ToSet(files[i]) : i \in DOMAIN files}
Without(files, ids) == [i \in DOMAIN files \ ids |-> files[i]]

\* set_snapshot_anchor
SetAnchor(sequence) ==
  /\ anchor' = {sequence}
  /\ UNCHANGED <<trailVars, warm, cold, aged, deleted>>

\* Mutant: the newest segments are moved first.
Mutant_NewestFirst ==
  LET excess == Cardinality(DOMAIN segs) - HotLimit
  IN  {i \in DOMAIN segs : /\ Cardinality({j \in DOMAIN segs : j > i}) < excess
                           /\ \A a \in anchor : i < a}

\* transition_hot_to_warm: of the excess oldest segments, those whose id is
\* below the anchor.  The active segment is listed among them.
HotExcess ==
  LET excess == Cardinality(DOMAIN segs) - HotLimit
  IN  {i \in DOMAIN segs : /\ Cardinality({j \in DOMAIN segs : j < i}) < excess
                           /\ \A a \in anchor : i < a}

HotToWarm ==
  /\ proc.up /\ HotExcess # {}
  /\ warm' = Over(Only(segs, HotExcess), warm)
  /\ segs' = Without(segs, HotExcess)
  /\ aged' = aged \ HotExcess
  /\ UNCHANGED <<proc, log, muddled, snaps, rows, rec, crashes, faults,
                 cold, anchor, deleted>>

\* Mutant: the file is removed before its copy is written.
Mutant_RemoveFirst(done, next) ==
  /\ warm' = Over(Only(segs, done), warm)
  /\ segs' = Without(segs, done \cup {next})

\* The moves before the crash, and the copy of the next file.
PartialMove(done, next) ==
  /\ warm' = Over(Only(segs, done \cup {next}), warm)
  /\ segs' = Without(segs, done)

\* A crash inside the transition: older files moved, the next one copied.
CrashInHotToWarm(next) ==
  /\ Crash /\ next \in HotExcess
  /\ PartialMove({i \in HotExcess : i < next}, next)
  /\ aged' = aged \ {i \in HotExcess : i <= next}
  /\ UNCHANGED <<log, muddled, snaps, rows, rec, faults, cold, anchor, deleted>>

\* Time passes: a file grows older than the retention of its tier.
Age(i) ==
  /\ i \in (DOMAIN warm \cup DOMAIN cold) \ aged
  /\ aged' = aged \cup {i}
  /\ UNCHANGED <<trailVars, warm, cold, anchor, deleted>>

\* transition_warm_to_cold: which files are older than the retention.
OldWarm == DOMAIN warm \cap aged

WarmToCold ==
  /\ OldWarm # {}
  /\ cold' = Over(Only(warm, OldWarm), cold)
  /\ warm' = Without(warm, OldWarm)
  /\ UNCHANGED <<trailVars, aged, anchor, deleted>>

\* cleanup_cold_segments
CleanupCold ==
  LET old == DOMAIN cold \cap aged
  IN  /\ old # {}
      /\ deleted' = deleted \cup Frames(Only(cold, old))
      /\ cold' = Without(cold, old)
      /\ UNCHANGED <<trailVars, warm, aged, anchor>>

\* Mutant: the higher file is put before the lower one.
Mutant_MergeReversed(lower, higher) == higher \o lower

\* decompress both, extend the first with the second
Combined(lower, higher) == lower \o higher

\* The files under the threshold, and how many of them come before one.
Small == {i \in DOMAIN warm : Len(warm[i]) < SmallFile}
Rank(i) == Cardinality({j \in Small : j < i})

\* Two by two in id order: the first with the second, the third with the fourth.
Pairs == {p \in Small \X Small : Rank(p[1]) % 2 = 0 /\ Rank(p[2]) = Rank(p[1]) + 1}
Higher(i) == CHOOSE j \in Small : <<i, j>> \in Pairs

\* merge_warm_segments: each pair into the file with the lower id.
MergeWarm ==
  /\ Pairs # {}
  /\ warm' = [i \in DOMAIN warm \ {p[2] : p \in Pairs} |->
                IF i \in {p[1] : p \in Pairs} THEN Combined(warm[i], warm[Higher(i)]) ELSE warm[i]]
  /\ UNCHANGED <<trailVars, cold, aged, anchor, deleted>>

TiersNext ==
  \/ TrailNext /\ UNCHANGED tierVars
  \/ \E n \in 1..MaxLog : SetAnchor(n)
  \/ \E i \in 0..MaxLog : CrashInHotToWarm(i) \/ Age(i)
  \/ HotToWarm \/ WarmToCold \/ CleanupCold \/ MergeWarm

TiersSpec == TrailInit /\ TiersInit /\ [][TiersNext]_<<trailVars, tierVars>>

---------------------------------------------------------------------------
\* Whatever crashes, an entry once written is in some tier until retention
\* deletes its cold file: no transition loses one.
NoTierLosesEntries ==
  ~muddled =>
    {f.pos : f \in {g \in Frames(segs) \cup Frames(warm) \cup Frames(cold) \cup deleted :
                            ~IsPartial(g)}}
    = 1..Len(log)

\* A merged warm file keeps the order of the trail: positions only grow.
WarmFilesAscend ==
  ~muddled =>
    \A i \in DOMAIN warm : \A k \in 1..Len(warm[i]) - 1 :
      warm[i][k].pos < warm[i][k + 1].pos

\* The segment the process appends to never leaves the hot tier.
ActiveStaysHot == proc.up => proc.active \in DOMAIN segs

\* tiered.rs on snapshot_anchor: segments that hold entries at or after the
\* anchor's sequence stay hot.
AnchorKeepsHot ==
  [][\A a \in anchor : \A i \in DOMAIN segs \ DOMAIN segs' :
        \A f \in ToSet(segs[i]) : f.pos < a]_<<trailVars, tierVars>>

\* Nothing that was written is lost or found in the wrong place, in the hot
\* segments, in the index and in the tiers, whatever crashes in between.
NothingLost ==
  /\ WrittenSurvives /\ IndexPointsAtEntry
  /\ NoTierLosesEntries /\ WarmFilesAscend /\ ActiveStaysHot
=============================================================================
