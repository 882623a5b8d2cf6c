-------------------------------- MODULE Paging --------------------------------
(***************************************************************************)
(* The list endpoints of the console: the taxonomy lists (pagination.rs),  *)
(* the pending gates, escalations and refusals of all sessions             *)
(* (highway_pending.rs), and the profiles, sessions and audit entries read *)
(* from the database.  Every page starts behind a cursor, the sort key of  *)
(* the last row the client has; between two pages rows come, go and are    *)
(* renamed.                                                                *)
(***************************************************************************)
EXTENDS Naturals, FiniteSets

CONSTANTS
  Rows,          \* row ids
  Keys,          \* sort keys: names, timestamps; an initial segment of 1, 2, ...
  MaxPage,       \* MAX_LIMIT
  MaxRowChanges  \* inserts, deletes and renames

ASSUME PagingAssumption == IsFiniteSet(Rows) /\ Keys \subseteq Nat \ {0} /\ MaxPage \in Nat

VARIABLES
  kind,      \* the listing
  table,     \* [Rows -> [in : BOOLEAN, key : Keys, owner : {"me", "other"}, shared : BOOLEAN]]
  walk,      \* the client's walk through the pages
  stay,      \* history: the rows visible, with the same key, since the walk began
  seen,      \* history: <<row, key>> of the rows visible at some time during the walk
  rowChanges

pageVars == <<kind, table, walk, stay, seen, rowChanges>>

\* The lists whose sort keys are distinct, since they are keys of a map: names
\* of the taxonomy; session and item id of the pending lists.
Keyed == {"taxonomy", "pending"}

\* The lists that are sorted by a timestamp, newest first.
Newest == {"sessions", "audit"}

Kinds == Keyed \cup Newest \cup {"profiles"}

\* A pending list of one session is refused to all but its owner and the
\* administrators.
MayScope(admin, scope) == admin \/ scope \in {"all", "me"}

\* The rows the caller may see: the taxonomy is everyone's, the audit log an
\* administrator's, a profile its owner's unless it is shared, a session and its
\* pending items its owner's.
Visible(k, admin, scope, t) ==
  {r \in Rows :
     /\ t[r].in
     /\ scope # "all" => t[r].owner = scope
     /\ \/ admin \/ k = "taxonomy" \/ t[r].owner = "me"
        \/ k = "profiles" /\ t[r].shared}

\* A plausible bug: the row the cursor names is part of the next page.
Mutant_Inclusive(k, cursor, key) ==
  cursor = 0 \/ (IF k \in Newest THEN key <= cursor ELSE key >= cursor)

\* Rows behind the cursor (0: none was given, or it does not decode).
Behind(k, cursor, key) ==
  cursor = 0 \/ (IF k \in Newest THEN key < cursor ELSE key > cursor)

\* effective_limit clamps; the database lists take the limit as it is.
EffectiveLimit(k, n) ==
  IF k \notin Keyed THEN n ELSE IF n < 1 THEN 1 ELSE IF n > MaxPage THEN MaxPage ELSE n

\* Sorting leaves the order of equal keys open: a page is any choice of the
\* first rows that no row outside of it precedes.
Pages(k, rest, limit, t) ==
  {p \in SUBSET rest :
     /\ Cardinality(p) = IF Cardinality(rest) < limit THEN Cardinality(rest) ELSE limit
     /\ \A a \in p, b \in rest \ p : IF k \in Newest THEN t[a].key >= t[b].key ELSE t[a].key <= t[b].key}

\* The key of a page's last row, as a set of one.
LastKeys(k, p, t) ==
  {t[r].key : r \in {r \in p : \A q \in p : IF k \in Newest THEN t[r].key <= t[q].key
                                          ELSE t[q].key <= t[r].key}}

\* A plausible bug: the cursor is taken from everything that matched, before
\* the page was cut.
Mutant_CursorOfAll(k, p, rest, t) == LastKeys(k, rest, t)

\* The cursor that goes with a page that is not empty.
NextCursor(k, p, rest, t) == LastKeys(k, p, t)

\* has_more, or, where the response has no such field, a page that is not full;
\* the audit log's client goes on until a page is empty.
Finished(k, p, rest, limit) ==
  IF k \in Keyed THEN Cardinality(rest) <= limit
  ELSE IF k = "audit" THEN p = {} ELSE Cardinality(p) < limit

StartWalk ==
  /\ walk.at = "idle"
  /\ \E admin \in IF kind = "audit" THEN {TRUE} ELSE BOOLEAN,
        scope \in IF kind = "pending" THEN {"all", "me", "other"} ELSE {"all"}, n \in 0..MaxPage + 1 :
       /\ MayScope(admin, scope)
       /\ walk' = [at |-> "paging", admin |-> admin, scope |-> scope, limit |-> EffectiveLimit(kind, n),
                   cursor |-> 0, listed |-> [r \in Rows |-> 0]]
       /\ stay' = Visible(kind, admin, scope, table) /\ seen' = {<<r, table[r].key>> : r \in stay'}
  /\ UNCHANGED <<kind, table, rowChanges>>

FetchPage ==
  /\ walk.at = "paging"
  /\ LET rest == {r \in Visible(kind, walk.admin, walk.scope, table) :
                    Behind(kind, walk.cursor, table[r].key)}
     IN  \E p \in Pages(kind, rest, walk.limit, table) :
         \E c \in IF p = {} THEN {walk.cursor} ELSE NextCursor(kind, p, rest, table) :
           walk' = [walk EXCEPT
                     !.listed = [r \in Rows |-> walk.listed[r] + (IF r \in p THEN 1 ELSE 0)],
                     !.cursor = c,
                     !.at = IF p = {} \/ Finished(kind, p, rest, walk.limit) THEN "done" ELSE @]
  /\ UNCHANGED <<kind, table, stay, seen, rowChanges>>

\* A row is inserted, deleted (nothing deletes an audit entry) or, for a
\* profile, renamed.  New sessions and entries carry the time of their insert.
ChangeRow(r) ==
  /\ rowChanges < MaxRowChanges /\ rowChanges' = rowChanges + 1
  /\ \/ /\ ~table[r].in
        /\ \E k \in Keys :
             /\ kind \in Newest => \A q \in Rows : table[q].in => table[q].key <= k
             /\ kind \in Keyed => \A q \in Rows : table[q].in => table[q].key # k
             /\ table' = [table EXCEPT ![r].in = TRUE, ![r].key = k]
     \/ table[r].in /\ kind \notin Newest /\ table' = [table EXCEPT ![r].in = FALSE]
     \/ /\ table[r].in /\ kind = "profiles"
        /\ \E k \in Keys \ {table[r].key} : table' = [table EXCEPT ![r].key = k]
  /\ stay' = stay \ {r}
  /\ seen' = IF walk.at = "idle" THEN seen
             ELSE seen \cup {<<q, table'[q].key>> : q \in Visible(kind, walk.admin, walk.scope, table')}
  /\ UNCHANGED <<kind, walk>>

IdleTable == [r \in Rows |-> [in |-> FALSE, key |-> 1, owner |-> "me", shared |-> FALSE]]

PagingInit(tables) ==
  /\ kind \in Kinds
  /\ table \in {t \in tables : kind \in Keyed =>
                  \A a, b \in Rows : a # b /\ t[a].in /\ t[b].in => t[a].key # t[b].key}
  /\ walk = [at |-> "idle", admin |-> FALSE, scope |-> "all", limit |-> 0, cursor |-> 0,
             listed |-> [r \in Rows |-> 0]]
  /\ stay = {} /\ seen = {} /\ rowChanges = 0

PagingNext == StartWalk \/ FetchPage \/ \E r \in Rows : ChangeRow(r)

PagingSpec(tables) == PagingInit(tables) /\ [][PagingNext]_pageVars

-----------------------------------------------------------------------------
(* Properties                                                              *)

\* Whatever is inserted, deleted or renamed between two pages, a row that keeps
\* its key is listed at most once in a walk (the cursor is exclusive).
ListedAtMostOnce == \A r \in stay : walk.listed[r] <= 1

\* When a walk is over, every row that was there all along was listed, unless
\* another row had the same key (names of two owners, equal timestamps) or the
\* caller asked a database list for no rows at all.
StayersListed ==
  walk.at = "done" /\ walk.limit > 0 =>
    \A r \in stay : \/ walk.listed[r] > 0
                    \/ \E q \in Rows \ {r} : <<q, table[r].key>> \in seen

\* A walk through the pages lists every row that stays, once.
WalkExact == ListedAtMostOnce /\ StayersListed
=============================================================================
