------------------------------- MODULE History -------------------------------
(***************************************************************************)
(* The call history: the record store (internal/store/sqlite/sqlite.go),   *)
(* the broker that writes and prunes it (callregistry.go) and a client     *)
(* that reads it page by page with a cursor (history.go), while calls end. *)
(***************************************************************************)
EXTENDS Integers, Sequences, FiniteSets

CONSTANTS
    Records,     \* what may be recorded: [id, session, ended], the ids compared as text
    Session,     \* the session whose history is read
    Limit,       \* rows of a page: historyLimit, or historyExportPageSize
    HistoryCap   \* rows kept

VARIABLES
    stored,   \* the table call_records
    recorded, \* calls that have ended and were written
    pruning,  \* persist is between Insert and Prune
    cursor,   \* the cursor of the next page
    base,     \* the rows when the first page was read
    pages     \* the rows read so far; reading is over when the cursor is Done

historyVars == <<stored, recorded, pruning, cursor, base, pages>>

First == [at |-> "first"]
Done == [at |-> "done"]

\* The id of a call is the primary key of the table.
ASSUME RecordsAssumption ==
    /\ \A r \in Records : r.id \in Int /\ r.ended \in Int
    /\ \A r, q \in Records : r.id = q.id => r = q
    /\ First \notin Records /\ Done \notin Records
    /\ Limit \in Nat \ {0}

HistoryInit ==
    /\ stored = {} /\ recorded = {} /\ pruning = FALSE
    /\ cursor = First /\ base = {} /\ pages = <<>>

\* ORDER BY ended_at DESC, call_id DESC.
Newer(r, q) == r.ended > q.ended \/ (r.ended = q.ended /\ r.id > q.id)

\* Mutant: the cursor compares the times only.
Before_TimeOnly(r, c) == r.ended < c.ended

\* ended_at < ? OR (ended_at = ? AND call_id < ?).
Before(r, c) == Newer(c, r)

\* callRecordStore.List: the rows that match, in order, as far as the limit goes.
List(limit, c) ==
    LET match == {r \in stored : r.session = Session /\ (c = First \/ Before(r, c))}
    IN {recs \in UNION {[1..n -> match] : n \in 0..limit} :
            /\ \A i, j \in 1..Len(recs) : i < j => Newer(recs[i], recs[j])
            /\ \A r \in match :
                \/ \E i \in 1..Len(recs) : recs[i] = r
                \/ Len(recs) = limit /\ \A i \in 1..Len(recs) : Newer(recs[i], r)}

\* persist, once for each call: its time may be older than that of a row written before.
Persist(r) ==
    /\ ~pruning /\ r \notin recorded
    /\ stored' = stored \cup {r} /\ recorded' = recorded \cup {r}
    /\ pruning' = TRUE
    /\ UNCHANGED <<cursor, base, pages>>

\* Prune keeps the newest rows of all sessions; of rows with the same time it may keep any.
Prune ==
    /\ pruning
    /\ \E keep \in SUBSET stored :
        /\ Cardinality(keep) = IF Cardinality(stored) < HistoryCap THEN Cardinality(stored)
                               ELSE HistoryCap
        /\ \A k \in keep, r \in stored \ keep : k.ended >= r.ended
        /\ stored' = keep
    /\ pruning' = FALSE
    /\ UNCHANGED <<recorded, cursor, base, pages>>

\* HistoryRows: one row more than the page tells whether there is another page.
HistoryRows ==
    /\ cursor # Done
    /\ \E recs \in List(Limit + 1, cursor) :
       IF Len(recs) > Limit
       THEN pages' = pages \o SubSeq(recs, 1, Limit) /\ cursor' = recs[Limit]
       ELSE pages' = pages \o recs /\ cursor' = Done
    /\ base' = IF cursor = First THEN stored ELSE base
    /\ UNCHANGED <<stored, recorded, pruning>>

HistoryNext == (\E r \in Records : Persist(r)) \/ Prune \/ HistoryRows

HistorySpec == HistoryInit /\ [][HistoryNext]_historyVars

-----------------------------------------------------------------------------
(* Properties.                                                             *)

\* Reading the history page by page shows every call of the session that was recorded
\* when reading began and still is when it ends, and no call twice, however many calls are
\* recorded and pruned between two pages (HistoryRows, handleHistoryExport).
PagesAreComplete ==
    /\ \A i, j \in 1..Len(pages) : pages[i].id = pages[j].id => i = j
    /\ cursor = Done =>
        \A r \in base \cap stored : r.session = Session => \E i \in 1..Len(pages) : pages[i] = r
=============================================================================
