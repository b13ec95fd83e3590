------------------------------ MODULE PagedList ------------------------------
(* A filtered list read page by page with useInfiniteQuery, newest row       *)
(* first: the contact directory and the audit activity.                      *)
(* frontend/src/routes/_layout/audit.tsx, directory.tsx, over the keyset     *)
(* pagination of backend/app/api/routes/audit.py and contacts.py.            *)
EXTENDS Naturals, Sequences, SequencesExt, FiniteSets, FiniteSetsExt

CONSTANTS
    Classes,     \* what rows are filtered by: the action of an event
    All,         \* the empty filter
    Filters,     \* what is typed into the search field
    PageSize,    \* "limit", 50 in fdeApi.ts
    None

ASSUMPTION PageSizeIsPositive == PageSize \in Nat \ {0}
ASSUMPTION FiltersMatch == All \notin Classes /\ All \in Filters /\ Filters \subseteq Classes \cup {All}

VARIABLES
    rows,        \* the table: the class of each row, in order of created_at, id
    committed,   \* the rows whose transaction has ended; created_at is set before
    filter,      \* the text in the search field
    deferred,    \* useDeferredValue: the filter of the query key in use
    cache,       \* cache[f]: pages fetched for filter f, None: no data
    failed,      \* failed[f]: the last fetch for f ended in an error
    reading      \* reading[f]: the fetch for f under way

list == <<filter, deferred, cache, failed, reading>>

\* Pages of row numbers; more: a next_cursor came with the last of them;
\* asof: the rows there were when the first was read.
Fetched == [pages : Seq(Seq(Nat)), more : BOOLEAN, asof : SUBSET Nat]

\* "all": the pages from the first on are read anew, as many as there were;
\* "next": one more page.
Reading == [kind : {"all", "next"}, pages : Seq(Seq(Nat)), goal : Nat,
            asof : SUBSET Nat]

ListTypeOK ==
    /\ rows \in Seq(Classes)
    /\ committed \subseteq DOMAIN rows
    /\ filter \in Filters
    /\ deferred \in Filters
    /\ \A f \in Filters : /\ cache[f] # None => cache[f] \in Fetched
                          /\ failed[f] \in BOOLEAN
                          /\ reading[f] # None => reading[f] \in Reading

ListInit ==
    /\ rows = <<>>
    /\ committed = {}
    /\ filter = All
    /\ deferred = All
    /\ cache = [f \in Filters |-> None]
    /\ failed = [f \in Filters |-> FALSE]
    /\ reading = [f \in Filters |-> None]
---------------------------------------------------------------------------
(* The server                                                               *)

Matches(f, i) == f \in {All, rows[i]}

\* ORDER BY created_at DESC, id DESC
NewestFirst(S) ==
    CHOOSE s \in [1..Cardinality(S) -> S] : \A i, j \in DOMAIN s : i < j => s[i] > s[j]

\* Mutant: another page is announced for two more rows, not for one.
PageMissingLast(f, below) ==
    LET sorted == NewestFirst({i \in committed : i < below /\ Matches(f, i)})
    IN  [rows |-> SubSeq(sorted, 1, Min({PageSize, Len(sorted)})),
         more |-> Len(sorted) > PageSize + 1]

\* list_audit_events, list_contacts: "limit" rows below the cursor, and
\* whether there are more.
Page(f, below) ==
    LET sorted == NewestFirst({i \in committed : i < below /\ Matches(f, i)})
    IN  [rows |-> SubSeq(sorted, 1, Min({PageSize, Len(sorted)})),
         more |-> Len(sorted) > PageSize]

\* Mutant: the row of the cursor is read again (<= for <).
CursorInclusive(pages) ==
    IF pages = <<>> THEN Len(rows) + 1 ELSE Last(Last(pages)) + 1

\* next_cursor: the last row of the page before; none for the first page.
Cursor(pages) == IF pages = <<>> THEN Len(rows) + 1 ELSE Last(Last(pages))
---------------------------------------------------------------------------
(* The query                                                                *)

StartAll(f) ==
    [kind |-> "all", pages |-> <<>>, asof |-> {},
     goal |-> IF cache[f] = None THEN 1 ELSE Len(cache[f].pages)]

Joining(f) == [reading EXCEPT ![f] = IF @ = None THEN StartAll(f) ELSE @]

Type(f) ==
    /\ filter' = f
    /\ UNCHANGED <<rows, committed, deferred, cache, failed, reading>>

\* The deferred render: the key changes, and its query is read (again).
Defer ==
    /\ deferred # filter
    /\ deferred' = filter
    /\ reading' = Joining(filter)
    /\ UNCHANGED <<rows, committed, filter, cache, failed>>

\* The window regains the focus; or Retry, offered in place of the rows after an
\* error, which starts over what is under way once there are rows.
Reread ==
    /\ \/ reading' = Joining(deferred)
       \/ /\ failed[deferred] /\ cache[deferred] # None
          /\ reading' = [reading EXCEPT ![deferred] = StartAll(deferred)]
    /\ UNCHANGED <<rows, committed, filter, deferred, cache, failed>>

Rows(f) == IF cache[f] = None THEN <<>> ELSE FlattenSeq(cache[f].pages)

FetchingNext(f) == IF reading[f] = None THEN FALSE ELSE reading[f].kind = "next"

\* "Load more": it cancels a fetch of all pages that is under way.
LoadMore ==
    /\ cache[deferred] # None /\ ~failed[deferred]
    /\ cache[deferred].more
    /\ ~FetchingNext(deferred)
    /\ reading' = [reading EXCEPT ![deferred] =
          [kind |-> "next", pages |-> cache[deferred].pages, goal |-> 1,
           asof |-> cache[deferred].asof]]
    /\ UNCHANGED <<rows, committed, filter, deferred, cache, failed>>

\* A page is answered.  What the server read is what arrives; that rows may
\* have been added meanwhile makes no difference to the pages.
ReadPage(f) ==
    /\ reading[f] # None
    /\ LET r == reading[f]
           page == Page(f, Cursor(r.pages))
           pages == Append(r.pages, page.rows)
           asof == IF r.pages = <<>> THEN committed ELSE r.asof
       IN  IF r.kind = "all" /\ page.more /\ Len(pages) < r.goal
           THEN /\ reading' = [reading EXCEPT ![f].pages = pages, ![f].asof = asof]
                /\ UNCHANGED <<cache, failed>>
           ELSE /\ reading' = [reading EXCEPT ![f] = None]
                /\ cache' = [cache EXCEPT ![f] =
                      [pages |-> pages, more |-> page.more, asof |-> asof]]
                /\ failed' = [failed EXCEPT ![f] = FALSE]
    /\ UNCHANGED <<rows, committed, filter, deferred>>

\* The pages there were are kept.
ReadFails(f) ==
    /\ reading[f] # None
    /\ reading' = [reading EXCEPT ![f] = None]
    /\ failed' = [failed EXCEPT ![f] = TRUE]
    /\ UNCHANGED <<rows, committed, filter, deferred, cache>>

Unwatched == \E f \in Filters : ReadPage(f) \/ ReadFails(f)

ListStep ==
    \/ Unwatched
    \/ \E f \in Filters : Type(f)
    \/ Defer \/ Reread \/ LoadMore
---------------------------------------------------------------------------
(* Properties                                                               *)

\* However pages, refreshes and rows committed late interleave, no row is shown
\* twice and the order is that of the table (audit.tsx:27-34).
RowsOnceInOrder ==
    \A f \in Filters :
        \A i, j \in DOMAIN Rows(f) : i < j => Rows(f)[i] > Rows(f)[j]

\* Every row there was when the first page was read is shown, unless it lies below
\* the last row shown and older rows are still offered (audit.tsx:138-148).
NothingSkipped ==
    \A f \in Filters : cache[f] # None =>
        \A i \in cache[f].asof : Matches(f, i) =>
            \/ Contains(Rows(f), i)
            \/ cache[f].more /\ i < Last(Rows(f))
=============================================================================
