-------------------------------- MODULE History --------------------------------
(***************************************************************************)
(* Two pages that list the statement lines of a wallet by offset, newest   *)
(* first, while new lines are committed: the PWA's history, which appends  *)
(* page after page, and the agent portal's table, which turns pages and    *)
(* changes filters without waiting for the answer it has asked for.        *)
(***************************************************************************)
EXTENDS Integers, SequencesExt

CONSTANTS
    PageSize,       \* 20 and 25 in the code
    MaxLines,       \* bound: lines of the wallet
    MaxFetches      \* bound: requests of the table

VARIABLES
    book,       \* the lines of the wallet by createdAt, newest first
    scroll,     \* the history page, and the lines there were when it was opened
    table,      \* the table
    fetches,    \* its requests under way
    fetched     \* its requests so far

historyVars == <<book, scroll, table, fetches, fetched>>

HistoryInit ==
    /\ book = << >>
    /\ scroll = [at |-> "closed", lines |-> << >>, hasMore |-> TRUE, old |-> {}]
    /\ table = [open |-> FALSE, page |-> 1, lines |-> << >>, of |-> 0, hasMore |-> FALSE,
                loading |-> TRUE, error |-> FALSE, crossed |-> FALSE]
    /\ fetches = {} /\ fetched = 0

\* A transfer commits its line. Of two that run at once, the later commit may have
\* the earlier createdAt. (Lines of before the pages were opened are as good as those
\* committed before their first answer.)
CommitLine ==
    /\ Len(book) < MaxLines /\ (scroll.at # "closed" \/ table.open)
    /\ \E p \in 1 .. (IF book = << >> THEN 1 ELSE 2) : book' = InsertAt(book, p, Len(book) + 1)
    /\ UNCHANGED <<scroll, table, fetches, fetched>>

\* orderBy createdAt desc, skip, take.
Lines(skip, take) ==
    SubSeq(book, skip + 1, IF skip + take < Len(book) THEN skip + take ELSE Len(book))

(***************************************************************************)
(* The history of the PWA. "Load more" is disabled while a page is loading.*)
(***************************************************************************)
OpenHistory ==
    /\ scroll.at = "closed"
    /\ scroll' = [scroll EXCEPT !.at = "loading"]
    /\ UNCHANGED <<book, table, fetches, fetched>>

\* Mutant: a line more than the page shows is counted as received.
LoadAfterPeek ==
    LET n == Len(scroll.lines)
        more == Lines(IF n = 0 THEN 0 ELSE n + 1, PageSize) IN
    /\ scroll.at = "loading"
    /\ scroll' = [at |-> "shown", lines |-> scroll.lines \o more, hasMore |-> Len(more) = PageSize,
                  old |-> IF n = 0 THEN ToSet(book) ELSE scroll.old]
    /\ UNCHANGED <<book, table, fetches, fetched>>

\* The offset is the number of lines received, repeated ones included.
Load ==
    LET n == Len(scroll.lines)
        more == Lines(n, PageSize) IN
    /\ scroll.at = "loading"
    /\ scroll' = [at |-> "shown", lines |-> scroll.lines \o more, hasMore |-> Len(more) = PageSize,
                  old |-> IF n = 0 THEN ToSet(book) ELSE scroll.old]
    /\ UNCHANGED <<book, table, fetches, fetched>>

\* Any failure leads to the login page.
LeaveForLogin ==
    /\ scroll.at = "loading"
    /\ scroll' = [scroll EXCEPT !.at = "left"]
    /\ UNCHANGED <<book, table, fetches, fetched>>

LoadMore ==
    /\ scroll.at = "shown" /\ scroll.hasMore
    /\ scroll' = [scroll EXCEPT !.at = "loading"]
    /\ UNCHANGED <<book, table, fetches, fetched>>

(***************************************************************************)
(* The table of the agent portal. The effect that fetches runs whenever    *)
(* page or filter change; no request is cancelled.                         *)
(***************************************************************************)
Fetch(page) ==
    /\ fetched < MaxFetches
    /\ fetched' = fetched + 1
    /\ fetches' = fetches \cup {[id |-> fetched', page |-> page, read |-> FALSE, got |-> << >>]}
    /\ table' = [table EXCEPT !.open = TRUE, !.page = page, !.loading = TRUE, !.error = FALSE,
                              !.crossed = @ \/ fetches # {}]
    /\ UNCHANGED <<book, scroll>>

OpenTable == ~ table.open /\ Fetch(1)

\* The buttons are there when rows are, and not while loading; the retry when an error is.
Idle == table.open /\ ~ table.loading
TurnPage ==
    \/ Idle /\ ~ table.error /\ table.lines # << >> /\ table.hasMore /\ Fetch(table.page + 1)
    \/ Idle /\ ~ table.error /\ table.lines # << >> /\ table.page > 1 /\ Fetch(table.page - 1)
    \/ Idle /\ table.error /\ Fetch(table.page)

\* The filters are always there. The server does not know the parameter.
ChangeFilter == table.open /\ Fetch(1)

\* The service asks for one line more than the page shows.
ReadLines(f) ==
    /\ f \in fetches /\ ~ f.read
    /\ fetches' = (fetches \ {f})
                    \cup {[f EXCEPT !.read = TRUE, !.got = Lines((f.page - 1) * PageSize, PageSize + 1)]}
    /\ UNCHANGED <<book, scroll, table, fetched>>

\* Whichever answer comes, it is shown, and the spinner stops.
ShowLines(f) ==
    /\ f \in fetches /\ f.read
    /\ fetches' = fetches \ {f}
    /\ table' = [table EXCEPT !.lines = SubSeq(f.got, 1, IF Len(f.got) < PageSize THEN Len(f.got) ELSE PageSize),
                              !.of = f.page, !.hasMore = Len(f.got) > PageSize, !.loading = FALSE]
    /\ UNCHANGED <<book, scroll, fetched>>

FailFetch(f) ==
    /\ f \in fetches
    /\ fetches' = fetches \ {f}
    /\ table' = [table EXCEPT !.error = TRUE, !.loading = FALSE]
    /\ UNCHANGED <<book, scroll, fetched>>

HistoryNext ==
    \/ CommitLine
    \/ OpenHistory \/ Load \/ LeaveForLogin \/ LoadMore
    \/ OpenTable \/ TurnPage \/ ChangeFilter
    \/ \E f \in fetches : ReadLines(f) \/ ShowLines(f) \/ FailFetch(f)

(***************************************************************************)
(* Properties.                                                             *)
(***************************************************************************)
\* Lines that are committed while somebody reads push others on to the next page:
\* a history read to its end shows every line there was when it was opened, and
\* repeats no more of them than were committed meanwhile. The table shows the lines
\* of the page it names, unless a filter was changed before an answer had come: then
\* the older answer may be the one that stays.
HistoryIsComplete ==
    /\ scroll.at = "shown" /\ ~ scroll.hasMore => scroll.old \subseteq ToSet(scroll.lines)
    /\ Len(scroll.lines) - Cardinality(ToSet(scroll.lines)) <= Len(book) - Cardinality(scroll.old)
    /\ Idle /\ ~ table.error /\ ~ table.crossed => table.of = table.page
=============================================================================
