--------------------------- MODULE DeliveryReads ---------------------------
(***************************************************************************)
(* Reading deliveries while requests write them: DeliveriesService.list    *)
(* with its cursor, and the console's delivery table (DeliveriesPage),     *)
(* whose answers may come in any order.  A client walks the pages of a     *)
(* listing, all deliveries or one status, from the first to the last.      *)
(***************************************************************************)
EXTENDS EndpointApi

CONSTANTS
    PageSize,  \* PAGE_SIZE
    Clicked    \* bound: ids of the rows that the user expands

ASSUME DeliveryReadsAssumption ==
    /\ PageSize \in Nat \ {0}
    /\ IsFiniteSet(Ids)
    /\ Clicked \subseteq Ids

VARIABLES
    filter,   \* the status the walk lists, or None for all
    cursor,   \* the position it has reached
    shown,    \* ids of the rows it was given
    twice,    \* history: some row was given twice
    steady,   \* history: ids that were there and matched since it began
    opened,   \* console: the expanded row
    history,  \* console: the row whose attempts are displayed
    asked     \* console: requests for attempts that are not answered

walkVars    == <<filter, cursor, shown, twice, steady>>
consoleVars == <<opened, history, asked>>
readVars    == <<walkVars, consoleVars>>

\* encodeCursor and decodeCursor keep the time and the id of a row; createdAt has
\* no more than milliseconds, so its ISO form loses nothing.
encodeCursor(d) == [at |-> d.at, id |-> d.id]

\* Positions that no row has: no cursor yet, and nextCursor null.
Begin == [at |-> MaxClock + 1, id |-> 0]
End   == [at |-> 0, id |-> 0]

Matches(d) == filter = None \/ d.status = filter

InitR ==
    /\ Init
    /\ filter \in {None, "DEAD"}
    /\ cursor = End
    /\ shown = {} /\ twice = FALSE /\ steady = {}
    /\ opened = None /\ history = None /\ asked = {}

-----------------------------------------------------------------------------
(* What happens to rows that are listed *)

SetStatus(d, s) ==
    /\ deliveries' = (deliveries \ {d}) \cup {[d EXCEPT !.status = s]}
    /\ steady' = IF filter \in {None, s} THEN steady ELSE steady \ {d.id}
    /\ UNCHANGED <<url, status, subs, req, now, filter, cursor, shown, twice, consoleVars>>

\* process() gives a delivery up.
GiveUp == \E d \in deliveries : d.status = "PENDING" /\ SetStatus(d, "DEAD")

\* DlqPage: redeliver(id), of a row the page shows.
RedeliverRow == \E d \in deliveries : d.status = "DEAD" /\ SetStatus(d, "PENDING")

-----------------------------------------------------------------------------
(* list *)

\* Wrong on purpose: rows of the cursor's own time are left out.
AfterCursorByTime(d, c) == d.at < c.at

\* WHERE: createdAt and id against those of the cursor.
AfterCursor(d, c) == d.at < c.at \/ (d.at = c.at /\ d.id < c.id)

\* ORDER BY createdAt DESC, id DESC: d is listed below r.
Below(d, r) == d.at < r.at \/ (d.at = r.at /\ d.id < r.id)

\* The client asks for the first page.
StartWalk ==
    /\ cursor = End
    /\ cursor' = Begin
    /\ shown' = {}
    /\ twice' = FALSE
    /\ steady' = {d.id : d \in {r \in deliveries : Matches(r)}}
    /\ UNCHANGED <<vars, filter, consoleVars>>

\* One call: PAGE_SIZE + 1 rows are read, the last one only tells that there are
\* more; nextCursor is the last row of the page, or null.
NextPage ==
    LET rows == {d \in deliveries : Matches(d) /\ AfterCursor(d, cursor)}
        page == {d \in rows : Cardinality({r \in rows : Below(d, r)}) < PageSize}
        ids  == {d.id : d \in page}
    IN  /\ cursor # End
        /\ shown' = shown \cup ids
        /\ twice' = (twice \/ shown \cap ids # {})
        /\ IF Cardinality(rows) > PageSize
           THEN \E last \in page : /\ \A d \in page \ {last} : Below(last, d)
                                   /\ cursor' = encodeCursor(last)
           ELSE cursor' = End
        /\ UNCHANGED <<vars, filter, steady, consoleVars>>

-----------------------------------------------------------------------------
(* DeliveriesPage *)

\* Wrong on purpose: marks the row before the answer is there.
ExpandAtOnce(i) ==
    /\ opened' = i
    /\ asked' = asked \cup {i}
    /\ UNCHANGED <<vars, walkVars, history>>

\* expand(id): closes the row that is open, or asks for the attempts of another.
Expand(i) ==
    /\ IF opened = i THEN opened' = None /\ UNCHANGED asked
                     ELSE asked' = asked \cup {i} /\ UNCHANGED opened
    /\ UNCHANGED <<vars, walkVars, history>>

\* The answer: setAttempts and setOpen in one batch, whatever was clicked since.
AttemptsArrive(i) ==
    /\ i \in asked
    /\ asked' = asked \ {i}
    /\ history' = i
    /\ opened' = i
    /\ UNCHANGED <<vars, walkVars>>

\* The request fails: the promise rejects and nothing is set.
AttemptsFail(i) ==
    /\ i \in asked
    /\ asked' = asked \ {i}
    /\ UNCHANGED <<vars, walkVars, opened, history>>

-----------------------------------------------------------------------------
NextR ==
    \/ Next /\ UNCHANGED readVars
    \/ GiveUp \/ RedeliverRow
    \/ StartWalk \/ NextPage
    \/ \E i \in UsedIds \cap Clicked : Expand(i) \/ AttemptsArrive(i) \/ AttemptsFail(i)

SpecR == InitR /\ [][NextR]_<<vars, readVars>>

\* Walking the pages while publishes commit late, rows of one event share their
\* createdAt and rows move in and out of the status that is listed: no row is
\* given twice, and at the end none is missing that was there and matched all the
\* time.
WalkExact == ~twice /\ (cursor = End => steady \subseteq shown)

\* The attempts displayed under an open row are those of that row, in whatever
\* order clicks and answers come.
AttemptsOfOpenRow == opened # None => history = opened
=============================================================================
