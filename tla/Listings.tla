------------------------------- MODULE Listings -------------------------------
(***************************************************************************)
(* The paged listings of bookings, payments and audit entries: a client    *)
(* walks through the pages of a filtered table, newest first, while other  *)
(* requests add rows to it and take rows from it.                          *)
(*                                                                         *)
(* A page is two statements that run at the same time and in either order, *)
(* without a transaction: findMany with skip and take, and count.  A row   *)
(* is its place in the order of creation.                                  *)
(***************************************************************************)
EXTENDS SequencesExt

CONSTANTS Limit,      \* rows on a page
          MaxRows,    \* the rows ever made (a bound)
          MaxReturns  \* how often a row comes back to a filter (a bound)

ASSUME ListingsAssumption ==
    Limit \in Nat \ {0} /\ MaxRows \in Nat /\ MaxReturns \in Nat

VARIABLES
    rows,      \* the rows that pass the filter, newest first
    others,    \* the rows that do not
    made,      \* how many were ever made
    page,      \* the page the client asks for, 0 before the walk
    pending,   \* the statements of that page that have not run
    found,     \* what findMany returned
    total,     \* what count returned
    seen,      \* the rows on the pages that the client got
    done,      \* whether it was told that there is no next page
    returns,   \* how often a row came to the filter after it was made
    throughout, \* history: the rows that have passed the filter since the walk began
    came,      \* history: how many rows came since the walk began
    left,      \* history: how many left from before the end of what was found
    raced,     \* history: how many came between the count of a page and its findMany
    repeated   \* history: how many rows the client got a second time

table == <<rows, others, made, returns>>
moves == <<throughout, came, left, raced>>
vars == <<table, page, pending, found, total, seen, done, moves, repeated>>

Row == 1 .. MaxRows
Statements == {"findMany", "count"}

Init == /\ rows = << >> /\ others = {} /\ made = 0 /\ returns = 0
        /\ page = 0 /\ pending = {} /\ found = << >> /\ total = 0
        /\ seen = {} /\ done = FALSE
        /\ throughout = {} /\ came = 0 /\ left = 0 /\ raced = 0 /\ repeated = 0

-------------------------------------------------------------------------------
(* The other requests *)

Arrive == /\ ~ done
          /\ came' = IF page > 0 THEN came + 1 ELSE came
          /\ raced' = IF pending = {"findMany"} THEN raced + 1 ELSE raced
          /\ UNCHANGED <<page, pending, found, total, seen, done, throughout, left, repeated>>

\* createBooking, createPayment, logAction
Add == /\ made < MaxRows
       /\ made' = made + 1
       /\ rows' = <<made'>> \o rows
       /\ UNCHANGED <<others, returns>>
       /\ Arrive

\* A row gets a status that the filter asks for, and takes the place of its creation.
Enter == /\ returns < MaxReturns
         /\ \E row \in others, place \in 1 .. Len(rows) + 1 :
               /\ \A i \in DOMAIN rows : rows[i] > row <=> i < place
               /\ rows' = InsertAt(rows, place, row)
               /\ others' = others \ {row}
         /\ returns' = returns + 1
         /\ UNCHANGED made
         /\ Arrive

\* Rows no older than one that the walk has come to.
Passed == {row \in Row : \E other \in seen \cup ToSet(found) : row >= other}

Lose(kept) == LET lost == ToSet(rows) \ ToSet(kept)
              IN  /\ ~ done
                  /\ rows' = kept
                  /\ throughout' = throughout \ lost
                  /\ left' = left + Cardinality(Passed \cap lost)
                  /\ UNCHANGED <<made, returns, page, pending, found, total, seen, done, came,
                                 raced, repeated>>

\* A row no longer has the status that the filter asks for.
Leave == \E i \in DOMAIN rows : Lose(RemoveAt(rows, i)) /\ others' = others \cup {rows[i]}

\* cleanupOldLogs, which nothing in the repository calls, deletes the oldest rows.
CleanUpOldLogs == \E oldest \in 1 .. made, kept \in 0 .. Len(rows) :
                     /\ \A i \in DOMAIN rows : rows[i] > oldest <=> i <= kept
                     /\ Lose(SubSeq(rows, 1, kept))
                     /\ others' = {row \in others : row > oldest}

-------------------------------------------------------------------------------
(* A page *)

BeginWalk == /\ page = 0
             /\ page' = 1 /\ pending' = Statements
             /\ throughout' = ToSet(rows)
             /\ UNCHANGED <<table, found, total, seen, done, came, left, raced, repeated>>

\* Faulty: pages are counted from 0.
SkipPages == page * Limit

Skip == (page - 1) * Limit

\* Faulty: one row more, to see whether there is a next page.
TakeOneMore == Limit + 1

Take == Limit

FindMany == /\ "findMany" \in pending
            /\ pending' = pending \ {"findMany"}
            /\ found' = SubSeq(rows, Skip + 1, IF Skip + Take < Len(rows) THEN Skip + Take
                                                                         ELSE Len(rows))
            /\ UNCHANGED <<table, page, total, seen, done, moves, repeated>>

\* Faulty: the last index instead of the number.
CountLast == /\ "count" \in pending
             /\ pending' = pending \ {"count"}
             /\ total' = Len(rows) - 1
             /\ raced' = 0
             /\ UNCHANGED <<table, page, found, seen, done, throughout, came, left, repeated>>

Count == /\ "count" \in pending
         /\ pending' = pending \ {"count"}
         /\ total' = Len(rows)
         /\ raced' = 0
         /\ UNCHANGED <<table, page, found, seen, done, throughout, came, left, repeated>>

HasNext == page * Limit < total

\* The client gets the page, and asks for the next one if there is one.
Answer == /\ page > 0 /\ pending = {} /\ ~ done
          /\ seen' = seen \cup ToSet(found)
          /\ repeated' = repeated + Cardinality(seen \cap ToSet(found))
          /\ found' = << >> /\ total' = 0
          /\ IF HasNext THEN page' = page + 1 /\ pending' = Statements
                        ELSE UNCHANGED <<page, pending>>
          /\ done' = ~ HasNext
          /\ UNCHANGED <<table, moves>>

Next == Add \/ Enter \/ Leave \/ CleanUpOldLogs \/ BeginWalk \/ FindMany \/ Count \/ Answer

Spec == Init /\ [][Next]_vars

-------------------------------------------------------------------------------
(* Properties *)

\* The table, the page and the client's view have the shape the code gives them.
TypeOK == /\ rows \in Seq(Row) /\ found \in Seq(Row)
          /\ others \cup seen \cup throughout \subseteq Row
          /\ made \in 0 .. MaxRows /\ returns \in 0 .. MaxReturns
          /\ {page, total, came, left, raced, repeated} \subseteq Nat
          /\ pending \subseteq Statements
          /\ done \in BOOLEAN

\* A walk that was told there is no next page has missed a row that was there all along
\* only on account of another that left from ahead of the rows it was getting, or that
\* came between the count and the findMany of the last page: one row each and no more.
\* (skip counts rows of the table as it is then, hasNext is computed from the count.)
MissedAtMostShifts == done => Cardinality(throughout \ seen) <= left + raced

\* A client gets a row again only on account of a row that came during its walk, new or
\* newly passing the filter: at most one each, however many pages follow.
RepeatedAtMostCame == repeated <= came
=============================================================================
