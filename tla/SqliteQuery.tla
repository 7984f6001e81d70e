----------------------------- MODULE SqliteQuery -----------------------------
(***************************************************************************)
(* utils::db::sqlite: a query is put together by a chain of calls          *)
(* (db_where_t.hpp), go() writes it out, prepares it and binds its values  *)
(* (db_select.cpp, db_update.cpp, db_delete.cpp), and a db_result steps    *)
(* through its rows (db_common.cpp).                                       *)
(*                                                                         *)
(* The text of the query and the values bound to it are kept apart: the    *)
(* calls append to lists of actions and to a single vector of values; the  *)
(* placeholders get their numbers when the lists are written out           *)
(* (QueryText).  The model keeps that split and asks whether every         *)
(* comparison meets the value it was made with.                            *)
(*                                                                         *)
(* Copies of a db_result share the statement and keep a result code each.  *)
(***************************************************************************)
EXTENDS QueryText

CONSTANTS
    Kinds,      \* of "select", "update" and "delete"
    Values,     \* the values compared with
    Texts,      \* those of them bound as text
    Odd,        \* rows with a column that is neither an integer nor text
    Handles,    \* db_result objects on one statement
    MaxBuilt,   \* bound: calls made on the builder
    MaxReads,   \* bound: calls made on the results
    MaxFaults   \* bound: steps that fail

ASSUME QueryAssumption ==
    /\ Kinds \subseteq {"select", "update", "delete"}
    /\ Rows \in Nat /\ MaxBuilt \in Nat /\ MaxReads \in Nat /\ MaxFaults \in Nat
    /\ Null \notin Values
    /\ Texts \subseteq Values /\ Values \subseteq Nat /\ Odd \subseteq Row

VARIABLES
    kind,
    sets,      \* values of column_values, a value for each column set
    actions,   \* where_data->actions: [index -> list of actions]; empty when
               \* there is no where_data
    values,    \* where_data->values
    open,      \* indexes of the group functions that are running, outermost first
    meant,     \* history: the text of each of them, as the caller means it
    hollow,    \* history: a group was closed without anything in it
    built,     \* calls made
    query,     \* the prepared statement: its condition with the values bound
    loose,     \* its text values may have been moved in memory
    at,        \* the row the statement is on, 0 when a step starts from the top
    res,       \* [handle -> res_]
    given,     \* history: rows handed out since the statement last started
    passed,    \* history: rows left by next_row() since then
    starts,    \* history: how often the statement was started
    copied,    \* history: a result was copied
    reads, faults

queryVars == <<kind, sets, actions, values, open, meant, hollow, built, query, loose, at,
               res, given, passed, starts, copied, reads, faults>>

builder == <<kind, sets, actions, values, open, meant, hollow, built>>
reader  == <<at, res, given, passed, starts, copied, reads, faults>>

NoQuery == [ready |-> FALSE, sound |-> FALSE, text |-> <<>>, rows |-> {}, set |-> <<>>,
            meant |-> <<>>, wanted |-> {}, inside |-> FALSE]

QueryInit ==
    /\ kind \in Kinds
    /\ sets \in IF kind = "update" THEN {<<v>> : v \in Values} ELSE {<<>>}
    /\ actions = [i \in {} |-> <<>>]
    /\ values = <<>> /\ open = <<0>> /\ meant = <<<<>>>> /\ hollow = FALSE /\ built = 0
    /\ query = NoQuery /\ loose = FALSE
    /\ at = 0 /\ res = [h \in Handles |-> "none"]
    /\ given = <<>> /\ passed = {} /\ starts = 0 /\ copied = FALSE
    /\ reads = 0 /\ faults = 0

-----------------------------------------------------------------------------
\* The builder.  Calls are made on the group whose function is running.
here == Last(open)

Called == built < MaxBuilt /\ built' = built + 1

Means(text) == meant' = Append(Front(meant), Last(meant) \o text)

\* Callers join what they put side by side; SQLite refuses what is not joined.
Fits == List(actions, here) # <<>> => Last(List(actions, here)).is = "join"

\* where(column).equals(value) and the like: create().  A vector that grows may
\* move the strings that a prepared statement was bound to without a copy.
Compare(op, v) ==
    /\ Called /\ Fits
    /\ actions' = Added(actions, here, Comp(op))
    /\ values' = Append(values, v)
    /\ Means(<<Equals(op, v)>>)
    /\ loose' = (loose \/ (query.ready /\ \E i \in DOMAIN values : values[i] \in Texts))
    /\ UNCHANGED <<kind, sets, open, hollow, query, reader>>

\* and_() and or_() are offered after a comparison or a group.
JoinWith(word) ==
    /\ Called
    /\ ~Fits
    /\ actions' = Added(actions, here, Link(word))
    /\ Means(<<Link(word)>>)
    /\ UNCHANGED <<kind, sets, values, open, hollow, query, loose, reader>>

\* group(func): the list of this level is there from now on, the one of the
\* group gets the next index and is made by what func does first.
GroupBegin ==
    /\ Called /\ Fits
    /\ actions' = Made(actions, {here})
    /\ open' = Append(open, Cardinality(DOMAIN actions \union {here}))
    /\ meant' = Append(meant, <<>>)
    /\ UNCHANGED <<kind, sets, values, hollow, query, loose, reader>>

\* func has returned: the group joins the list it was called on.
GroupEnd ==
    /\ Len(open) > 1
    /\ LET outer == Front(open)
       IN  /\ actions' = Added(actions, Last(outer), Group(here))
           /\ open' = outer
    /\ LET outer == Front(meant)
       IN  meant' = Append(Front(outer), Last(outer) \o InBrackets(Last(meant)))
    /\ hollow' = (hollow \/ here \notin DOMAIN actions)
    /\ UNCHANGED <<kind, sets, values, built, query, loose, reader>>

-----------------------------------------------------------------------------
\* dump(): the placeholders of the condition follow those of the columns set.
FirstOfWhere == Len(sets)

\* go() binds the columns set first, then the values of the condition.
Bound == sets \o values

-----------------------------------------------------------------------------
\* The rows the statement may turn to next: the one selected after the row it is
\* on; any, once its values may be gone.
NextRows(q, on, adrift) ==
    LET ahead == {r \in Row : r > on}
        good  == ahead \intersect q.rows
    IN  IF adrift THEN ahead \union {0}
        ELSE {r \in good : \A s \in good : r <= s} \union (IF good = {} THEN {0} ELSE {})

\* set_res(sqlite3_step(...)) of handle h.
StepStatement(h, q) ==
    /\ starts' = IF at = 0 THEN starts + 1 ELSE starts
    /\ \/ \E r \in NextRows(q, at, loose) :
             /\ at' = r
             /\ res' = [res EXCEPT ![h] = IF r = 0 THEN "DONE" ELSE "ROW"]
             /\ UNCHANGED faults
       \/ /\ faults < MaxFaults /\ faults' = faults + 1
          /\ at' = 0
          /\ res' = [res EXCEPT ![h] = "ERROR"]

\* go(): the statement is prepared and bound, and the result takes the first
\* step, unless something failed before; a statement that changes rows is done
\* with it.
Go(h) ==
    /\ ~query.ready
    /\ LET where == 0 \in DOMAIN actions
           d     == Dump(actions, 0, FirstOfWhere)
           text  == Bind(d.text, Bound)
           sound == (where => WellFormed(text)) /\ Len(Bound) <= d.idx
           q     == [ready  |-> TRUE, sound |-> sound, text |-> text,
                     rows   |-> IF sound THEN Selected(text) ELSE {},
                     set    |-> SubSeq(Bound, 1, Len(sets)),
                     meant  |-> meant[1],
                     wanted |-> IF sound THEN Selected(meant[1]) ELSE {},
                     inside |-> Len(open) > 1]
       IN  /\ query' = q
           /\ actions' = IF where THEN Made(actions, d.lists) ELSE actions
           /\ \/ ~sound /\ res' = [res EXCEPT ![h] = "ERROR"]
                 /\ UNCHANGED <<at, starts, faults>>
              \/ sound /\ kind = "select" /\ StepStatement(h, q)
              \/ sound /\ kind # "select" /\ starts' = starts + 1
                 /\ \/ res' = [res EXCEPT ![h] = "DONE"] /\ UNCHANGED faults
                    \/ /\ faults < MaxFaults /\ faults' = faults + 1
                       /\ res' = [res EXCEPT ![h] = "ERROR"]
                 /\ UNCHANGED at
    /\ UNCHANGED <<kind, sets, values, open, meant, hollow, built, loose, given, passed,
                   copied, reads>>

-----------------------------------------------------------------------------
\* The results.
Read == reads < MaxReads /\ reads' = reads + 1

Copy(g, h) ==
    /\ Read
    /\ g # h /\ res[g] # "none"
    /\ res' = [res EXCEPT ![h] = res[g]]
    /\ copied' = TRUE
    /\ UNCHANGED <<builder, query, loose, at, given, passed, starts, faults>>

\* Mutant: the step comes before the row is read.
GetRow_StepFirst(h) ==
    /\ Read
    /\ res[h] = "ROW"
    /\ StepStatement(h, query)
    /\ given' = IF at' \in {0} \union Odd THEN given ELSE Append(given, at')
    /\ UNCHANGED <<builder, query, loose, passed, copied>>

\* get_row(): the row the statement is on, then the step to the next.  A row
\* with a column of another type, and a statement that is on no row because
\* another copy read to the end, throw before the step.
GetRow(h) ==
    /\ Read
    /\ res[h] = "ROW"
    /\ \/ /\ at \in {0} \union Odd
          /\ UNCHANGED <<at, res, given, starts, faults>>
       \/ /\ at \notin {0} \union Odd
          /\ given' = Append(given, at)
          /\ StepStatement(h, query)
    /\ UNCHANGED <<builder, query, loose, passed, copied>>

\* Mutant: next_row() does not look whether there is a row.
NextRow_Unguarded(h) ==
    /\ Read
    /\ res[h] # "none"
    /\ given' = IF at = 0 THEN <<>> ELSE given
    /\ passed' = IF at = 0 THEN {} ELSE passed \union {at}
    /\ StepStatement(h, query)
    /\ UNCHANGED <<builder, query, loose, copied>>

\* next_row(): a copy that still holds SQLITE_ROW after the end starts the
\* statement again.
NextRow(h) ==
    /\ Read
    /\ res[h] = "ROW"
    /\ given' = IF at = 0 THEN <<>> ELSE given
    /\ passed' = IF at = 0 THEN {} ELSE passed \union {at}
    /\ StepStatement(h, query)
    /\ UNCHANGED <<builder, query, loose, copied>>

QueryNext ==
    \/ \E op \in Ops, v \in Values : Compare(op, v)
    \/ \E word \in Words : JoinWith(word)
    \/ GroupBegin \/ GroupEnd
    \/ Go(CHOOSE h \in Handles : TRUE)
    \/ \E h \in Handles : GetRow(h) \/ NextRow(h)
    \/ \E g, h \in Handles : Copy(g, h)

QuerySpec == QueryInit /\ [][QueryNext]_queryVars

-----------------------------------------------------------------------------
ReadsToTheEnd == at' = 0 /\ (at # 0 \/ starts' # starts) /\ faults' = faults

\* Reading to the end gives the rows the caller asked for: when a step finds
\* no more, every row that meets the condition as it was built has been handed
\* out or left by next_row(), through one copy of the result or another, once and
\* in order, and no other has, since the statement was last started.  Which copy
\* got a row is not told apart: a result without copies got all of them itself.
\* It takes that no group was left empty and that the builder was left alone
\* while its text values were in use.
AnswersTheQuestion ==
    [][kind = "select" /\ ReadsToTheEnd /\ ~hollow' /\ ~loose' =>
         /\ \A i, j \in DOMAIN given' : i < j => given'[i] < given'[j]
         /\ ToSet(given') = query'.wanted \ passed'
         /\ passed' \subseteq query'.wanted]_queryVars

\* What SQLite is asked is what the caller built: a query without a condition or
\* with one that is well formed is accepted, and each comparison in it, however
\* deep in groups, has its own value, as each column that is set has.  It takes
\* that no group was left empty: such a group leaves its index to the next one.
QueryIsTheOneMeant ==
    query.ready /\ ~hollow =>
      /\ query.sound \/ query.inside \/ ~(query.meant = <<>> \/ WellFormed(query.meant))
      /\ query.sound => query.text = query.meant /\ query.set = sets

\* However its results are read, a statement that changes rows runs once, and
\* one that selects runs again only for a copy that missed the end.
RunsOnce == kind # "select" \/ ~copied => starts <= 1
=============================================================================
