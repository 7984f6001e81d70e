------------------------------ MODULE QueryText ------------------------------
(***************************************************************************)
(* What utils::db::sqlite keeps of a condition (db_where_t.hpp), the text  *)
(* dump() writes of it, and how SQLite takes that text.                    *)
(*                                                                         *)
(* where_data has a list of actions for each group, under an index, and    *)
(* the list of the query under 0.  Its text is a sequence of tokens, with  *)
(* a numbered placeholder for every value.                                 *)
(***************************************************************************)
EXTENDS Integers, FiniteSets, SequencesExt

CONSTANTS
    Rows,  \* the table is 1..Rows, each row holding its own number
    Null   \* SQL NULL, no value

Row   == 1..Rows
Ops   == {"equals", "not_equals"}
Words == {"AND", "OR"}

\* Actions.
Comp(op)   == [is |-> "comp", op |-> op]
Link(word) == [is |-> "join", word |-> word]
Group(of)  == [is |-> "group", of |-> of]

\* Tokens, besides Link: a comparison with placeholder n, one whose value is
\* bound, and brackets.
Place(op, n)  == [is |-> "place", op |-> op, n |-> n]
Equals(op, v) == [is |-> "bound", op |-> op, v |-> v]
Bracket(b)    == [is |-> b]

InBrackets(text) == <<Bracket("(")>> \o text \o <<Bracket(")")>>

-----------------------------------------------------------------------------
List(acts, i) == IF i \in DOMAIN acts THEN acts[i] ELSE <<>>

\* operator[] on the map: the lists I are there.
Made(acts, I) == [j \in DOMAIN acts \union I |-> List(acts, j)]

Added(acts, i, a) == [Made(acts, {i}) EXCEPT ![i] = Append(@, a)]

\* dump(idx, actions) so far: what is in the stream, the counter, and the lists
\* get_actions() was called for.
Dumped(text, idx, lists) == [text |-> text, idx |-> idx, lists |-> lists]

\* Mutant: a group numbers its placeholders on a copy of the counter.
DumpAction_IdxByValue(a, d, acts, dump) ==
    CASE a.is = "comp" -> Dumped(Append(d.text, Place(a.op, d.idx + 1)), d.idx + 1, d.lists)
      [] a.is = "join" -> Dumped(Append(d.text, a), d.idx, d.lists)
      [] a.is = "group" ->
           LET g == dump[a.of][Len(List(acts, a.of))][d.idx]
           IN  Dumped(d.text \o InBrackets(g.text), d.idx, d.lists \union {a.of} \union g.lists)

\* The visitor: action a behind d.
DumpAction(a, d, acts, dump) ==
    CASE a.is = "comp" -> Dumped(Append(d.text, Place(a.op, d.idx + 1)), d.idx + 1, d.lists)
      [] a.is = "join" -> Dumped(Append(d.text, a), d.idx, d.lists)
      [] a.is = "group" ->
           LET g == dump[a.of][Len(List(acts, a.of))][d.idx]
           IN  Dumped(d.text \o InBrackets(g.text), g.idx, d.lists \union {a.of} \union g.lists)

\* The first k actions of list i, written with the counter at n.
DumpStep(acts, dump, i, k, n) ==
    IF k \in DOMAIN List(acts, i)
    THEN DumpAction(List(acts, i)[k], dump[i][k - 1][n], acts, dump)
    ELSE Dumped(<<>>, n, {})

DumpOf(acts) ==
    LET dump[i \in Nat] == [k \in Nat |-> [n \in Nat |-> DumpStep(acts, dump, i, k, n)]]
    IN  dump

Dump(acts, i, n) == DumpOf(acts)[i][Len(List(acts, i))][n]

-----------------------------------------------------------------------------
\* sqlite3_bind_*: the values in the place of their numbers.  A placeholder that
\* gets none is NULL.
ValueOf(n, bound) == IF n \in DOMAIN bound THEN bound[n] ELSE Null

BindToken(t, bound) == IF t.is = "place" THEN Equals(t.op, ValueOf(t.n, bound)) ELSE t

Bind(text, bound) == [p \in DOMAIN text |-> BindToken(text[p], bound)]

\* Brackets open before position p.
Depth(text, p) == LET Before(b) == Cardinality({q \in 1 .. p - 1 : text[q].is = b})
                  IN  Before("(") - Before(")")

Begins(t) == t.is \in {"place", "bound", "("}
Ends(t)   == t.is \in {"place", "bound", ")"}

\* What SQLite takes for a condition.
WellFormed(text) ==
    /\ text # <<>>
    /\ Begins(text[1]) /\ Ends(Last(text))
    /\ \A p \in 2 .. Len(text) : Ends(text[p - 1]) <=> ~Begins(text[p])
    /\ \A p \in 1 .. Len(text) : Depth(text, p) >= 0
    /\ Depth(text, Len(text) + 1) = 0

\* How it reads one, in the row r: AND binds closer than OR, brackets closer than
\* both, and nothing holds of NULL.
Holds(text, r) ==
    LET s == InBrackets(text)
        Operands(p) == {i \in p + 1 .. Len(s) :
                          /\ Begins(s[i]) /\ Depth(s, i) = Depth(s, p) + 1
                          /\ \A q \in p + 1 .. i : Depth(s, q) > Depth(s, p)}
        Apart(i, j) == \E q \in (i .. j) \union (j .. i) :
                         s[q] = Link("OR") /\ Depth(s, q) = Depth(s, i)
        holds[p \in DOMAIN s] ==
          IF s[p].is = "bound"
          THEN s[p].v # Null /\ (s[p].op = "equals") = (s[p].v = r)
          ELSE \E i \in Operands(p) : \A j \in Operands(p) : Apart(i, j) \/ holds[j]
    IN  holds[1]

\* The rows a condition selects; without one, all.
Selected(text) == {r \in Row : text = <<>> \/ Holds(text, r)}
=============================================================================
