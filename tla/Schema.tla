------------------------------- MODULE Schema -------------------------------
(* Changes of the schema: requests that change both the catalogue and the     *)
(* tables of the database.  Neither side can roll the other back, for a       *)
(* statement that changes a table commits by itself, on a connection of its   *)
(* own.  A request looks, and then takes its steps; the requests of two       *)
(* designers interleave between any two steps, and the process may die there. *)
(*                                                                            *)
(* What is stored is named by kind, the table it is of, its own name, and the *)
(* table that a foreign key of it refers to.  A table or a field has the      *)
(* number of its key for a name.                                              *)
EXTENDS Inspection, SchemaIO

CONSTANTS
    Designers,
    Seeds,      \* the catalogues to start from, with their topics
    Foreign,    \* what is stored of the tables that were there before
    Example,    \* the file of a bundled example
    Files       \* files that someone may import, besides an export of the model

VARIABLES
    phys,       \* what is stored
    job,        \* the request of each designer
    torn        \* ghost: what a request that stopped half way left behind

schemaVars == <<phys, job, torn>>
vars == <<topic, cat, phys, job, torn>>

-----------------------------------------------------------------------------
(* What is stored.                                                            *)
Table(t) == <<"table", t, t, None>>
ColumnOf(c, f) == <<"column", c[f].table_id, f, c[f].related_table_id>>
JunctionOf(c, r) == <<"junction", c[r].from_table_id, r, c[r].to_table_id>>
IndexOf(c, u) == <<"unique", c[u].table_id, u, None>>
Moved(x) == <<"moved", x[2], x[3], x[4]>>
RecordColumns(t) == <<"flags", t, t, None>>

External == {x[2] : x \in {x \in Foreign : x[1] = "table"}}
ForeignFields(t) == {x \in Foreign : x[1] = "column" /\ x[2] = t}
Managed(t) == t \notin External

\* Biggy puts no index on a table that it did not make.
NoneIndexed(c) == \A u \in RowsIn(c, "unique") : Managed(c[u].table_id)

\* An id that is no more is no row, and no name of a table.  What was there are
\* tables, each with a name of its own, and their columns.
ASSUME SchemaAssumption ==
    /\ None # Gone /\ None \notin Keys /\ Gone \notin Keys
    /\ IsFiniteSet(Foreign)
    /\ \A x \in Foreign :
         /\ x[1] \in {"table", "column"} /\ x[2] \in External
         /\ x[1] = "table" => x[2] \in Keys /\ x[2][1] = "table" /\ x = Table(x[2])
         /\ x[1] = "column" => /\ x[3] \in Keys /\ x[3][1] = "field"
                               /\ x = <<"column", x[2], x[3], x[4]>>
                               /\ x[4] \in External \cup {None}
    /\ \A x, y \in Foreign : x[3] = y[3] => x = y
    /\ \A s \in Seeds :
         /\ s.topic.each \in Nat
         /\ IsFiniteSet(DOMAIN s.cat) /\ Typed(s.cat) /\ NoneIndexed(s.cat)
    /\ \A file \in Files \cup {Example} : IsFile(file) /\ NoneIndexed(file)

Junctions(c) == {r \in RowsIn(c, "relation") : c[r].from_field_id = None}

\* What the catalogue says is stored.
Described(c) ==
    {Table(t) : t \in {t \in RowsIn(c, "table") : Managed(t)}}
    \cup {ColumnOf(c, f) : f \in {f \in RowsIn(c, "field") : Managed(c[f].table_id)}}
    \cup {JunctionOf(c, r) : r \in Junctions(c)}
    \cup {IndexOf(c, u) : u \in RowsIn(c, "unique")}

\* A described thing and a stored one; the tables of a relation may be deleted.
Same(x, y) ==
    x[1] = y[1] /\ x[3] = y[3] /\ x[2] \in {y[2], Gone} /\ x[4] \in {y[4], Gone}

StoredAs(S) == {y \in phys : \E x \in S : Same(x, y)}

\* Tables that a foreign key of another one refers to.
Referenced ==
    {x[4] : x \in {x \in phys : x[1] = "junction" \/ x[4] # x[2]}}
    \cup {x[2] : x \in {x \in phys : x[1] = "junction"}}

\* A junction's name is made of its two tables, whatever their order.
Taken(x) ==
    \/ x \in phys
    \/ x[1] = "junction" /\ \E y \in phys : y[1] = "junction" /\ {y[2], y[4]} = {x[2], x[4]}

\* Tables and columns that a statement of request j names have to be there.
Storable(j, S) ==
    LET tables == {x[2] : x \in {x \in phys \cup S : x[1] = "table"}} IN
    \A x \in S :
        /\ ~ Taken(x) /\ {x[2], x[4]} \ {None} \subseteq tables
        /\ x[1] = "unique" => <<"column", x[2], j.new[x[3]].field_ids, None>> \in phys \cup S

\* A table goes with what is of it; one that is not there is no error.
Fall(S) ==
    StoredAs(S) \cup {y \in phys : \E x \in S : x[1] = "table" /\ y[2] = x[2] /\ y[1] # "junction"}

Droppable(S) ==
    \A x \in S : CASE x[1] = "table" -> x[2] \notin Referenced
                   [] x[1] = "junction" -> TRUE
                   [] OTHER -> StoredAs({x}) # {}

-----------------------------------------------------------------------------
(* A request: the steps it has still to take, the rows it adds, the columns   *)
(* it sets and the rows it deletes when it commits, the rows it has locked,   *)
(* and what it has stored or dropped since it last committed.                 *)
Nothing == [x \in {} |-> None]
Asked(by, todo, new, set, del) ==
    [by |-> by, todo |-> todo, new |-> new, set |-> set, del |-> del,
     held |-> {}, done |-> {}, past |-> FALSE]
Idle == Asked(None, <<>>, Nothing, Nothing, {})

Step(do, what, else) == [do |-> do, what |-> what, else |-> else]
Flush == Step("flush", {}, "stop")
Commit == Step("commit", {}, "stop")
Wipe == Step("wipe", {}, "stop")
Fail == Step("fail", {}, "undo")
Build(S) == Step("build", S, "stop")
Drop(S) == Step("drop", S, "stop")
Rename(S) == Step("rename", S, "stop")
OrSkip(step) == [step EXCEPT !.else = "skip"]
OrUndo(step) == [step EXCEPT !.else = "undo"]

Busy(d) == job[d] # Idle
Quiet == \A d \in Designers : ~ Busy(d)
Next1(d) == job[d].todo[1]
At(d, do) == Busy(d) /\ Next1(d).do = do

Start(d, by, todo, new, set, del) ==
    /\ job' = [job EXCEPT ![d] = Asked(by, todo, new, set, del)]
    /\ UNCHANGED <<topic, cat, phys, torn>>

OnDone(j) == IF Len(j.todo) = 1 THEN Idle ELSE [j EXCEPT !.todo = Tail(j.todo)]

\* What a request that stops now leaves unlike the catalogue.
LeftBy(j) ==
    j.done \cup (IF j.past THEN UNION {j.todo[n].what : n \in 1 .. Len(j.todo)} ELSE {})

Stop(d) ==
    /\ job' = [job EXCEPT ![d] = Idle]
    /\ torn' = torn \cup LeftBy(job[d])
    /\ UNCHANGED <<topic, cat, phys>>

-----------------------------------------------------------------------------
(* Locks.  A row that is added, set or deleted is locked until the commit,    *)
(* and a row with a parent shares a lock on it.                               *)

Shared(j) ==
    {j.new[k].table_id : k \in {k \in DOMAIN j.new : k[1] \in {"field", "unique"}}} \ DOMAIN j.new

Flushed(j) == IF j.new # Nothing THEN DOMAIN j.new ELSE DOMAIN j.set

Written(j) ==
    CASE j.todo[1].do = "flush" -> Flushed(j)
      [] j.todo[1].do = "commit" -> DOMAIN j.new \cup DOMAIN j.set \cup Cascaded(cat, j.del)
      [] OTHER -> {}

Waits(d, e) ==
    /\ d # e /\ Busy(d) /\ job[e].held # {} /\ Next1(d).do \in {"flush", "commit"}
    /\ \/ Written(job[d]) \cap (job[e].held \cup Shared(job[e])) # {}
       \/ Shared(job[d]) \cap job[e].held # {}

Waiting(d) == \E e \in Designers : Waits(d, e)

\* What it adds is new and has its parents, and what it sets is still there.
Sound(j) ==
    /\ (DOMAIN j.new \ j.held) \cap DOMAIN cat = {}
    /\ Shared(j) \subseteq DOMAIN cat
    /\ DOMAIN j.set \subseteq DOMAIN cat \cup DOMAIN j.new

-----------------------------------------------------------------------------
(* The steps of a request.                                                    *)

\* The rows are sent and locked, but not yet visible.
flush(d) ==
    /\ At(d, "flush") /\ ~ Waiting(d)
    /\ IF Sound(job[d])
       THEN /\ job' = [job EXCEPT ![d] = [OnDone(job[d]) EXCEPT !.held = Flushed(job[d])]]
            /\ UNCHANGED <<topic, cat, phys, torn>>
       ELSE Stop(d)

\* The rows as they are after the commit.  A reference to a row that was deleted
\* in the meantime is an id that names nothing.
Committed(j) ==
    LET left == Without(cat, j.del \cap DOMAIN cat)
        keys == DOMAIN left \cup DOMAIN j.new
        old(k) == IF k \in DOMAIN j.new THEN j.new[k] ELSE left[k] IN
    [k \in keys |->
       [m \in Columns(k) |->
          LET v == IF k \in DOMAIN j.set /\ m \in DOMAIN j.set[k] THEN j.set[k][m]
                   ELSE old(k)[m] IN
          IF v \in keys \cup {None} THEN v ELSE Gone]]

\* A column that was renamed is the one of its field from now on; who read the
\* field before has a name that is no more, and ids that name nothing where rows
\* were deleted.
Unmoved(x) == <<"column", x[2], x[3], x[4]>>
MovedBy(j) == {x \in j.done \cap phys : x[1] = "moved"}
Misnamed(x) == <<x[1], x[2], Gone, x[4]>>
AsNamed(step, moved) ==
    Step(step.do,
         {IF step.do # "build" /\ Moved(x) \in moved THEN Misnamed(x) ELSE x : x \in step.what},
         step.else)
Outdated(j, moved, dead) ==
    LET now(v) == IF v \in dead THEN Gone ELSE v IN
    [j EXCEPT !.todo = [n \in DOMAIN j.todo |-> AsNamed(j.todo[n], moved)],
              !.new = [k \in DOMAIN j.new |-> [m \in DOMAIN j.new[k] |-> now(j.new[k][m])]],
              !.set = [k \in {now(k) : k \in DOMAIN j.set} |->
                         IF k = Gone THEN Nothing
                         ELSE [m \in DOMAIN j.set[k] |-> now(j.set[k][m])]],
              !.del = {now(k) : k \in j.del}]

commit(d) ==
    /\ At(d, "commit") /\ ~ Waiting(d)
    /\ IF Sound(job[d])
       THEN LET moved == MovedBy(job[d])
                dead == Cascaded(cat, job[d].del) IN
            /\ cat' = Committed(job[d])
            /\ phys' = (phys \ moved) \cup {Unmoved(x) : x \in moved}
            /\ job' = [e \in Designers |->
                         IF e # d THEN Outdated(job[e], moved, dead)
                         ELSE IF Len(job[d].todo) = 1 THEN Idle
                         ELSE [Asked(job[d].by, Tail(job[d].todo), Nothing, Nothing, {})
                                 EXCEPT !.past = TRUE]]
            /\ UNCHANGED <<topic, torn>>
       ELSE Stop(d)

\* Two requests that wait for each other: the server ends one of them.
deadlock_victim(d) ==
    /\ \E e \in Designers : Waits(d, e) /\ Waits(e, d)
    /\ Stop(d)

\* Mutant: the tables that were created stay.
UndoNothing(d) == job' = [job EXCEPT ![d] = Idle] /\ UNCHANGED <<topic, cat, phys, torn>>

\* The rows are rolled back and the tables created so far are dropped.
Undo(d) ==
    /\ job' = [job EXCEPT ![d] = Idle]
    /\ phys' = phys \ Fall({x \in job[d].done : x[1] \in {"table", "junction"}})
    /\ UNCHANGED <<topic, cat, torn>>

\* A refused statement ends the request, unless it goes on without it: then an
\* index it asked for is not recorded, and what it dropped stays.
Refused(d) ==
    LET step == Next1(d)
        lost == {x[3] : x \in step.what} IN
    CASE step.else = "stop" -> Stop(d)
      [] step.else = "undo" -> Undo(d)
      [] step.else = "skip" ->
           /\ job' = [job EXCEPT ![d] =
                        IF step.do # "build" THEN OnDone(job[d])
                        ELSE [OnDone(job[d]) EXCEPT
                                !.new = [k \in DOMAIN job[d].new \ lost |-> job[d].new[k]]]]
           /\ torn' = IF step.do = "build" THEN torn ELSE torn \cup step.what
           /\ UNCHANGED <<topic, cat, phys>>

\* Bound: requests are made, and fail, until one of them is left half way.
AllWhole == torn = {}
Faulty == "faults" \in topic.of /\ AllWhole

Statement(d, possible, result, changed, lost) ==
    \/ /\ possible
       /\ phys' = result /\ torn' = torn \cup lost
       /\ job' = [job EXCEPT ![d] = [OnDone(job[d]) EXCEPT
                    !.done = IF Len(job[d].todo) = 1 THEN {} ELSE job[d].done \cup changed]]
       /\ UNCHANGED <<topic, cat>>
    \/ (Faulty \/ ~ possible) /\ Refused(d)

build(d) ==
    /\ At(d, "build")
    /\ LET S == Next1(d).what IN Statement(d, Storable(job[d], S), phys \cup S, S, {})

\* What is dropped goes by its name: a request that comes late, after another
\* deleted the same, drops what was made under the name since.
OfOthers(d, S) ==
    {y \in Fall(S) : \/ (job[d].past \/ Gone \in job[d].del) /\ y \in Described(cat)
                     \/ \E e \in Designers \ {d} : y \in job[e].done}

drop(d) ==
    /\ At(d, "drop")
    /\ LET S == Next1(d).what IN
       Statement(d, Droppable(S), phys \ Fall(S), Fall(S), OfOthers(d, S))

rename(d) ==
    /\ At(d, "rename")
    /\ LET S == Next1(d).what
           moved == {Moved(x) : x \in S} IN
       Statement(d, S \subseteq phys /\ moved \cap phys = {}, (phys \ S) \cup moved,
                 S \cup moved, {})

\* wipe_model: the tables go, foreign keys or not, and then the rows.
clear(d) ==
    /\ At(d, "clear")
    /\ LET S == Next1(d).what IN Statement(d, TRUE, phys \ Fall(S), Fall(S), {})

wipe(d) ==
    /\ At(d, "wipe")
    /\ cat' = Without(cat, Wiped(cat))
    /\ job' = [job EXCEPT ![d] = [OnDone(job[d]) EXCEPT !.done = {}, !.past = FALSE]]
    /\ UNCHANGED <<topic, phys, torn>>

\* The file names a table it does not hold.
fail(d) == At(d, "fail") /\ Refused(d)

\* The process dies with its requests; what they had not committed is gone.
crash ==
    /\ Faulty /\ ~ Quiet
    /\ job' = [d \in Designers |-> Idle]
    /\ torn' = torn \cup UNION {LeftBy(job[d]) : d \in Designers}
    /\ UNCHANGED <<topic, cat, phys>>

-----------------------------------------------------------------------------
(* The requests.                                                              *)

\* A name the designer may give to a new table or field, or the id of a new row:
\* the first that is free, or any where requests may meet.  The name of a field
\* is its table's affair, ids are never the same.
Names(class, t) ==
    LET free == {k \in {<<class, n>> : n \in 1 .. topic.each} :
                   /\ k \notin DOMAIN cat \cup External
                   /\ \A x \in Foreign : x[3] # k
                   /\ \A e \in Designers :
                        k \in DOMAIN job[e].new =>
                          \/ class = "table"
                          \/ class = "field" /\ job[e].new[k].table_id = t} IN
    {k \in free : "faults" \in topic.of \/ \A x \in free : k[2] <= x[2]}

Open(d, classes) ==
    /\ ~ Busy(d)
    /\ classes \subseteq topic.of
    /\ Cardinality(DOMAIN cat) < topic.rows

\* Mutant: no request asks whether the table is Biggy's own.
AnyTables == Rows("table")

\* External tables are not to be altered: _external_readonly.
OwnTables == {t \in Rows("table") : Managed(t)}

Row(k, row) == [x \in {k} |-> row]
Field(t, to) == [table_id |-> t, related_table_id |-> to]
SetOf(k, m, v) == [x \in {k} |-> [y \in {m} |-> v]]
Both(f, g) == [x \in DOMAIN f \cup DOMAIN g |-> IF x \in DOMAIN f THEN f[x] ELSE g[x]]

\* The name is free, of a table that is described and of one that is stored.
NewTables == {t \in Names("table", None) : Table(t) \notin phys}

\* The primary key is a column of the database's own, or a field that is named.
table_new(d) ==
    /\ Open(d, {"table"})
    /\ \E t \in NewTables, s \in Rows("source") \cup {None} :
         LET table == Row(t, [display_field_id |-> None, source_id |-> s]) IN
         \/ Start(d, "table_new", <<Flush, Build({Table(t)}), Commit>>, table, Nothing, {})
         \/ /\ "field" \in topic.of
            /\ \E f \in Names("field", None) :
                 LET new == Both(table, Row(f, Field(t, None))) IN
                 Start(d, "table_new", <<Flush, Build({Table(t), ColumnOf(new, f)}), Commit>>,
                       new, Nothing, {})

\* One column is kept, of a text; the rows are imported afterwards.
table_from_csv(d) ==
    /\ Open(d, {"table", "field"})
    /\ \E t \in NewTables, f \in Names("field", None) :
         LET new == Both(Row(t, [display_field_id |-> f, source_id |-> None]),
                         Row(f, Field(t, None))) IN
         Start(d, "table_from_csv", <<Flush, Build({Table(t), ColumnOf(new, f)}), Commit>>,
               new, Nothing, {})

\* One statement for each.
Each(S, Or(_)) == LET order == SetToSeq(S) IN [n \in DOMAIN order |-> Or(Build({order[n]}))]

\* Ids that no row has, not even one that is not visible yet.
FreeIds(class) ==
    {k \in {<<class, n>> : n \in 1 .. topic.each} :
       /\ k \notin DOMAIN cat
       /\ \A x \in Foreign : x[3] # k
       /\ \A e \in Designers : k \notin DOMAIN job[e].new}

\* The scalar fields, and the constraints all of whose columns come along.  The
\* flags for tracking come along, too, and not their columns: flags refer to
\* nothing and are not held here, so that SidesAgree does not see the lack.
table_duplicate(d) ==
    /\ Open(d, {"table", "field"})
    /\ \E src \in OwnTables, t \in NewTables :
         LET scalars == {f \in FieldsOf(src) : cat[f].related_table_id = None}
             uniques == {u \in Rows("unique") : cat[u].table_id = src /\ cat[u].field_ids \in scalars}
             field == CHOOSE g \in [scalars -> FreeIds("field")] : IsInjective(g)
             index == CHOOSE g \in [uniques -> FreeIds("unique")] : IsInjective(g)
             CopyOf(f) == IF f \in scalars THEN field[f] ELSE None
             copies == [f \in Range(field) |-> Field(t, None)]
             constraints == [k \in Range(index) |->
                               LET u == CHOOSE u \in uniques : index[u] = k IN
                               [table_id |-> t, field_ids |-> CopyOf(cat[u].field_ids)]] IN
         /\ Cardinality(scalars) <= Cardinality(FreeIds("field"))
         /\ Cardinality(uniques) <= Cardinality(FreeIds("unique"))
         /\ Start(d, "table_duplicate",
                  <<Flush, Build({Table(t)} \cup {ColumnOf(copies, f) : f \in DOMAIN copies})>>
                  \o Each({IndexOf(constraints, u) : u \in DOMAIN constraints}, OrSkip)
                  \o <<Commit>>,
                  Both(Row(t, [display_field_id |-> CopyOf(cat[src].display_field_id),
                               source_id |-> cat[src].source_id]), Both(copies, constraints)),
                  Nothing, {})

\* Mutant: nobody asks whether a relation involves the table.
table_delete_related(d) ==
    /\ ~ Busy(d) /\ "table" \in topic.of
    /\ \E t \in Rows("table") :
         Start(d, "table_delete",
               <<Commit>> \o (IF Managed(t) THEN <<Drop({Table(t)})>> ELSE <<>>),
               Nothing, Nothing, {t})

\* Refused while a relation involves the table.  The rows go first; the table is
\* dropped when Biggy made it.
table_delete(d) ==
    /\ ~ Busy(d) /\ "table" \in topic.of
    /\ \E t \in Rows("table") :
         /\ ~ \E r \in Rows("relation") : t \in {cat[r].from_table_id, cat[r].to_table_id}
         /\ Start(d, "table_delete",
                  <<Commit>> \o (IF Managed(t) THEN <<Drop({Table(t)})>> ELSE <<>>),
                  Nothing, Nothing, {t})

\* The first field of a text becomes the table's display field.
field_add(d) ==
    /\ Open(d, {"field"})
    /\ \E t \in OwnTables : \E f \in Names("field", t), text \in BOOLEAN :
         LET new == Row(f, Field(t, None)) IN
         Start(d, "field_add", <<Flush, Build({ColumnOf(new, f)}), Commit>>, new,
               IF text /\ cat[t].display_field_id = None THEN SetOf(t, "display_field_id", f)
               ELSE Nothing, {})

\* The relation that a field is the column of.
RelationOf(f) == {r \in Rows("relation") : cat[r].from_field_id = f}
NoLongerShown(f, t) ==
    [x \in {x \in {t} : cat[x].display_field_id = f} |-> [m \in {"display_field_id"} |-> None]]

\* The fields of the table t whose column has the name of f.  Nothing asks whether
\* f is of t; a field of another table may well have the name of one of t.
\* Bound: pages ask for a table and a field of it, but where topic.of says so.
Namesakes(f, t) ==
    IF cat[f].table_id = t THEN {f}
    ELSE IF "misrouted" \in topic.of THEN FieldsOf(t)
    ELSE {}

field_delete(d) ==
    /\ ~ Busy(d) /\ "field" \in topic.of
    /\ \E t \in OwnTables, f \in Rows("field") : \E g \in Namesakes(f, t) :
         Start(d, "field_delete", <<Drop({ColumnOf(cat, g)}), Commit>>, Nothing,
               NoLongerShown(f, t), {f} \cup RelationOf(f))

\* A scalar field gets another name.
field_edit(d) ==
    /\ ~ Busy(d) /\ "rename" \in topic.of
    /\ \E f \in {f \in Rows("field") : /\ Managed(cat[f].table_id)
                                       /\ cat[f].related_table_id = None} :
         Start(d, "field_edit", <<Flush, Rename({ColumnOf(cat, f)}), Commit>>, Nothing,
               SetOf(f, "table_id", cat[f].table_id), {})

\* Whatever field the page was rendered with, which may be deleted by now.
set_display_field(d) ==
    /\ ~ Busy(d) /\ "field" \in topic.of
    /\ \E t \in Rows("table") : \E f \in FieldsOf(t) \cup {Gone} :
         /\ f # cat[t].display_field_id
         /\ Start(d, "set_display_field", <<Commit>>, Nothing,
                  SetOf(t, "display_field_id", f), {})

\* A constraint over two columns: this one, and another that is left out.
unique_add(d) ==
    /\ Open(d, {"unique"})
    /\ \E t \in OwnTables, u \in Names("unique", None) : \E f \in FieldsOf(t) :
         /\ cat[f].related_table_id = None
         /\ LET new == Row(u, [table_id |-> t, field_ids |-> f]) IN
            Start(d, "unique_add", <<Build({IndexOf(new, u)}), Commit>>, new, Nothing, {})

unique_delete(d) ==
    /\ ~ Busy(d) /\ "unique" \in topic.of
    /\ \E u \in Rows("unique") :
         Start(d, "unique_delete", <<OrSkip(Drop({IndexOf(cat, u)})), Commit>>,
               Nothing, Nothing, {u})

SameSource(a, b) == cat[a].source_id = cat[b].source_id
Relation(a, b, f) ==
    [from_table_id |-> a, to_table_id |-> b, from_field_id |-> f,
     from_display_field_ids |-> None, to_display_field_ids |-> None]

relation_new_m1(d) ==
    /\ Open(d, {"relation"})
    /\ \E a \in OwnTables, b \in Rows("table"), r \in Names("relation", None) :
       \E f \in Names("field", a) :
         LET field == Row(f, Field(a, b)) IN
         /\ SameSource(a, b)
         /\ Start(d, "relation_new_m1", <<Flush, Build({ColumnOf(field, f)}), Commit>>,
                  Both(field, Row(r, Relation(a, b, f))), Nothing, {})

\* Refused when the junction is there.
relation_new_mn(d) ==
    /\ Open(d, {"relation"})
    /\ \E a, b \in Rows("table"), r \in Names("relation", None) :
         LET new == Row(r, Relation(a, b, None)) IN
         /\ SameSource(a, b) /\ ~ Taken(JunctionOf(new, r))
         /\ Start(d, "relation_new_mn", <<Build({JunctionOf(new, r)}), Commit>>, new, Nothing, {})

\* Only a many-to-many relation labels both of its ends.
relation_edit(d) ==
    /\ ~ Busy(d) /\ "label" \in topic.of
    /\ \E r \in Rows("relation") :
       \E to \in FieldsOf(cat[r].to_table_id) \cup {None} :
       \E from \in (IF cat[r].from_field_id = None THEN FieldsOf(cat[r].from_table_id) ELSE {})
                   \cup {None} :
         Start(d, "relation_edit", <<Commit>>, Nothing,
               Row(r, [to_display_field_ids |-> to, from_display_field_ids |-> from]), {})

\* The column or the junction goes first, then the field, the relation and the
\* items of forms that show it.
relation_delete(d) ==
    /\ ~ Busy(d) /\ "relation" \in topic.of
    /\ \E r \in Rows("relation") :
         LET f == FieldOfRelation(cat, r)
             own == {x \in f : Managed(cat[x].table_id)} IN
         Start(d, "relation_delete",
               (IF cat[r].from_field_id = None THEN <<Drop({JunctionOf(cat, r)})>>
                ELSE IF own # {} THEN <<Drop({ColumnOf(cat, x) : x \in own})>>
                ELSE <<>>) \o <<Commit>>,
               Nothing, Nothing,
               {r} \cup f \cup {i \in Rows("item") : cat[i].relation_id = r})

\* The columns that tracking needs, on any table.
table_flags(d) ==
    /\ ~ Busy(d) /\ "flags" \in topic.of
    /\ \E t \in Rows("table") :
         Start(d, "table_flags",
               <<Flush>> \o (IF RecordColumns(t) \in phys THEN <<>>
                             ELSE <<Build({RecordColumns(t)})>>) \o <<Commit>>,
               Nothing, SetOf(t, "source_id", cat[t].source_id), {})

ForeignOf(t, keys) == {x \in ForeignFields(t) : (x[4] # None) = keys}
RelationFor(x) == <<"relation", x[3][2]>>

\* adopt_table: a table that was there is mapped with the columns that are no
\* foreign keys; the first text column among them, if any, labels its rows.
AdoptedTables(S, shown) ==
    LET scalars == UNION {ForeignOf(t, FALSE) : t \in S} IN
    Both([t \in S |-> [display_field_id |-> shown[t], source_id |-> None]],
         [f \in {x[3] : x \in scalars} |->
            LET x == CHOOSE x \in scalars : x[3] = f IN Field(x[2], x[4])])

\* adopt_relations: the foreign keys between the tables that are mapped, where
\* a table has no field for the column yet.
AdoptedRelations(mapped) ==
    LET keys == {x \in UNION {ForeignOf(t, TRUE) : t \in mapped} :
                   x[4] \in mapped /\ x[3] \notin DOMAIN cat} IN
    Both([f \in {x[3] : x \in keys} |->
            LET x == CHOOSE x \in keys : x[3] = f IN Field(x[2], x[4])],
         [r \in {RelationFor(x) : x \in keys} |->
            LET x == CHOOSE x \in keys : RelationFor(x) = r IN Relation(x[2], x[4], x[3])])

adopt_run(d) ==
    /\ Open(d, {"adopt"}) /\ Quiet
    /\ \E S \in SUBSET (External \ DOMAIN cat), related \in BOOLEAN :
       \E shown \in [S -> {None} \cup {x[3] : x \in UNION {ForeignOf(t, FALSE) : t \in S}}] :
         LET mapped == S \cup (External \cap DOMAIN cat)
             new == Both(AdoptedTables(S, shown),
                         IF related THEN AdoptedRelations(mapped) ELSE Nothing) IN
         /\ \A t \in S : shown[t] \in {None} \cup {x[3] : x \in ForeignOf(t, FALSE)}
         /\ new # Nothing /\ DOMAIN new \cap DOMAIN cat = {}
         /\ Start(d, "adopt_run", <<Commit>>, new, Nothing, {})

\* Tables, columns, the relations with their columns and junctions, constraints.
\* A statement that is refused ends the import, and a constraint is then left
\* out; a file may turn out to lack a table of a relation.
Reading(file) ==
    LET all == Described(import_schema(file))
        Of(class) == {x \in all : x[1] = class}
        keys == {x \in Of("column") : x[4] # None} IN
    Each(Of("table"), OrUndo) \o Each(Of("column") \ keys, OrUndo)
    \o (IF Loads(file)
        THEN Each(keys, OrUndo) \o Each(Of("junction"), OrUndo) \o Each(Of("unique"), OrSkip)
             \o <<Commit>>
        ELSE <<Fail>>)

\* What is new of a file: a role of a name that is there is used.
NewOf(file) ==
    LET c == import_schema(file) IN [k \in {k \in DOMAIN c : k[1] # "role" \/ k \notin DOMAIN cat} |-> c[k]]

\* A model is replaced as a whole.  The old one is dropped and its rows deleted
\* first, in a transaction of its own; no other request runs.
Replace(d, by, file) ==
    LET old == {x \in Described(cat) : x[1] \in {"table", "junction"}} IN
    Start(d, by,
          (IF Rows("table") = {} THEN <<>>
           ELSE <<Step("clear", old, "skip"), Wipe>>) \o Reading(file),
          NewOf(file), Nothing, {})

schema_import(d) ==
    /\ Quiet /\ "import" \in topic.of
    /\ \E file \in {export_schema(cat)} \cup Files : Replace(d, "schema_import", file)

example_load(d) ==
    /\ Quiet /\ "import" \in topic.of
    /\ Replace(d, "example_load", Example)

\* Added next to what is there: no table of the same name, mapped or stored.
module_enable(d) ==
    /\ Quiet /\ "import" \in topic.of
    /\ Cardinality(DOMAIN cat \cup DOMAIN Example) <= topic.rows
    /\ DOMAIN Example \cap DOMAIN cat = {}
    /\ \A t \in RowsIn(Example, "table") : Table(t) \notin phys
    /\ Start(d, "module_enable", Reading(Example), NewOf(Example), Nothing, {})

-----------------------------------------------------------------------------
Init ==
    /\ \E s \in Seeds : topic = s.topic /\ cat = s.cat
    /\ phys = Foreign \cup {x \in Described(cat) : Managed(x[2])}
    /\ job = [d \in Designers |-> Idle]
    /\ torn = {}

Request(d) ==
    \/ table_new(d) \/ table_from_csv(d) \/ table_duplicate(d) \/ table_delete(d)
    \/ field_add(d) \/ field_delete(d) \/ field_edit(d) \/ set_display_field(d)
    \/ unique_add(d) \/ unique_delete(d)
    \/ relation_new_m1(d) \/ relation_new_mn(d) \/ relation_edit(d) \/ relation_delete(d)
    \/ table_flags(d) \/ adopt_run(d)
    \/ schema_import(d) \/ example_load(d) \/ module_enable(d)

Progress(d) ==
    \/ flush(d) \/ commit(d) \/ deadlock_victim(d)
    \/ build(d) \/ drop(d) \/ rename(d) \/ clear(d) \/ wipe(d) \/ fail(d)

\* Bound: no request starts while the model is changed as a whole.
Whole == {"adopt_run", "schema_import", "example_load", "module_enable"}
Alone == \A d \in Designers : job[d].by \notin Whole

Next ==
    \/ Quiet /\ OneRow /\ UNCHANGED schemaVars
    \/ \E d \in Designers : (AllWhole /\ Alone /\ Request(d)) \/ Progress(d)
    \/ crash

Spec == Init /\ [][Next]_vars

-----------------------------------------------------------------------------
(* Properties.                                                                *)

\* Every reference that the database looks after names a row of its class, the
\* others a row or none or an id that is no more; requests are as they are made.
TypeOK ==
    /\ Typed(cat)
    /\ \A x \in phys : x[1] \in {"table", "column", "moved", "junction", "unique", "flags"}
    /\ \A d \in Designers : Busy(d) => Len(job[d].todo) > 0

\* What requests that are under way, or that stopped, account for.
Unsettled == torn \cup UNION {LeftBy(job[d]) : d \in Designers}
Excused(x) == x \in Unsettled \/ Table(x[2]) \in Unsettled

\* Whatever the catalogue describes is stored: a list, a form or an import that
\* relies on a field finds its column, unless a request is between the two sides
\* or stopped there (schema_service, designer/routes.py).
RowsHaveStorage ==
    \A x \in Described(cat) : StoredAs({x}) # {} \/ Excused(x)
                              \/ \E y \in Unsettled : Same(x, y)

\* Nothing is left in the database that no row describes, but for what a request
\* left that stopped half way: a name that the catalogue gives as free is free.
StorageHasRows ==
    \A y \in phys \ Foreign :
        \/ y[1] = "flags" \/ Excused(y)
        \/ \E x \in Described(cat) : Same(x, y)

\* The catalogue and the database agree.
SidesAgree == TypeOK /\ RowsHaveStorage /\ StorageHasRows

\* "Its physical table and records remain" (designer/schema_impact.html): what
\* was stored before Biggy came stays, whatever is done to the rows that describe
\* it, and whoever drops, renames, wipes or undoes at the same time.
ForeignKept == Foreign \subseteq phys

\* "Biggy never issues DDL against them" (docs/schema-json-format.md): nothing is
\* added to them either.  table_flags does not keep this: it adds the columns for
\* tracking.  Junctions are tables of their own.
ForeignUntouched ==
    [][\A x \in phys' \ phys : x[2] \in External => x[1] = "junction"]_vars

\* References that no foreign key keeps up, and the requests do: the relation of
\* a column and of an item, the source of a table, the company and the role of a
\* user.  Requests leave none of them dangling, as long as none is under way while
\* another has still to delete rows.
KeptReferences ==
    [relation |-> {"from_table_id", "to_table_id", "from_field_id"}, item |-> {"relation_id"},
     table |-> {"source_id"}, user |-> {"company_id", "role"}, company |-> {"parent_id"},
     permission |-> {"role"}, fieldperm |-> {"role"}, unique |-> {"table_id"}]

ReferencesKept ==
    \A k \in DOMAIN cat : k[1] \in DOMAIN KeptReferences =>
        \A m \in KeptReferences[k[1]] : cat[k][m] # Gone

\* No company is below itself: a walk up from it ends (companies.subtree_ids).
CompaniesAreTrees ==
    \A k \in Rows("company") :
        LET up[n \in 0 .. Cardinality(Rows("company"))] ==
              IF n = 0 THEN k
              ELSE LET below == up[n - 1] IN
                   IF below \in DOMAIN cat THEN cat[below].parent_id ELSE None
        IN \A n \in 1 .. Cardinality(Rows("company")) : up[n] # k

\* What breaks the references is a request that looked before another deleted
\* what it saw: no request is under way while another has still to delete rows.
DeletesAlone == \A d, e \in Designers : d # e /\ job[d].del # {} => ~ Busy(e)

\* The catalogue is whole but for the bare ids that the reports are for.
CatalogueSound == ReferencesKept /\ CompaniesAreTrees

-----------------------------------------------------------------------------
(* What a catalogue is like that nobody changed behind another's back.        *)

\* A column for a field of the table t names one of them.
FieldOf(c, f, t) == f \in DOMAIN c => c[f].table_id = t

\* The references that the requests keep up; the fields a row names, which are of
\* its own table; and what belongs together: a relation and its column, an item
\* and what it shows.
SaneRow(c, k, row) ==
    /\ k[1] = "table" => FieldOf(c, row.display_field_id, k) /\ row.source_id # Gone
    /\ k[1] = "field" /\ row.related_table_id # None =>
         \E r \in RowsIn(c, "relation") : c[r].from_field_id = k
    /\ k[1] = "relation" =>
         /\ row.from_table_id \notin {None, Gone} /\ row.to_table_id \notin {None, Gone}
         /\ row.from_field_id # Gone
         /\ FieldOf(c, row.from_field_id, row.from_table_id)
         /\ FieldOf(c, row.from_display_field_ids, row.from_table_id)
         /\ FieldOf(c, row.to_display_field_ids, row.to_table_id)
         /\ row.from_field_id \in DOMAIN c =>
              c[row.from_field_id].related_table_id = row.to_table_id
    /\ k[1] = "unique" => FieldOf(c, row.field_ids, row.table_id)
    /\ k[1] = "item" =>
         /\ row.form_id # None /\ row.relation_id # Gone
         /\ row.relation_id \in DOMAIN c => c[row.relation_id].from_field_id = None
         /\ row.field_id = None => row.parent_field_id = None /\ row.filter_field_id = None
    /\ k[1] = "workflow" => FieldOf(c, row.field_id, row.table_id)
    /\ k[1] = "step" => row.workflow_id # None
    /\ k[1] = "trigger" =>
         \A m \in {"field_id", "cond_field_id", "set_field_id"} : FieldOf(c, row[m], row.table_id)
    /\ k[1] = "sla" =>
         \A m \in {"status_field_id", "cond_field_id", "state_field_id", "due_field_id",
                   "breach_set_field_id"} : FieldOf(c, row[m], row.table_id)
    /\ k[1] = "feed" =>
         \A m \in {"field_id", "cond_field_id"} : FieldOf(c, row[m], row.source_table_id)
    /\ k[1] = "user" => row.role # Gone /\ row.company_id # Gone
    /\ k[1] = "company" => row.parent_id # Gone
    /\ k[1] \in {"permission", "fieldperm"} => row.role # Gone

\* A column belongs to one relation.
OneRelation(c) ==
    \A r, s \in RowsIn(c, "relation") :
        c[r].from_field_id \in DOMAIN c /\ c[r].from_field_id = c[s].from_field_id => r = s

\* Of any companies, one is below none of them.
NoCycle(c) ==
    \A S \in SUBSET RowsIn(c, "company") : S # {} => \E k \in S : c[k].parent_id \notin S

Sane(c) == OneRelation(c) /\ NoCycle(c) /\ \A k \in DOMAIN c : SaneRow(c, k, c[k])

\* A file was written of such a catalogue; parts of it may be missing since, but
\* not the roles that have permissions, nor the forms that items are on.
Readable(file) ==
    /\ OneRelation(file)
    /\ \A k \in DOMAIN file :
         /\ k[1] # "field" => SaneRow(file, k, file[k])
         /\ k[1] \in {"permission", "fieldperm"} => file[k].role \in DOMAIN file \cup {None}
         /\ k[1] = "item" => file[k].form_id \in DOMAIN file

\* Nothing is wrong with what it starts from, and with the files.
ASSUME SoundStart ==
    /\ \A s \in Seeds : Sane(s.cat)
    /\ \A file \in Files \cup {Example} : Readable(file)

-----------------------------------------------------------------------------
(* The reports, against what the requests do.                                 *)
Altered(after) ==
    {k \in DOMAIN cat : k \notin DOMAIN after \/ \E m \in Columns(k) : after[k][m] # cat[k][m]}

\* A part is named by what it is a part of; the report does not look at widgets,
\* maintenance windows and mailboxes at all.
Named(s, k) ==
    \/ k \in Dependencies(s) \cup s.ids \cup s.rels
    \/ s.whole /\ k = s.table
    \/ k[1] \in {"item", "view"} /\ cat[k].form_id \in Dependencies(s)
    \/ k[1] = "step" /\ cat[k].workflow_id \in Dependencies(s)
    \/ k[1] \in {"widget", "window", "mailbox"}

\* Whatever a deletion would change is on the page that announces it, for every
\* table that may be deleted, every field and every relation (schema_impact).
ImpactCovers ==
    /\ \A t \in Rows("table") :
         TouchingRelations(OfTable(t)) = {} =>
           \A k \in Altered(Without(cat, {t})) : Named(OfTable(t), k)
    /\ \A f \in Rows("field") :
         \A k \in Altered(Without(cat, {f} \cup RelationOf(f))) : Named(OfField(f), k)
    /\ \A r \in Rows("relation") :
         \A k \in Altered(Without(cat, {r} \cup FieldOfRelation(cat, r)
                                       \cup {i \in Rows("item") : cat[i].relation_id = r})) :
           Named(OfRelation(r), k)

\* A form with an item whose references dangle is reported as broken; what is
\* not looked at is the filter of a dropdown without a parent (design_health).
BrokenFormsReported ==
    \A form \in Rows("form") : \A i \in OnForm(form) :
        \/ Gone \notin {cat[i].field_id, cat[i].relation_id, cat[i].parent_field_id}
           /\ (cat[i].filter_field_id = Gone => cat[i].parent_field_id = None)
        \/ Issue(form, i)

\* A designer is told what a deletion will touch, and afterwards what it broke.
ReportsComplete == ImpactCovers /\ BrokenFormsReported

\* A model can always be exported and read back: a file that lacks a table of
\* one of its relations would end the import, with the old model gone.
ExportLoads == Loads(export_schema(cat))

\* A row whose references are whole is the same after an export and an import, but
\* for a picker label that is the column of a foreign key (LabelsRoundTrip).
Intact(c, k) == \A m \in DOMAIN c[k] : c[k][m] # Gone
LabelledByKey(c, k, m) == m \in Labels /\ c[k][m] \in RowsIn(c, "field") \ ScalarFields(c)
RoundTrip ==
    LET file == export_schema(cat)
        back == import_schema(file) IN
    \A k \in DOMAIN file : Intact(file, k) =>
        /\ k \in DOMAIN back
        /\ \A m \in DOMAIN file[k] : LabelledByKey(file, k, m) \/ back[k][m] = file[k][m]

\* An export can stand for the model it was taken of.
ExportsFaithful == ExportLoads /\ RoundTrip

\* "remapping every cross-reference from old ids to the new ids it assigns"
\* (schema_io.py): labels that name a field of the file are remapped, too.
LabelsRoundTrip ==
    LET file == export_schema(cat)
        back == import_schema(file) IN
    \A k \in DOMAIN file : Intact(file, k) =>
        \A m \in DOMAIN file[k] \cap Labels : back[k][m] = file[k][m]

=============================================================================
