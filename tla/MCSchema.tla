------------------------------- MODULE MCSchema -------------------------------
(* Small catalogues for Schema: one for each part of what a designer          *)
(* configures, and some where requests overlap and fail.                      *)
EXTENDS Schema

T(n) == <<"table", n>>
F(n) == <<"field", n>>
R(n) == <<"relation", n>>
The(class) == <<class, 1>>

\* A row with the references given, and no others.
Only(class, refs) ==
    The(class) :> [m \in DOMAIN Model[class] |-> IF m \in DOMAIN refs THEN refs[m] ELSE None]
Tables(n) == [t \in {T(i) : i \in 1 .. n} |-> [display_field_id |-> None, source_id |-> None]]
Seed(of, rows, each, rest) == [topic |-> [of |-> of, rows |-> rows, each |-> each], cat |-> rest]

Plain == Tables(1) @@ F(1) :> Field(T(1), None)
Formed == Plain @@ Only("form", [table_id |-> T(1)])

\* A task refers to a project and to another task; the second can be filtered by
\* the first.
Tasks ==
    Tables(2) @@ F(1) :> Field(T(1), T(2)) @@ F(2) :> Field(T(1), T(1))
    @@ R(1) :> Relation(T(1), T(2), F(1)) @@ R(2) :> Relation(T(1), T(1), F(2))
Shown(f) ==
    [form_id |-> The("form"), field_id |-> f, relation_id |-> None,
     parent_field_id |-> None, filter_field_id |-> None]
Dropdowns ==
    Tasks @@ Only("form", [table_id |-> T(1)])
    @@ <<"item", 1>> :> Shown(F(1)) @@ <<"item", 2>> :> Shown(F(2))

Links == Formed @@ R(1) :> Relation(T(1), T(1), None)

ConfigSeeds ==
    {Seed({"item", "field"}, 9, 2, Dropdowns),
     Seed({"item", "form"}, 9, 3, Links),
     Seed({"item", "relation", "label"}, 6, 2, Links),
     Seed({"menu", "dashboard", "widget", "form"}, 6, 2, Formed),
     Seed({"view", "user", "form", "permission", "report"}, 7, 2, Formed @@ Only("role", <<>>)),
     Seed({"role", "user", "permission", "fieldperm", "field"}, 6, 2, Formed),
     Seed({"company", "user"}, 5, 3, Only("role", <<>>)),
     Seed({"trigger", "table"}, 4, 2, Plain),
     Seed({"sla", "field", "user"}, 5, 1, Plain @@ Only("role", <<>>)),
     Seed({"connection", "feed", "field"}, 5, 2, Plain),
     Seed({"webhook", "pull", "connection", "user", "table"}, 5, 2, Plain @@ Only("role", <<>>)),
     Seed({"recurring", "window", "mailbox", "form", "table"}, 5, 2, Formed),
     Seed({"workflow", "step", "user", "role", "field", "table"}, 6, 1, Plain),
     Seed({"source", "table", "field", "adopt"}, 5, 2, Only("source", <<>>)),
     Seed({"table", "relation"}, 4, 2, Tables(2)),
     Seed({"relation", "label", "import"}, 6, 2, Tables(2)),
     Seed({"import", "unique", "role"}, 6, 2, Links @@ Only("role", <<>>))}

\* Nothing tells the designers apart.
DesignerSymmetry == Permutations(Designers)

\* Requests that may overlap, be refused and die.
FaultySeeds ==
    {Seed({"table", "field", "faults"}, 4, 2, Plain),
     Seed({"field", "unique", "rename", "flags", "faults"}, 3, 2, Plain),
     Seed({"table", "relation", "faults"}, 4, 2, Tables(2)),
     Seed({"field", "relation", "faults"}, 5, 2, Tables(1)),
     Seed({"field", "relation", "label", "faults"}, 5, 1, Tables(1)),
     Seed({"relation", "label", "faults"}, 5, 2, Tables(2)),
     Seed({"import", "faults"}, 9, 2, Links)}

MCSeeds == ConfigSeeds \cup FaultySeeds

\* A label that is a foreign key; tracking for an adopted table; a field of one
\* table asked for at another.
LabelSeeds == {Seed({"relation", "label"}, 6, 2, Tables(2))}
ForeignSeeds == {Seed({"adopt", "flags"}, 5, 2, Plain)}
Crossed == Tables(2) @@ F(1) :> Field(T(1), None) @@ F(2) :> Field(T(2), None)
CrossedSeeds == {Seed({"field", "misrouted"}, 6, 3, Crossed)}

\* Bounds: the requests of the designers overlap only where they may fail; and,
\* where relations are made, not while another request has still to delete rows.
OneAtATime == \A d, e \in Designers : Busy(d) /\ Busy(e) => d = e
Together ==
    IF "faults" \notin topic.of THEN OneAtATime
    ELSE "relation" \in topic.of => DeletesAlone
MCSpec == Init /\ [][Next /\ Together']_vars

Legacy ==
    {Table(T(3)), <<"column", T(3), F(3), None>>, <<"column", T(3), F(4), T(3)>>}
\* A file that was cut by hand: a relation to a table that it lacks.
CutFile ==
    Tables(1) @@ F(1) :> Field(T(1), T(2)) @@ F(2) :> Field(T(1), None)
    @@ R(1) :> Relation(T(1), T(2), F(1))
CutFiles == {CutFile}
ExampleFile == Tables(1) @@ F(2) :> Field(T(1), None)
=============================================================================
